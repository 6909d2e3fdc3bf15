--------------------------- MODULE SiteLifecycle ---------------------------
(***************************************************************************)
(* A Gitea site from registration to removal (internal/cluster site.go,    *)
(* admin_site.go, admin.go, status.go): the administration API that        *)
(* creates, edits and deletes it, the reconciler that owns its namespace,  *)
(* the cleanup of unreferenced credentials, and the coordinator and the    *)
(* Runtime reconciler that put Codespaces and volumes into the namespace.   *)
(* Every step is one call to the Kubernetes API.  One site is followed from *)
(* the call that registers it: names are generated, so nothing else ever    *)
(* has its name or its namespace's.                                         *)
(***************************************************************************)
EXTENDS Integers

CONSTANTS
  PruneAge,      \* the hour a credential is kept whatever refers to it
  CreateLife,    \* age a credential can have when its site's Create commits
  SiteEdits,     \* edits by the administrator
  SiteFaults     \* Manager restarts, Codespace records or namespaces lost

ASSUME SiteConstants ==
  /\ {PruneAge, CreateLife, SiteEdits, SiteFaults} \subseteq Nat
  /\ CreateLife < PruneAge

VARIABLES
  site,       \* the GiteaSite object
  cred,       \* its credential Secret
  creating,   \* the site Create is on its way to the API server
  checked,    \* a deletion passed validateResourceDeletion on this version
  pruning,    \* pruneCredentials
  ns,         \* the site's namespace
  record,     \* there is a Codespace in the namespace
  volume,     \* its volume: none, new, or there when deletion was requested
  reconciler, \* SiteReconciler: its step and what it has read
  worker,     \* the coordinator has read the site as active
  starting,   \* the Runtime reconciler has passed its checks
  edits, faulted

siteVars == <<site, cred, creating, checked, pruning, ns, record, volume,
              reconciler, worker, starting, edits, faulted>>

NoSite == [exists |-> FALSE, enabled |-> FALSE, deleting |-> FALSE, finalizer |-> FALSE,
           recorded |-> FALSE, verified |-> FALSE]
AtRest == [step |-> "idle", recorded |-> FALSE, changed |-> FALSE]
NotPruning == [step |-> "idle", used |-> FALSE]

SiteInit ==
  /\ site = NoSite
  /\ cred = [state |-> "none", age |-> 0]
  /\ creating = FALSE
  /\ checked = FALSE
  /\ pruning = NotPruning
  /\ ns = "none"
  /\ record = FALSE
  /\ volume = "none"
  /\ reconciler = AtRest
  /\ worker = FALSE
  /\ starting = FALSE
  /\ edits = 0
  /\ faulted = 0

(* A write of the object makes every earlier read of it stale; a write of   *)
(* its spec or its deletion also moves its generation.                      *)
Write(s) == site' = s /\ checked' = (checked /\ s = site)
Respecify(s) ==
  /\ Write([s EXCEPT !.verified = FALSE])
  /\ reconciler' = [reconciler EXCEPT !.changed = reconciler.step # "idle"]

(***************************************************************************)
(* The administration API.                                                 *)
(***************************************************************************)

(* saveSite: register with Gitea, store the credential, send the Create.    *)
Register ==
  /\ cred.state = "none"
  /\ cred' = [cred EXCEPT !.state = "pending"]
  /\ creating' = TRUE
  /\ UNCHANGED <<site, checked, pruning, ns, record, volume, reconciler, worker,
                 starting, edits, faulted>>

(* The Create commits, even after its caller gave up; or never arrives.     *)
CommitCreate ==
  /\ creating
  /\ Write([NoSite EXCEPT !.exists = TRUE, !.enabled = TRUE])
  /\ creating' = FALSE
  /\ UNCHANGED <<cred, pruning, ns, record, volume, reconciler, worker, starting,
                 edits, faulted>>

LoseCreate ==
  /\ creating
  /\ creating' = FALSE
  /\ UNCHANGED <<site, cred, checked, pruning, ns, record, volume, reconciler,
                 worker, starting, edits, faulted>>

(* bindSiteCredential: what is pending for this site becomes its own.       *)
bindSiteCredential ==
  /\ cred.state \in {"pending", "bound"}
  /\ cred' = [cred EXCEPT !.state = "bound"]

BindCreated ==
  /\ site.exists
  /\ bindSiteCredential
  /\ UNCHANGED <<site, creating, checked, pruning, ns, record, volume, reconciler,
                 worker, starting, edits, faulted>>

(* saveSite for an existing site.                                           *)
EditSite ==
  /\ site.exists /\ ~site.deleting
  /\ edits < SiteEdits
  /\ Respecify([site EXCEPT !.enabled = ~@])
  /\ edits' = edits + 1
  /\ UNCHANGED <<cred, creating, pruning, ns, record, volume, worker, starting, faulted>>

(* handleResourceWrite: validate the deletion, then delete this version.    *)
validateSiteDeletion ==
  /\ site.exists /\ ~site.deleting /\ ~checked
  /\ ~site.enabled
  /\ ~record
  /\ checked' = TRUE
  /\ UNCHANGED <<site, cred, creating, pruning, ns, record, volume, reconciler,
                 worker, starting, edits, faulted>>

RequestDeletion ==
  /\ checked
  /\ Respecify(IF site.finalizer THEN [site EXCEPT !.deleting = TRUE] ELSE NoSite)
  /\ volume' = IF volume = "new" THEN "retained" ELSE volume
  /\ UNCHANGED <<cred, creating, pruning, ns, record, worker, starting, edits, faulted>>

(* pruneCredentials.                                                        *)
ListSites ==
  /\ pruning.step = "idle"
  /\ pruning' = [step |-> "listed", used |-> site.exists]
  /\ UNCHANGED <<site, cred, creating, checked, ns, record, volume, reconciler,
                 worker, starting, edits, faulted>>

Prunable ==
  /\ cred.state \in {"pending", "bound"}
  /\ ~pruning.used
  /\ cred.age >= PruneAge

ListSecrets ==
  /\ pruning.step = "listed"
  /\ pruning' = IF Prunable THEN [pruning EXCEPT !.step = "found"] ELSE NotPruning
  /\ UNCHANGED <<site, cred, creating, checked, ns, record, volume, reconciler,
                 worker, starting, edits, faulted>>

ReferencedWhenListed == pruning.used

(* A fresh list, for a reference committed during the pass.                 *)
ReferencedNow == site.exists

RecheckSecret ==
  /\ pruning.step = "found"
  /\ pruning' = IF ReferencedNow THEN NotPruning ELSE [pruning EXCEPT !.step = "delete"]
  /\ UNCHANGED <<site, cred, creating, checked, ns, record, volume, reconciler,
                 worker, starting, edits, faulted>>

DeleteSecret ==
  /\ pruning.step = "delete"
  /\ cred' = [cred EXCEPT !.state = "deleted"]
  /\ pruning' = NotPruning
  /\ UNCHANGED <<site, creating, checked, ns, record, volume, reconciler, worker,
                 starting, edits, faulted>>

(***************************************************************************)
(* SiteReconciler.                                                         *)
(***************************************************************************)

Step(s) == reconciler' = [reconciler EXCEPT !.step = s]
Rest == reconciler' = AtRest

ReadSite ==
  /\ reconciler.step = "idle"
  /\ site.exists
  /\ ~(site.deleting /\ ~site.finalizer)
  /\ reconciler' = [step |-> IF site.deleting THEN "list"
                             ELSE IF site.finalizer THEN "namespace" ELSE "finalizer",
                    recorded |-> site.recorded, changed |-> FALSE]
  /\ UNCHANGED <<site, cred, creating, checked, pruning, ns, record, volume, worker,
                 starting, edits, faulted>>

AddFinalizer ==
  /\ reconciler.step = "finalizer"
  /\ IF reconciler.changed THEN UNCHANGED <<site, checked>>
     ELSE Write([site EXCEPT !.finalizer = TRUE])
  /\ Rest
  /\ UNCHANGED <<cred, creating, pruning, ns, record, volume, worker, starting,
                 edits, faulted>>

(* ensureNamespace: create it once, then only ever accept that one.         *)
ensureNamespace ==
  /\ reconciler.step = "namespace"
  /\ \/ /\ ns = "none" /\ ~reconciler.recorded
        /\ ns' = "live"
        /\ reconciler' = [reconciler EXCEPT !.step = "bind", !.recorded = TRUE]
     \/ /\ ns = "live"
        /\ reconciler' = [reconciler EXCEPT !.step = "bind", !.recorded = TRUE]
        /\ UNCHANGED ns
     \/ /\ ns # "live" /\ (ns = "none" => reconciler.recorded)
        /\ Step("unavailable")
        /\ UNCHANGED ns
  /\ UNCHANGED <<site, cred, creating, checked, pruning, record, volume, worker,
                 starting, edits, faulted>>

(* The namespace's resources may be refused; the credential is bound and    *)
(* the Manager's identity checked with Gitea, which may refuse.             *)
BindCredential ==
  /\ reconciler.step = "bind"
  /\ \/ bindSiteCredential /\ Step("verified")
     \/ Step("unavailable") /\ UNCHANGED cred
  /\ UNCHANGED <<site, creating, checked, pruning, ns, record, volume, worker,
                 starting, edits, faulted>>

(* condition: the status of an object that has changed is not written.      *)
Observed == site.exists /\ ~reconciler.changed

condition ==
  /\ reconciler.step \in {"verified", "unavailable"}
  /\ IF Observed
     THEN Write([site EXCEPT !.recorded = reconciler.recorded,
                             !.verified = (reconciler.step = "verified" /\ site.enabled)])
     ELSE UNCHANGED <<site, checked>>
  /\ Rest
  /\ UNCHANGED <<cred, creating, pruning, ns, record, volume, worker, starting,
                 edits, faulted>>

(* deleteSite: no Codespace, the namespace it was bound to, no volume.      *)
ListCodespaces ==
  /\ reconciler.step = "list"
  /\ IF record THEN Rest ELSE Step("volumes")
  /\ UNCHANGED <<site, cred, creating, checked, pruning, ns, record, volume, worker,
                 starting, edits, faulted>>

(* A vanished record alone does not authorize destroying a volume.          *)
NoVolumes == volume = "none"

NamespaceAlwaysThere == FALSE

(* Not found is the one answer that lets the site go.                       *)
NamespaceGone == ns = "none"

CleanupNamespace ==
  /\ reconciler.step = "volumes"
  /\ CASE NamespaceGone -> Step("release")
       [] ns = "live" /\ reconciler.recorded /\ NoVolumes -> Step("delete")
       [] OTHER -> Rest
  /\ UNCHANGED <<site, cred, creating, checked, pruning, ns, record, volume, worker,
                 starting, edits, faulted>>

DeleteNamespace ==
  /\ reconciler.step = "delete"
  /\ ns' = IF ns = "live" THEN "terminating" ELSE ns
  /\ Rest
  /\ UNCHANGED <<site, cred, creating, checked, pruning, record, volume, worker,
                 starting, edits, faulted>>

RemoveFinalizer ==
  /\ reconciler.step = "release"
  /\ IF Observed THEN Write(NoSite) ELSE UNCHANGED <<site, checked>>
  /\ Rest
  /\ UNCHANGED <<cred, creating, pruning, ns, record, volume, worker, starting,
                 edits, faulted>>

Reconcile ==
  \/ ReadSite \/ AddFinalizer \/ ensureNamespace \/ BindCredential \/ condition
  \/ ListCodespaces \/ CleanupNamespace \/ DeleteNamespace \/ RemoveFinalizer

(* Kubernetes removes a terminating namespace and everything in it.         *)
Terminated ==
  /\ ns = "terminating"
  /\ ns' = "none"
  /\ record' = FALSE
  /\ volume' = "none"
  /\ UNCHANGED <<site, cred, creating, checked, pruning, reconciler, worker, starting,
                 edits, faulted>>

(***************************************************************************)
(* Codespaces.                                                             *)
(***************************************************************************)

(* The coordinator reads an enabled, verified site and its namespace, and   *)
(* later creates the record of an operation it received for that site.      *)
ReadActive ==
  /\ ~worker
  /\ site.enabled /\ ~site.deleting /\ site.verified
  /\ ns = "live" /\ site.recorded
  /\ worker' = TRUE
  /\ UNCHANGED <<site, cred, creating, checked, pruning, ns, record, volume,
                 reconciler, starting, edits, faulted>>

CreateRecord ==
  /\ worker
  /\ record' = (record \/ ns = "live")
  /\ worker' = FALSE
  /\ UNCHANGED <<site, cred, creating, checked, pruning, ns, volume, reconciler,
                 starting, edits, faulted>>

(* RuntimeReconciler: the site and the namespace are the record's; whether  *)
(* the site is being deleted is not asked.                                  *)
StartRuntime ==
  /\ ~starting
  /\ record /\ site.exists /\ site.recorded /\ ns # "none" /\ volume = "none"
  /\ starting' = TRUE
  /\ UNCHANGED <<site, cred, creating, checked, pruning, ns, record, volume,
                 reconciler, worker, edits, faulted>>

ensureVolume ==
  /\ starting
  /\ starting' = FALSE
  /\ volume' = IF ns = "live" THEN "new" ELSE volume
  /\ UNCHANGED <<site, cred, creating, checked, pruning, ns, record, reconciler,
                 worker, edits, faulted>>

(* A deletion authorized by Gitea removes the volume, then the record.      *)
DeleteRuntime ==
  /\ ~starting
  /\ record /\ site.exists /\ site.recorded /\ ns # "none"
  /\ IF volume = "none" THEN record' = FALSE /\ UNCHANGED volume
     ELSE volume' = "none" /\ UNCHANGED record
  /\ UNCHANGED <<site, cred, creating, checked, pruning, ns, reconciler, worker,
                 starting, edits, faulted>>

(***************************************************************************)
(* Faults, and time.                                                       *)
(***************************************************************************)

RestartManager ==
  /\ faulted < SiteFaults
  /\ faulted' = faulted + 1
  /\ reconciler' = AtRest
  /\ worker' = FALSE
  /\ starting' = FALSE
  /\ pruning' = NotPruning
  /\ checked' = FALSE
  /\ UNCHANGED <<site, cred, creating, ns, record, volume, edits>>

(* The record vanishes from the cluster; its volume stays.                  *)
LoseRecord ==
  /\ faulted < SiteFaults
  /\ record
  /\ faulted' = faulted + 1
  /\ record' = FALSE
  /\ UNCHANGED <<site, cred, creating, checked, pruning, ns, volume, reconciler,
                 worker, starting, edits>>

(* The namespace is deleted by other means, with what is in it.             *)
LoseNamespace ==
  /\ faulted < SiteFaults
  /\ ns = "live"
  /\ faulted' = faulted + 1
  /\ ns' = "none"
  /\ record' = FALSE
  /\ volume' = "none"
  /\ UNCHANGED <<site, cred, creating, checked, pruning, reconciler, worker, starting,
                 edits>>

SiteTick ==
  /\ creating => cred.age < CreateLife
  /\ cred.state \in {"pending", "bound"} /\ cred.age < PruneAge
  /\ cred' = [cred EXCEPT !.age = @ + 1]
  /\ UNCHANGED <<site, creating, checked, pruning, ns, record, volume, reconciler,
                 worker, starting, edits, faulted>>

SiteNext ==
  \/ Register \/ CommitCreate \/ LoseCreate \/ BindCreated \/ EditSite \/ validateSiteDeletion \/ RequestDeletion
  \/ ListSites \/ ListSecrets \/ RecheckSecret \/ DeleteSecret
  \/ Reconcile \/ Terminated
  \/ ReadActive \/ CreateRecord \/ StartRuntime \/ ensureVolume \/ DeleteRuntime
  \/ RestartManager \/ LoseRecord \/ LoseNamespace \/ SiteTick

SiteFairness == WF_siteVars(Reconcile) /\ WF_siteVars(Terminated)

SiteSpec == SiteInit /\ [][SiteNext]_siteVars /\ SiteFairness

(***************************************************************************)
(* Properties.                                                             *)
(***************************************************************************)

(* What is in use is kept.  Removing a site never destroys a volume that    *)
(* was there when its deletion was requested, not even one whose Codespace  *)
(* record has vanished (deleteSite); a volume created since, by a           *)
(* coordinator that had read the site while it was enabled, has no such     *)
(* protection.  The credential a site refers to is never pruned: neither    *)
(* while the site's Create is on its way, nor by a cleanup pass that listed *)
(* the sites before the Create committed (pruneCredentials).                *)
InUseKept ==
  /\ ns = "terminating" => volume # "retained"
  /\ site.exists => cred.state # "deleted"

(* A site being deleted whose namespace was recorded is removed, unless     *)
(* Codespaces or volumes are left in it (deleteSite).  A site deleted       *)
(* before its namespace was recorded is not: condition drops the UID when   *)
(* the generation moves, and deleteSite then refuses the namespace.         *)
SiteRemoved ==
  (site.deleting /\ site.recorded) ~> (~site.exists \/ record \/ volume # "none")
=============================================================================
