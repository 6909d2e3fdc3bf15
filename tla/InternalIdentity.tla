-------------------------- MODULE InternalIdentity --------------------------
(***************************************************************************)
(* The installation's certificates: the CA Secret that Manager replicas     *)
(* create, load and renew (internal/cluster identity_authority.go over      *)
(* internal/identity authority.go), the leaf Secret a component is given    *)
(* (identity_secret.go), and the copy its process keeps of the projected    *)
(* files (internal/transport identity.go).                                  *)
(*                                                                          *)
(* A certificate is its root and the ticks left to it and to its issuer.    *)
(* Within a tick every replica synchronizes, the component is reconciled,   *)
(* the kubelet projects its Secret and its process looks at the files,      *)
(* unless one of them is held up, which Delays bounds.                      *)
(***************************************************************************)
EXTENDS Integers

CONSTANTS
  Replicas,          \* Manager replicas
  MaxRoots,          \* roots generated
  LeafLifetime, LeafRenewBefore,
  IssuerLifetime, IssuerRenewBefore,
  Delays             \* bound: hold-ups of a tick's work

ASSUME IdentityConstants ==
  /\ {MaxRoots, LeafLifetime, LeafRenewBefore, IssuerLifetime, IssuerRenewBefore, Delays} \subseteq Nat
  /\ LeafRenewBefore < LeafLifetime
  /\ IssuerRenewBefore < IssuerLifetime

VARIABLES
  authority, \* the CA Secret: root, ticks left to its issuer, present
  roots,     \* roots generated so far
  replica,   \* per replica: its step, authority, and own certificate
  workload,  \* the component: its leaf Secret, projected files and process
  due,       \* work still to be done in this tick
  delayed,   \* hold-ups so far
  lost       \* the CA Secret has been lost at some time

identityVars == <<authority, roots, replica, workload, due, delayed, lost>>

NoLeaf == [root |-> 0, left |-> 0, issuer |-> 0]
Down == [step |-> "down", root |-> 0, issuer |-> 0, left |-> 0, conflict |-> FALSE]
Work == {"component", "project", "refresh"}

(* A leaf's renewal window, and an issuer's, are wide enough for the three  *)
(* steps from the Secret to the process, and for the hold-ups: with a tick  *)
(* of an hour, the time between two syncs, 8 and 720 ticks.                 *)
ASSUME RenewalWindows ==
  /\ LeafRenewBefore > Delays + 2
  /\ IssuerRenewBefore > Delays + 3
  /\ Replicas \cap Work = {}

IdentityInit ==
  /\ authority = [root |-> 0, issuer |-> 0, present |-> FALSE]
  /\ roots = 0
  /\ replica = [r \in Replicas |-> Down]
  /\ workload = [exists |-> FALSE, secret |-> NoLeaf, files |-> NoLeaf, process |-> NoLeaf]
  /\ due = {}
  /\ delayed = 0
  /\ lost = FALSE

Sooner(a, b) == IF a < b THEN a ELSE b

(***************************************************************************)
(* Authority.                                                              *)
(***************************************************************************)

IssuerNeedsRenewal(left) == left <= IssuerRenewBefore

(* Issue: a leaf never outlives the issuer that signs it.                   *)
Issue(root, issuer) == [root |-> root, left |-> Sooner(LeafLifetime, issuer), issuer |-> issuer]

Valid(leaf) == leaf.left > 0 /\ leaf.issuer > 0

(* ValidateLeaf: this root's, not expired; its renewal time not reached.    *)
ValidateLeaf(leaf, root) == leaf.root = root /\ Valid(leaf)

RenewalReached(leaf) == leaf.left <= LeafRenewBefore

(***************************************************************************)
(* IdentityAuthority, in every replica.                                    *)
(***************************************************************************)

Loaded(root, issuer) ==
  LET leaf == Issue(root, issuer) IN
  [step |-> "serving", root |-> root, issuer |-> issuer, left |-> leaf.left, conflict |-> FALSE]

(* A write of the Secret makes the others' reads of it stale.               *)
Conflicting(r, f) == [q \in Replicas |->
  IF q # r /\ f[q].step \in {"renewing", "creating"} THEN [f[q] EXCEPT !.conflict = TRUE] ELSE f[q]]

NoStateLooked == FALSE

(* Sites, Codespaces, components or identity Secrets exist.                 *)
hasPersistedIdentityState == workload.exists

(* LoadIdentityAuthority: only a new installation creates its root.         *)
LoadIdentityAuthority(r) ==
  /\ replica[r].step = "down"
  /\ \/ /\ authority.present
        /\ replica' = [replica EXCEPT ![r] =
             IF IssuerNeedsRenewal(authority.issuer) THEN [Down EXCEPT !.step = "renewing"]
             ELSE Loaded(authority.root, authority.issuer)]
     \/ /\ ~authority.present /\ ~hasPersistedIdentityState
        /\ replica' = [replica EXCEPT ![r].step = "creating"]
  /\ UNCHANGED <<authority, roots, workload, due, delayed, lost>>

(* Another replica's Secret is a conflict, and is loaded instead.           *)
CreateSucceeds(r) == replica[r].step = "creating" /\ ~authority.present

NewAuthority(r) ==
  /\ CreateSucceeds(r)
  /\ roots < MaxRoots
  /\ roots' = roots + 1
  /\ authority' = [root |-> roots + 1, issuer |-> IssuerLifetime, present |-> TRUE]
  /\ replica' = Conflicting(r, [replica EXCEPT ![r] = Loaded(roots + 1, IssuerLifetime)])
  /\ UNCHANGED <<workload, due, delayed, lost>>

CreateConflicts(r) ==
  /\ replica[r].step = "creating" /\ ~CreateSucceeds(r)
  /\ replica' = [replica EXCEPT ![r] = Down]
  /\ UNCHANGED <<authority, roots, workload, due, delayed, lost>>

(* sync, every hour: a missing Secret ends the replica.                     *)
sync(r) ==
  /\ replica[r].step = "serving" /\ r \in due
  /\ \/ ~authority.present /\ replica' = [replica EXCEPT ![r] = Down]
     \/ /\ authority.present
        /\ replica' = [replica EXCEPT ![r] =
             IF IssuerNeedsRenewal(authority.issuer) THEN [@ EXCEPT !.step = "renewing"]
             ELSE Loaded(authority.root, authority.issuer)]
  /\ due' = due \ {r}
  /\ UNCHANGED <<authority, roots, workload, delayed, lost>>

(* RenewIssuer: the root stays.  The Update is refused if another replica   *)
(* wrote first, and the Secret is read again.                               *)
RenewIssuer(r) ==
  /\ replica[r].step = "renewing"
  /\ IF replica[r].conflict \/ ~authority.present
     THEN /\ replica' = [replica EXCEPT ![r] =
               CASE ~authority.present -> Down
                 [] IssuerNeedsRenewal(authority.issuer) -> [@ EXCEPT !.conflict = FALSE]
                 [] OTHER -> Loaded(authority.root, authority.issuer)]
          /\ UNCHANGED authority
     ELSE /\ authority' = [authority EXCEPT !.issuer = IssuerLifetime]
          /\ replica' = Conflicting(r, [replica EXCEPT ![r] = Loaded(authority.root, IssuerLifetime)])
  /\ UNCHANGED <<roots, workload, due, delayed, lost>>

RestartReplica(r) ==
  /\ replica[r].step # "down"
  /\ delayed < Delays /\ delayed' = delayed + 1
  /\ replica' = [replica EXCEPT ![r] = Down]
  /\ due' = due \ {r}
  /\ UNCHANGED <<authority, roots, workload, lost>>

(***************************************************************************)
(* The component.                                                          *)
(***************************************************************************)

(* A replica renewing its issuer keeps serving with what it has.            *)
Serving(r) == replica[r].root # 0

AddComponent ==
  /\ ~workload.exists
  /\ \E r \in Replicas : Serving(r)
  /\ workload' = [workload EXCEPT !.exists = TRUE]
  /\ due' = due \cup {"component"}
  /\ UNCHANGED <<authority, roots, replica, delayed, lost>>

(* reconcileCertificateSecret, by whichever replica leads.                  *)
reconcileCertificateSecret(r) ==
  /\ "component" \in due
  /\ Serving(r)
  /\ IF ValidateLeaf(workload.secret, replica[r].root) /\ ~RenewalReached(workload.secret)
     THEN UNCHANGED workload
     ELSE /\ replica[r].issuer > 0
          /\ workload' = [workload EXCEPT !.secret = Issue(replica[r].root, replica[r].issuer)]
  /\ due' = due \ {"component"}
  /\ UNCHANGED <<authority, roots, replica, delayed, lost>>

(* The kubelet replaces the projected files.                                *)
ProjectSecret ==
  /\ "project" \in due /\ workload.secret # NoLeaf
  /\ workload' = [workload EXCEPT !.files = workload.secret]
  /\ due' = due \ {"project"}
  /\ UNCHANGED <<authority, roots, replica, delayed, lost>>

(* snapshot: take what the files hold if it is valid, else keep what one    *)
(* has.  The process starts once it has read a valid certificate.           *)
RefreshCertificate ==
  /\ "refresh" \in due
  /\ workload' = IF Valid(workload.files) THEN [workload EXCEPT !.process = workload.files] ELSE workload
  /\ due' = due \ {"refresh"}
  /\ UNCHANGED <<authority, roots, replica, delayed, lost>>

(***************************************************************************)
(* Hold-ups, the loss of the CA Secret, and time.                          *)
(***************************************************************************)

(* A call that fails or comes late, files read while they are replaced.     *)
HoldUp(w) ==
  /\ w \in due
  /\ delayed < Delays /\ delayed' = delayed + 1
  /\ due' = due \ {w}
  /\ UNCHANGED <<authority, roots, replica, workload, lost>>

(* Not between a replica's look at the managed state and its Create.        *)
LoseAuthority ==
  /\ authority.present /\ workload.exists
  /\ \A r \in Replicas : replica[r].step # "creating"
  /\ authority' = [authority EXCEPT !.present = FALSE]
  /\ lost' = TRUE
  /\ UNCHANGED <<roots, replica, workload, due, delayed>>

RestoreAuthority ==
  /\ ~authority.present /\ authority.root # 0
  /\ authority' = [authority EXCEPT !.present = TRUE]
  /\ UNCHANGED <<roots, replica, workload, due, delayed, lost>>

Down1(n) == IF n > 0 THEN n - 1 ELSE 0
AgedLeaf(l) == [l EXCEPT !.left = Down1(@), !.issuer = Down1(@)]

(* What a replica or the component can do in this tick it does; a Manager   *)
(* of which no replica runs is started again.                               *)
Undone ==
  \/ authority.present /\ \A r \in Replicas : ~Serving(r)
  \/ \E r \in Replicas : r \in due \/ replica[r].step = "renewing"
  \/ "component" \in due /\ \E r \in Replicas : Serving(r)
  \/ "project" \in due /\ workload.secret # NoLeaf
  \/ "refresh" \in due

IdentityTick ==
  /\ roots > 0 /\ ~Undone
  /\ authority' = [authority EXCEPT !.issuer = Down1(@)]
  /\ replica' = [r \in Replicas |-> [replica[r] EXCEPT !.issuer = Down1(@), !.left = Down1(@)]]
  /\ workload' = [workload EXCEPT !.secret = AgedLeaf(@), !.files = AgedLeaf(@),
                                  !.process = AgedLeaf(@)]
  /\ due' = {r \in Replicas : replica[r].step = "serving"} \cup (IF workload.exists THEN Work ELSE {})
  /\ UNCHANGED <<roots, delayed, lost>>

IdentityNext ==
  \/ \E r \in Replicas :
       \/ LoadIdentityAuthority(r) \/ NewAuthority(r) \/ CreateConflicts(r)
       \/ sync(r) \/ RenewIssuer(r) \/ RestartReplica(r) \/ reconcileCertificateSecret(r)
  \/ AddComponent \/ ProjectSecret \/ RefreshCertificate
  \/ \E w \in due : HoldUp(w)
  \/ LoseAuthority \/ RestoreAuthority \/ IdentityTick

IdentitySpec == IdentityInit /\ [][IdentityNext]_identityVars

(***************************************************************************)
(* Properties.                                                             *)
(***************************************************************************)

(* All replicas, the CA Secret, the component's Secret, files and process   *)
(* trust one root.                                                          *)
OneRoot ==
  LET trusted == {replica[r].root : r \in Replicas} \cup
                 {authority.root, workload.secret.root, workload.files.root, workload.process.root}
  IN \A a, b \in trusted \ {0} : a = b

(* They do (OneRoot), whichever replicas start at once, renew the issuer at    *)
(* once, or restart while the CA Secret is lost (sync); and while the CA    *)
(* Secret is there, a certificate in use does not expire: the component's   *)
(* is renewed, projected and read in time, the replicas' too, across        *)
(* renewals of the issuer and with any one step of it held up               *)
(* (reconcileCertificateSecret, snapshot, sync).                            *)
TrustHolds ==
  /\ OneRoot
  /\ ~lost => /\ workload.process # NoLeaf => Valid(workload.process)
              /\ \A r \in Replicas : Serving(r) => replica[r].left > 0
=============================================================================
