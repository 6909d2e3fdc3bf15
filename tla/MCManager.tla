----------------------------- MODULE MCManager -----------------------------
(***************************************************************************)
(* The Manager's parts that share no state in the code, model-checked one   *)
(* at a time in one run: focus names the part whose steps a behaviour       *)
(* takes, the others stay as they start.  No fair action of a part is       *)
(* enabled in its initial state, so the fairness of a part that is not in   *)
(* focus holds of the steps it never takes.                                 *)
(***************************************************************************)
EXTENDS CacheOwner, RegistryCache, SiteLifecycle, InternalIdentity, ComponentController

VARIABLE focus

vars == <<cacheVars, registryVars, siteVars, identityVars, componentVars, focus>>

Init ==
  /\ focus \in {"owner", "registry", "site", "identity", "component"}
  /\ CacheInit /\ RegistryInit /\ SiteInit /\ IdentityInit /\ ComponentInit

Next ==
  /\ UNCHANGED focus
  /\ \/ /\ focus = "owner" /\ CacheNext
        /\ UNCHANGED <<registryVars, siteVars, identityVars, componentVars>>
     \/ /\ focus = "registry" /\ RegistryNext
        /\ UNCHANGED <<cacheVars, siteVars, identityVars, componentVars>>
     \/ /\ focus = "site" /\ SiteNext
        /\ UNCHANGED <<cacheVars, registryVars, identityVars, componentVars>>
     \/ /\ focus = "identity" /\ IdentityNext
        /\ UNCHANGED <<cacheVars, registryVars, siteVars, componentVars>>
     \/ /\ focus = "component" /\ ComponentNext
        /\ UNCHANGED <<cacheVars, registryVars, siteVars, identityVars>>

(* The fairness of a part, where it runs.                                   *)
Of(part, A) == focus = part /\ A

Spec ==
  /\ Init /\ [][Next]_vars
  /\ WF_cacheVars(Of("owner", CacheTick))
  /\ \A p \in Procs :
       WF_cacheVars(Of("owner", \/ StartStream(p) \/ Receive(p) \/ AskTimeout(p) \/ PermitOver(p)
                               \/ RunInstance(p) \/ StopInstance(p) \/ ReleaseCache(p)
                               \/ CacheControl(p) \/ LateRequest(p) \/ SendConfig(p)))
  /\ WF_siteVars(Of("site", Reconcile)) /\ WF_siteVars(Of("site", Terminated))
  /\ WF_componentVars(Of("component", Pass))
=============================================================================
