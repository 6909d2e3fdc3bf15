------------------------- MODULE ComponentController -------------------------
(***************************************************************************)
(* A Gateway or cache component from its saved specification to what runs   *)
(* (internal/cluster component_controller.go, component_configuration.go,   *)
(* admin_component.go): the administration API saves the component and      *)
(* then, in a second call, the keys in its Secret; the reconciler reads the *)
(* component once and brings Secret, workload and exposure up to that       *)
(* generation, call by call.  Both create the Secret if it is missing.      *)
(* The administrator makes one call at a time; each spec has a proxy of its *)
(* own.                                                                     *)
(***************************************************************************)
EXTENDS Integers

CONSTANTS
  ComponentEdits, \* generations the administrator saves
  Rotations,      \* rotations of the host key
  CallFailures    \* bound: calls to the API server that fail

ASSUME ComponentConstants == {ComponentEdits, Rotations, CallFailures} \subseteq Nat

VARIABLES
  spec,       \* the component: role, generation (0: none), managed exposure
  secret,     \* its Secret: version (0: none), generated keys, proxy, S3 keys
  deployment, \* the workload: generation and Secret version it was given
  exposed,    \* Ingress and load balancer: the generation, or 0
  observed,   \* status.observedGeneration
  pass,       \* ComponentReconciler: its step and what it has read
  saving,     \* the administrator's call: its step and what it has read
  kept,       \* generated keys and S3 keys as last acknowledged
  rotated, failed

componentVars == <<spec, secret, deployment, exposed, observed, pass, saving, kept,
                   rotated, failed>>

NoSecret == [version |-> 0, keys |-> "none", proxy |-> 0, s3 |-> 0]
Waiting == [step |-> "idle", generation |-> 0, managed |-> FALSE, read |-> NoSecret]
Quiet == [step |-> "idle", s3 |-> 0, read |-> NoSecret]

ComponentInit ==
  /\ spec = [role |-> "none", generation |-> 0, managed |-> FALSE]
  /\ secret = NoSecret
  /\ deployment = [generation |-> 0, credential |-> 0]
  /\ exposed = 0
  /\ observed = 0
  /\ pass = Waiting
  /\ saving = Quiet
  /\ kept = [keys |-> "none", s3 |-> 0]
  /\ rotated = 0
  /\ failed = 0

(* An Update carries the version it read, and is refused on any other.      *)
Unmodified(read) == secret.version = read.version

CreatedAnyway == TRUE

(* A Create is refused where an object exists.                              *)
Creatable == secret.version = 0

Stored(data) == secret' = [data EXCEPT !.version = secret.version + 1]

(***************************************************************************)
(* The administration API.                                                 *)
(***************************************************************************)

(* saveComponent: a cache's Secret is saved after the component itself,     *)
(* with new S3 keys, or without any to keep those it has.                   *)
SaveComponent ==
  /\ saving.step = "idle"
  /\ spec.generation < ComponentEdits
  /\ \E role \in {"gateway", "cache"}, managed, keys \in BOOLEAN :
       /\ spec.role \in {"none", role}
       /\ (managed => role = "gateway") /\ (keys => role = "cache")
       /\ spec' = [role |-> role, generation |-> spec.generation + 1, managed |-> managed]
       /\ saving' = IF role = "cache"
                    THEN [step |-> "get", s3 |-> IF keys THEN spec.generation + 1 ELSE 0,
                          read |-> NoSecret]
                    ELSE Quiet
  /\ UNCHANGED <<secret, deployment, exposed, observed, pass, kept, rotated, failed>>

Given(s3) == IF saving.s3 = 0 THEN s3 ELSE saving.s3

(* saveCacheCredentials, again from the start on a conflict.                *)
GetCacheSecret ==
  /\ saving.step = "get"
  /\ saving' = [saving EXCEPT !.step = IF secret.version = 0 THEN "create" ELSE "update",
                              !.read = secret]
  /\ UNCHANGED <<spec, secret, deployment, exposed, observed, pass, kept, rotated, failed>>

saveCacheCredentials ==
  /\ \/ /\ saving.step = "create" /\ Creatable
        /\ Stored([NoSecret EXCEPT !.keys = "admin", !.proxy = spec.generation, !.s3 = saving.s3])
        /\ kept' = [keys |-> "admin", s3 |-> saving.s3]
        /\ saving' = Quiet
     \/ /\ saving.step = "update" /\ Unmodified(saving.read)
        /\ Stored([saving.read EXCEPT !.proxy = spec.generation, !.s3 = Given(@)])
        /\ kept' = [kept EXCEPT !.s3 = Given(@)]
        /\ saving' = Quiet
     \/ /\ \/ saving.step = "create" /\ ~Creatable
           \/ saving.step = "update" /\ ~Unmodified(saving.read)
        /\ saving' = [saving EXCEPT !.step = "get", !.read = NoSecret]
        /\ UNCHANGED <<secret, kept>>
  /\ UNCHANGED <<spec, deployment, exposed, observed, pass, rotated, failed>>

(* rotateGatewayHostKey gives up on a conflict.                             *)
GetHostKey ==
  /\ saving.step = "idle"
  /\ spec.role = "gateway" /\ secret.version # 0
  /\ rotated < Rotations
  /\ saving' = [Quiet EXCEPT !.step = "rotate", !.read = secret]
  /\ rotated' = rotated + 1
  /\ UNCHANGED <<spec, secret, deployment, exposed, observed, pass, kept, failed>>

rotateGatewayHostKey ==
  /\ saving.step = "rotate"
  /\ IF Unmodified(saving.read) THEN Stored(saving.read) ELSE UNCHANGED secret
  /\ saving' = Quiet
  /\ UNCHANGED <<spec, deployment, exposed, observed, pass, kept, rotated, failed>>

(* The call ends in an error, or its process with it.                       *)
SaveFails ==
  /\ saving.step # "idle"
  /\ saving' = Quiet
  /\ UNCHANGED <<spec, secret, deployment, exposed, observed, pass, kept, rotated, failed>>

(***************************************************************************)
(* ComponentReconciler.                                                    *)
(***************************************************************************)

ReadComponent ==
  /\ pass.step = "idle"
  /\ spec.generation # 0
  /\ pass' = [step |-> "get", generation |-> spec.generation, managed |-> spec.managed,
              read |-> NoSecret]
  /\ UNCHANGED <<spec, secret, deployment, exposed, observed, saving, kept, rotated, failed>>

(* reconcileComponentCredential: a cache's proxy settings follow the spec.  *)
GetCredential ==
  /\ pass.step = "get"
  /\ pass' = [pass EXCEPT !.read = secret, !.step =
       CASE secret.version = 0 -> "create"
         [] secret.version # 0 /\ spec.role = "cache" /\ secret.proxy # pass.generation -> "update"
         [] OTHER -> "workload"]
  /\ UNCHANGED <<spec, secret, deployment, exposed, observed, saving, kept, rotated, failed>>

reconcileComponentCredential ==
  /\ \/ /\ pass.step = "create" /\ Creatable
        /\ Stored([NoSecret EXCEPT !.keys = "manager", !.proxy = pass.generation])
        /\ kept' = IF secret.version = 0 THEN [kept EXCEPT !.keys = "manager"] ELSE kept
        /\ pass' = [pass EXCEPT !.step = "workload", !.read = secret']
     \/ /\ pass.step = "update" /\ Unmodified(pass.read)
        /\ Stored([pass.read EXCEPT !.proxy = pass.generation])
        /\ pass' = [pass EXCEPT !.step = "workload", !.read = secret']
        /\ UNCHANGED kept
     \/ /\ \/ pass.step = "create" /\ ~Creatable
           \/ pass.step = "update" /\ ~Unmodified(pass.read)
        /\ pass' = Waiting
        /\ UNCHANGED <<secret, kept>>
  /\ UNCHANGED <<spec, deployment, exposed, observed, saving, rotated, failed>>

CredentialIgnored(version) == deployment.credential

(* The Pod template names the version of the Secret it was made for.        *)
Credential(version) == version

(* Certificates, Service, volume, then the Deployment.                      *)
reconcileDeployment ==
  /\ pass.step = "workload"
  /\ deployment' = [generation |-> pass.generation, credential |-> Credential(pass.read.version)]
  /\ pass' = [pass EXCEPT !.step = "exposure"]
  /\ UNCHANGED <<spec, secret, exposed, observed, saving, kept, rotated, failed>>

(* An exposure managed elsewhere has the component's own objects deleted.   *)
reconcileGatewayExposure ==
  /\ pass.step = "exposure"
  /\ exposed' = IF pass.managed THEN pass.generation ELSE 0
  /\ pass' = [pass EXCEPT !.step = "status"]
  /\ UNCHANGED <<spec, secret, deployment, observed, saving, kept, rotated, failed>>

(* The status of a component saved meanwhile is not written.                *)
WriteStatus ==
  /\ pass.step = "status"
  /\ observed' = IF spec.generation = pass.generation THEN pass.generation ELSE observed
  /\ pass' = Waiting
  /\ UNCHANGED <<spec, secret, deployment, exposed, saving, kept, rotated, failed>>

(* A failed call, or a new leader, starts the pass again.                   *)
PassFails ==
  /\ pass.step # "idle"
  /\ failed < CallFailures /\ failed' = failed + 1
  /\ pass' = Waiting
  /\ UNCHANGED <<spec, secret, deployment, exposed, observed, saving, kept, rotated>>

Pass ==
  \/ ReadComponent \/ GetCredential \/ reconcileComponentCredential
  \/ reconcileDeployment \/ reconcileGatewayExposure \/ WriteStatus

ComponentNext ==
  \/ SaveComponent \/ GetCacheSecret \/ saveCacheCredentials \/ GetHostKey
  \/ rotateGatewayHostKey \/ SaveFails
  \/ Pass \/ PassFails

ComponentFairness == WF_componentVars(Pass)

ComponentSpec == ComponentInit /\ [][ComponentNext]_componentVars /\ ComponentFairness

(***************************************************************************)
(* Properties.                                                             *)
(***************************************************************************)

(* The keys generated for a component are generated once, and the S3 keys   *)
(* its Secret holds are the last ones a save was acknowledged for, whoever  *)
(* creates the Secret first and whichever of the administrator's saves and  *)
(* the reconciler's passes overlap (saveCacheCredentials,                   *)
(* reconcileComponentCredential).                                           *)
KeysKept == secret.keys = kept.keys /\ secret.s3 = kept.s3

(* Once the administrator stops, the workload, the exposure and the status  *)
(* are those of the last generation and the workload has the last version   *)
(* of the Secret, though passes begun on earlier generations, or before a   *)
(* key was rotated, still write in between.                                 *)
ComponentConverges ==
  <>[](spec.generation # 0 =>
        /\ deployment = [generation |-> spec.generation, credential |-> secret.version]
        /\ exposed = IF spec.managed THEN spec.generation ELSE 0
        /\ observed = spec.generation
        /\ spec.role = "cache" => secret.proxy = spec.generation)
=============================================================================
