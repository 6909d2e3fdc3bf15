----------------------------- MODULE Codespace ------------------------------
(***************************************************************************)
(* The life of one Codespace in the cluster: its custom resource, the Pods *)
(* and the volume (PVC) that belong to it, and the threads of the Manager  *)
(* that work on them concurrently:                                         *)
(*                                                                         *)
(*   coord  SiteCoordinator.runSite: accepts Gitea's operations, binds the *)
(*          runtime identity, applies inventory decisions;                 *)
(*   rec    RuntimeReconciler.Reconcile: volume, Pod, stop, delete;        *)
(*   rep    reportSite/Flush: finalizes the operation at Gitea;            *)
(*   the control handler of the Agent and the administrator's requests.    *)
(*                                                                         *)
(* A thread reads the resource, then makes API calls one by one; others    *)
(* run between any two.  A status update re-reads the resource and checks  *)
(* what it depends on (retryStatusUpdate), so each is one step.  Any call  *)
(* may fail, which ends the thread's pass; the leader may be replaced.     *)
(* Gitea, the Kubernetes API and the kubelet are external.                 *)
(***************************************************************************)
EXTENDS Naturals

CONSTANTS
    LastVersion,   \* bound: operation versions are 1 .. LastVersion
    LastPod,       \* bound: Pod names are 1 .. LastPod
    MaxFaults,     \* bound: disturbances, from failed calls to deleted Pods
    Interference   \* whether the Pod, the volume or the resource may vanish

ASSUME CodespaceConstants ==
    /\ LastVersion \in Nat /\ LastPod \in Nat /\ MaxFaults \in Nat
    /\ Interference \in BOOLEAN

Versions == 1 .. LastVersion
PodNames == 1 .. LastPod
Startup  == {"create", "resume"}
Aborts   == {"abort_create", "abort_resume"}
Types    == Startup \cup Aborts \cup {"stop", "delete"}
Decisions == {"cleanup_local", "stop_local", "clear_operation"}

VARIABLES
    op,        \* Gitea: the current operation, version 0 before the first
    final,     \* Gitea: the status it accepted for each version
    gbound,    \* Gitea: the runtime identity is bound
    gone,      \* Gitea: the codespace no longer exists
    cs,        \* the Codespace resource; recovery "none" is no RecoveryAction
    pods,      \* the Pods, by name
    names,     \* number of Pod names handed out
    alive,     \* the Pods whose processes may be running
    volume,    \* the PVC: "none", "live" or "deleting"
    volumes,   \* number of PVCs ever created; the UID of the latest
    foreign,   \* a Pod of someone else refers to the PVC
    auth,      \* ExecutionAuthority: the version with a lease, or 0
    coord,     \* thread: its place, Gitea's operation, what it read
    rec,       \* thread: its place and what it read
    rep,       \* thread: its place and what it read
    said,      \* the Agent's own result for each version
    stopFor,   \* history: the version recovery "stop" was ordered for
    faults     \* disturbances so far

gitea   == <<op, final, gbound, gone>>
kubelet == <<pods, names, alive>>
storage == <<volume, volumes, foreign>>
vars    == <<gitea, cs, kubelet, storage, auth, coord, rec, rep, said, stopFor,
             faults>>

NoOp  == [version |-> 0, type |-> "create"]
NoCS  == [exists |-> FALSE, version |-> 0, type |-> "create", bound |-> FALSE,
          settled |-> 0, result |-> 0, ok |-> FALSE, recovery |-> "none", pod |-> 0,
          uid |-> 0, vol |-> 0, stopped |-> NoOp, target |-> FALSE,
          deleting |-> FALSE]
NoPod == [state |-> "none", deleting |-> FALSE]
Idle  == [pc |-> "idle", cs |-> NoCS]
IdleCoord == [pc |-> "idle", cs |-> NoCS, op |-> NoOp, new |-> FALSE]

Init ==
    /\ op = NoOp /\ final = [v \in Versions |-> "none"]
    /\ gbound = FALSE /\ gone = FALSE
    /\ cs = NoCS
    /\ pods = [n \in PodNames |-> NoPod] /\ names = 0 /\ alive = {}
    /\ volume = "none" /\ volumes = 0 /\ foreign = FALSE
    /\ auth = 0 /\ coord = IdleCoord /\ rec = Idle /\ rep = Idle
    /\ said = [v \in Versions |-> "none"] /\ stopFor = 0 /\ faults = 0

SameOperation(c) == cs.exists /\ cs.version = c.version /\ cs.type = c.type

(***************************************************************************)
(* Gitea (external): one operation at a time.  The next one is issued once *)
(* the last is final; a start that is not final may be aborted, which ends *)
(* it at once if no runtime was ever bound.                                *)
(***************************************************************************)
Final   == op.version > 0 => final[op.version] # "none"
Running == op.version > 0 /\ op.type \in Startup /\ final[op.version] = "done"

Issue(t) ==
    /\ op.version < LastVersion /\ Final /\ ~gone
    /\ t \in IF op.version = 0 THEN {"create"}
             ELSE IF Running THEN {"stop", "delete"} ELSE {"resume", "delete"}
    /\ op' = [version |-> op.version + 1, type |-> t]
    /\ UNCHANGED <<final, gbound, gone, cs, kubelet, storage, auth, coord, rec,
                   rep, said, stopFor, faults>>

Abort ==
    /\ ~Final /\ op.type \in Startup
    /\ IF gbound
       THEN /\ op' = [op EXCEPT !.type = IF @ = "create" THEN "abort_create"
                                         ELSE "abort_resume"]
            /\ UNCHANGED <<final, gone>>
       ELSE /\ final' = [final EXCEPT ![op.version] = "failed"]
            /\ gone' = TRUE /\ UNCHANGED op
    /\ UNCHANGED <<gbound, cs, kubelet, storage, auth, coord, rec, rep, said,
                   stopFor, faults>>

\* FinalizeOperation.  The first status of the current version is accepted;
\* repeating it is acknowledged, contradicting it is refused, and what was
\* aborted cannot succeed.
Accepts(v, s) ==
    /\ final[v] \in {"none", s}
    /\ (v = op.version /\ op.type \in Aborts) => s = "failed"

Finalize(v, s) ==
    /\ Accepts(v, s)
    /\ IF v = op.version /\ final[v] = "none"
       THEN /\ final' = [final EXCEPT ![v] = s]
            /\ gone' = (gone \/ (s = "failed" /\ op.type \in {"create", "abort_create"})
                             \/ (s = "done" /\ op.type = "delete"))
       ELSE UNCHANGED <<final, gone>>
    /\ UNCHANGED <<op, gbound>>

(***************************************************************************)
(* runSite: fetch, renew leases, accept.                                   *)
(***************************************************************************)
\* ObservedOperations of a request
ObservedByRecord(c) == c.bound /\ c.recovery = "none" /\ c.settled < c.version
Observed(c) ==
    /\ c.bound /\ c.recovery = "none" /\ c.settled < c.version
    /\ auth = c.version \/ c.type \in Aborts

\* Gitea renews what the Manager observes and offers anything else.  (A renewal
\* granted on rows that changed meanwhile is the subject of ExecutionLease.)
FetchOperations ==
    /\ coord.pc = "idle" /\ ~Final /\ ~gone
    /\ IF Observed(cs) /\ cs.version = op.version /\ cs.type = op.type
       THEN UNCHANGED coord
       ELSE coord' = [IdleCoord EXCEPT !.pc = "accept", !.op = op]
    /\ UNCHANGED <<gitea, cs, kubelet, storage, auth, rec, rep, said, stopFor,
                   faults>>

\* Operations.Accept of a create that has no resource yet.
AcceptCreate ==
    /\ coord.pc = "accept" /\ ~cs.exists /\ coord.op.type = "create" /\ ~gbound
    /\ cs' = [NoCS EXCEPT !.exists = TRUE, !.version = coord.op.version,
                          !.type = "create"]
    /\ coord' = [coord EXCEPT !.pc = "bind", !.cs = cs', !.new = TRUE]
    /\ UNCHANGED <<gitea, kubelet, storage, auth, rec, rep, said, stopFor, faults>>

Conflicts == cs.deleting \/ cs.recovery = "delete" \/ coord.op.version < cs.version

\* Operations.Accept: the update carries the resource version that was read,
\* so reading and writing are one step.
Accept ==
    /\ coord.pc = "accept" /\ cs.exists /\ ~Conflicts
    /\ cs' = [cs EXCEPT !.version = coord.op.version, !.type = coord.op.type]
    /\ auth' = IF cs' = cs THEN auth ELSE 0
    /\ coord' = [coord EXCEPT !.pc = IF cs.bound THEN "clear" ELSE "bind",
                              !.cs = cs', !.new = coord.op.version > cs.version]
    /\ UNCHANGED <<gitea, kubelet, storage, rec, rep, said, stopFor, faults>>

\* errOperationRejected: the resource is missing, or is being deleted.
Reject ==
    /\ coord.pc = "accept"
    /\ IF cs.exists THEN Conflicts ELSE coord.op.type # "create" \/ gbound
    /\ coord' = [coord EXCEPT !.pc = "reject"]
    /\ UNCHANGED <<gitea, cs, kubelet, storage, auth, rec, rep, said, stopFor,
                   faults>>

\* bind: BindRuntimeIdentity, then the status.  Gitea confirms the binding of
\* its current create; what it refuses is an errOperationRejected.
Confirms(c) == c.type = "create" /\ c.version = op.version /\ ~Final /\ ~gone

Bind ==
    /\ coord.pc = "bind"
    /\ IF ~Confirms(coord.cs)
       THEN coord' = [coord EXCEPT !.pc = "reject"] /\ UNCHANGED <<cs, gbound>>
       ELSE /\ gbound' = TRUE
            /\ IF SameOperation(coord.cs) /\ ~cs.deleting
               THEN /\ cs' = [cs EXCEPT !.bound = TRUE]
                    /\ coord' = [coord EXCEPT !.pc = "clear", !.cs = cs']
               ELSE UNCHANGED cs /\ coord' = IdleCoord
    /\ UNCHANGED <<op, final, gone, kubelet, storage, auth, rec, rep, said,
                   stopFor, faults>>

\* runSite binds the rows that are not, before it fetches.
BindRow ==
    /\ coord.pc = "idle" /\ cs.exists /\ ~cs.bound /\ cs.recovery = "none"
    /\ IF Confirms(cs) /\ ~cs.deleting
       THEN /\ cs' = [cs EXCEPT !.bound = TRUE] /\ gbound' = TRUE
            /\ UNCHANGED auth
       ELSE cs' = [cs EXCEPT !.recovery = "delete"] /\ auth' = 0 /\ UNCHANGED gbound
    /\ UNCHANGED <<op, final, gone, kubelet, storage, coord, rec, rep, said,
                   stopFor, faults>>

\* A newer operation supersedes a recovery stop.
Supersedes == coord.new

ClearRecovery ==
    /\ coord.pc = "clear"
    /\ IF coord.cs.recovery = "stop" /\ Supersedes
       THEN IF SameOperation(coord.cs)
            THEN /\ cs' = [cs EXCEPT !.recovery = IF @ = "stop" THEN "none" ELSE @]
                 /\ coord' = [coord EXCEPT !.pc = "grant", !.cs = cs']
            ELSE UNCHANGED cs /\ coord' = IdleCoord
       ELSE UNCHANGED cs /\ coord' = [coord EXCEPT !.pc = "grant"]
    /\ UNCHANGED <<gitea, kubelet, storage, auth, rec, rep, said, stopFor, faults>>

\* (How long a lease lasts is the subject of ExecutionLease.)
GrantLease ==
    /\ coord.pc = "grant"
    /\ auth' = IF coord.cs.type \in Aborts \/ coord.cs.recovery # "none" THEN 0
               ELSE IF coord.cs.settled < coord.cs.version THEN coord.cs.version
               ELSE auth
    /\ coord' = IdleCoord
    /\ UNCHANGED <<gitea, cs, kubelet, storage, rec, rep, said, stopFor, faults>>

\* finalizeRejectedOperation: only a start is finalized.
FinalizeRejected ==
    /\ coord.pc = "reject"
    /\ auth' = IF cs.exists /\ coord.op.type \in Startup THEN 0 ELSE auth
    /\ IF coord.op.type \in Startup /\ Accepts(coord.op.version, "failed")
       THEN /\ Finalize(coord.op.version, "failed")
            /\ coord' = IF cs.exists /\ cs.version = coord.op.version
                        THEN [coord EXCEPT !.pc = "rejected"] ELSE IdleCoord
       ELSE UNCHANGED gitea /\ coord' = IdleCoord
    /\ UNCHANGED <<cs, kubelet, storage, rec, rep, said, stopFor, faults>>

SaveRejected ==
    /\ coord.pc = "rejected"
    /\ IF cs.exists /\ cs.version = coord.op.version
       THEN /\ cs' = [cs EXCEPT !.settled = cs.version,
                     !.recovery = IF coord.op.type = "create" THEN "delete" ELSE "stop"]
            /\ stopFor' = IF cs'.recovery = "stop" THEN cs.version ELSE stopFor
       ELSE UNCHANGED <<cs, stopFor>>
    /\ coord' = IdleCoord
    /\ UNCHANGED <<gitea, kubelet, storage, auth, rec, rep, said, faults>>

\* inventory: Gitea's decision on the reported rows (external) ...
Decides(action) ==
    CASE action = "cleanup_local" -> gone
      [] action = "stop_local" ->
            ~gone /\ Final /\ ~Running /\ cs.version = op.version
      [] action = "clear_operation" ->
            /\ ~gone /\ cs.settled < cs.version /\ cs.version = op.version /\ Final

ReportInventory(action) ==
    /\ coord.pc = "idle" /\ cs.exists /\ cs.bound /\ Decides(action)
    /\ coord' = [IdleCoord EXCEPT !.pc = action]
    /\ UNCHANGED <<gitea, cs, kubelet, storage, auth, rec, rep, said, stopFor,
                   faults>>

\* ... applied to the resource as it is when the answer arrives.
ApplyInventory ==
    /\ coord.pc \in Decisions
    /\ IF ~cs.exists THEN UNCHANGED <<cs, stopFor, auth>>
       ELSE /\ cs' = CASE coord.pc = "cleanup_local" -> [cs EXCEPT !.recovery = "delete"]
                       [] coord.pc = "stop_local" -> [cs EXCEPT !.recovery = "stop"]
                       [] OTHER -> [cs EXCEPT !.settled = cs.version]
            /\ stopFor' = IF coord.pc = "stop_local" THEN cs.version ELSE stopFor
            /\ auth' = 0
    /\ coord' = IdleCoord
    /\ UNCHANGED <<gitea, kubelet, storage, rec, rep, said, faults>>

(***************************************************************************)
(* RuntimeReconciler.Reconcile.  It reads the resource and takes one of    *)
(* three ways: remove, stop, or provide the volume and the Pod.            *)
(***************************************************************************)
DeletedIsAuthorized(c) == c.type = "delete" \/ c.recovery = "delete" \/ c.deleting
OrderedOnly(c) == c.type = "delete"
RemoveAuthorized(c) == c.type = "delete" \/ c.recovery = "delete"

\* runtimeStopRequested
StopRequested(c) ==
    \/ c.recovery = "stop"
    \/ c.type \in Aborts \cup {"stop"}
    \/ c.result = c.version /\ ~c.ok

Way(c) ==
    IF ~c.bound /\ c.recovery # "delete" THEN "idle"
    ELSE IF RemoveAuthorized(c) THEN "remove"
    ELSE IF c.deleting THEN "idle"
    ELSE IF StopRequested(c) THEN "stop"
    ELSE IF c.settled < c.version /\ auth # c.version THEN "idle"
    ELSE "volume"

Reconcile ==
    /\ rec.pc = "idle" /\ cs.exists /\ Way(cs) # "idle"
    /\ rec' = [pc |-> Way(cs), cs |-> cs]
    /\ auth' = IF Way(cs) \in {"stop", "remove"} THEN 0 ELSE auth
    /\ UNCHANGED <<gitea, cs, kubelet, storage, coord, rep, said, stopFor, faults>>

\* ensureVolume: find or create the PVC, but never a second one ...
MayCreateVolume(c) == c.vol = 0

EnsureVolume ==
    /\ rec.pc = "volume"
    /\ \/ /\ volume = "none" /\ MayCreateVolume(rec.cs)
          /\ volume' = "live" /\ volumes' = volumes + 1 /\ UNCHANGED foreign
          /\ rec' = [rec EXCEPT !.pc = "record_volume"]
       \/ /\ volume = "none" /\ ~MayCreateVolume(rec.cs)
          /\ rec' = Idle /\ UNCHANGED storage
       \/ /\ volume # "none"
          /\ rec' = IF volume = "live" /\ rec.cs.vol \in {0, volumes}
                    THEN [rec EXCEPT !.pc = "record_volume"] ELSE Idle
          /\ UNCHANGED storage
    /\ UNCHANGED <<gitea, cs, kubelet, auth, coord, rep, said, stopFor, faults>>

\* ... and record it.
RecordVolume ==
    /\ rec.pc = "record_volume"
    /\ IF SameOperation(rec.cs) /\ cs.vol \in {0, volumes}
       THEN /\ cs' = [cs EXCEPT !.vol = volumes]
            /\ rec' = [pc |-> IF cs.pod = 0 THEN "name" ELSE "pod", cs |-> cs']
       ELSE UNCHANGED cs /\ rec' = Idle
    /\ UNCHANGED <<gitea, kubelet, storage, auth, coord, rep, said, stopFor, faults>>

\* The name of the Pod is saved before the Pod is created.
NamePod ==
    /\ rec.pc = "name" /\ names < LastPod
    /\ IF SameOperation(rec.cs)
       THEN /\ names' = names + 1
            /\ cs' = [cs EXCEPT !.pod = names', !.stopped = NoOp]
       ELSE UNCHANGED <<names, cs>>
    /\ rec' = Idle
    /\ UNCHANGED <<gitea, pods, alive, storage, auth, coord, rep, said, stopFor,
                   faults>>

\* A Pod that was recorded is never created again.
MayCreatePod(c) == c.uid = 0

CreatePod ==
    /\ rec.pc = "pod" /\ pods[rec.cs.pod].state = "none" /\ MayCreatePod(rec.cs)
    /\ pods' = [pods EXCEPT ![rec.cs.pod] = [state |-> "pending", deleting |-> FALSE]]
    /\ rec' = [rec EXCEPT !.pc = "record_pod"]
    /\ UNCHANGED <<gitea, cs, names, alive, storage, auth, coord, rep, said,
                   stopFor, faults>>

\* runtimePodStatusIsCurrent
PodIsCurrent(c) ==
    SameOperation(c) /\ cs.pod = c.pod /\ cs.uid \in {0, c.pod}

\* What both ends of a Pod record: an unfinished operation failed, a finished
\* one is stopped.
Ended(c) ==
    IF c.settled < c.version
    THEN [c EXCEPT !.target = FALSE, !.uid = c.pod, !.result = c.version, !.ok = FALSE]
    ELSE [c EXCEPT !.target = FALSE, !.uid = c.pod, !.recovery = "stop"]

\* The recorded Pod disappeared, or it exited.
PodLost ==
    /\ rec.pc = "pod"
    /\ LET pod == pods[rec.cs.pod] IN
         \/ pod.state = "none" /\ ~MayCreatePod(rec.cs)
         \/ pod.state = "ended" /\ ~pod.deleting
    /\ auth' = IF auth = rec.cs.version THEN 0 ELSE auth
    /\ IF PodIsCurrent(rec.cs)
       THEN /\ cs' = Ended(cs)
            /\ stopFor' = IF cs'.recovery = "stop" THEN cs.version ELSE stopFor
       ELSE UNCHANGED <<cs, stopFor>>
    /\ rec' = Idle
    /\ UNCHANGED <<gitea, kubelet, storage, coord, rep, said, faults>>

\* The Pod is there: record its UID, unless it is being deleted.
FindPod ==
    /\ rec.pc = "pod" /\ pods[rec.cs.pod].state # "none"
    /\ pods[rec.cs.pod].state = "ended" => pods[rec.cs.pod].deleting
    /\ rec' = IF pods[rec.cs.pod].deleting THEN Idle
              ELSE [rec EXCEPT !.pc = "record_pod"]
    /\ UNCHANGED <<gitea, cs, kubelet, storage, auth, coord, rep, said, stopFor,
                   faults>>

RecordPod ==
    /\ rec.pc = "record_pod"
    /\ cs' = IF PodIsCurrent(rec.cs) THEN [cs EXCEPT !.uid = rec.cs.pod] ELSE cs
    /\ rec' = Idle
    /\ UNCHANGED <<gitea, kubelet, storage, auth, coord, rep, said, stopFor, faults>>

\* condition: the API refuses the volume, the Pod or its identity (Forbidden,
\* Invalid), which fails an operation that has no result yet.
PreparationRefused ==
    /\ rec.pc \in {"volume", "pod", "record_pod"} /\ faults < MaxFaults
    /\ cs' = IF SameOperation(rec.cs) /\ cs.settled < cs.version /\ cs.result # cs.version
             THEN [cs EXCEPT !.result = cs.version, !.ok = FALSE] ELSE cs
    /\ rec' = Idle /\ faults' = faults + 1
    /\ UNCHANGED <<gitea, kubelet, storage, auth, coord, rep, said, stopFor>>

(***************************************************************************)
(* stopOrDelete: one pass per step of the way down.                        *)
(***************************************************************************)
Existing == {n \in PodNames : pods[n].state # "none"}
Stopping == rec.pc \in {"stop", "remove"}
Own(n)   == n = rec.cs.pod /\ rec.cs.uid \in {0, n}

\* Pods are listed by the volume they use, not only by their owner.
SecondWriter == foreign /\ rec.cs.vol # 0
NoPodLeft    == Existing = {} /\ ~SecondWriter

WriterConflict ==
    /\ Stopping /\ SecondWriter
    /\ rec' = Idle
    /\ UNCHANGED <<gitea, cs, kubelet, storage, auth, coord, rep, said, stopFor,
                   faults>>

DeletePod(n) ==
    /\ Stopping /\ n \in Existing /\ Own(n) /\ ~pods[n].deleting
    /\ pods' = [pods EXCEPT ![n].deleting = TRUE]
    /\ rec' = Idle
    /\ UNCHANGED <<gitea, cs, names, alive, storage, auth, coord, rep, said,
                   stopFor, faults>>

\* A deleted Pod has stopped if it never had a node, or the kubelet says so.
DeletionSuffices(pod) == TRUE
WriterStopped(pod) == pod.state \in {"pending", "ended"}

ConfirmStopped(n) ==
    /\ Stopping /\ n \in Existing /\ Own(n) /\ pods[n].deleting
    /\ rec' = IF WriterStopped(pods[n]) /\ cs.exists /\ cs.uid \in {0, n}
              THEN [rec EXCEPT !.pc = "release"] ELSE Idle
    /\ UNCHANGED <<gitea, cs, kubelet, storage, auth, coord, rep, said, stopFor,
                   faults>>

\* releaseWriterFinalizer; the API server then drops the Pod.
ReleasePod ==
    /\ rec.pc = "release"
    /\ pods' = [pods EXCEPT ![rec.cs.pod] = NoPod]
    /\ rec' = Idle
    /\ UNCHANGED <<gitea, cs, names, alive, storage, auth, coord, rep, said,
                   stopFor, faults>>

\* No Pod is left.  To remove, the recorded PVC goes first ...
DeleteVolume ==
    /\ rec.pc = "remove" /\ NoPodLeft /\ rec.cs.vol # 0 /\ volume # "none"
    /\ volume' = IF rec.cs.vol = volumes THEN "deleting" ELSE volume
    /\ rec' = Idle
    /\ UNCHANGED <<gitea, cs, kubelet, volumes, foreign, auth, coord, rep, said,
                   stopFor, faults>>

VolumeRemoved == rec.cs.vol = 0 \/ volume = "none"

\* ... then the resource: its deletion, and on a later pass its finalizer.
RemoveResource ==
    /\ rec.pc = "remove" /\ NoPodLeft /\ VolumeRemoved
    /\ rec.cs.deleting \/ rec.cs.recovery = "delete"
    /\ cs' = IF ~cs.exists THEN cs
             ELSE IF ~rec.cs.deleting THEN [cs EXCEPT !.deleting = TRUE]
             ELSE NoCS
    /\ rec' = Idle
    /\ UNCHANGED <<gitea, kubelet, storage, auth, coord, rep, said, stopFor, faults>>

\* Otherwise the runtime is stopped, or its delete may be answered.
NothingLeft ==
    /\ NoPodLeft
    /\ \/ rec.pc = "stop"
       \/ rec.pc = "remove" /\ VolumeRemoved /\ ~rec.cs.deleting /\ rec.cs.recovery # "delete"
    /\ rec' = [rec EXCEPT !.pc = "finish"]
    /\ UNCHANGED <<gitea, cs, kubelet, storage, auth, coord, rep, said, stopFor,
                   faults>>

Cleared(c) ==
    [c EXCEPT !.target = FALSE, !.pod = 0, !.uid = 0,
              !.stopped = [version |-> c.version, type |-> c.type]]

FinishStop ==
    /\ rec.pc = "finish"
    /\ IF SameOperation(rec.cs) /\ rec.cs.uid \in {0, cs.uid}
       THEN LET done == cs.type \in {"stop", "delete"} /\ cs.result # cs.version
            IN  cs' = [Cleared(cs) EXCEPT !.result = IF done THEN cs.version ELSE @,
                                          !.ok = done \/ @]
       ELSE UNCHANGED cs
    /\ rec' = Idle
    /\ UNCHANGED <<gitea, kubelet, storage, auth, coord, rep, said, stopFor, faults>>

(***************************************************************************)
(* Operations.Flush, in reportSite.                                        *)
(***************************************************************************)
AssumedStopped(c) == TRUE
IsStopped(c) == c.stopped = [version |-> c.version, type |-> c.type] /\ c.pod = 0
FailedStartup(c) == c.type \in Startup /\ c.result = c.version /\ ~c.ok
NeedsStop(c) == c.type \notin Startup \/ FailedStartup(c)
NeedsResult(c) == c.result # c.version \/ (c.type \in Aborts /\ c.ok)

FlushRead ==
    /\ rep.pc = "idle" /\ cs.bound /\ ~cs.deleting /\ cs.recovery = "none"
    /\ NeedsStop(cs) => IsStopped(cs)
    /\ \/ /\ NeedsStop(cs) /\ NeedsResult(cs)
          /\ rep' = [pc |-> "result", cs |-> cs]
       \/ /\ ~(NeedsStop(cs) /\ NeedsResult(cs))
          /\ cs.result = cs.version /\ cs.settled < cs.version
          /\ (cs.type \in Startup /\ cs.ok) => cs.target
          /\ rep' = [pc |-> "final", cs |-> cs]
    /\ UNCHANGED <<gitea, cs, kubelet, storage, auth, coord, rec, said, stopFor,
                   faults>>

\* The stopped runtime of an abort failed, of a stop or a delete succeeded.
FlushResult ==
    /\ rep.pc = "result"
    /\ IF SameOperation(rep.cs)
       THEN /\ cs' = IF NeedsResult(cs)
                     THEN [cs EXCEPT !.result = cs.version,
                                     !.ok = cs.type \in {"stop", "delete"}]
                     ELSE cs
            /\ rep' = IF cs'.settled < cs'.version
                      THEN [pc |-> "final", cs |-> cs'] ELSE Idle
       ELSE UNCHANGED cs /\ rep' = Idle
    /\ UNCHANGED <<gitea, kubelet, storage, auth, coord, rec, said, stopFor, faults>>

Status(c) == IF c.ok THEN "done" ELSE "failed"

\* FinalizeOperation is called ...
FlushFinal ==
    /\ rep.pc = "final" /\ Finalize(rep.cs.version, Status(rep.cs))
    /\ rep' = [rep EXCEPT !.pc = "save"]
    /\ UNCHANGED <<cs, kubelet, storage, auth, coord, rec, said, stopFor, faults>>

GiveUp     == rep' = Idle

\* ... and refused: Gitea already has another status.  (That the request is
\* lost is FinalFails below.)
FlushRefused ==
    /\ rep.pc = "final" /\ ~Accepts(rep.cs.version, Status(rep.cs))
    /\ GiveUp
    /\ UNCHANGED <<gitea, cs, kubelet, storage, auth, coord, rec, said, stopFor,
                   faults>>

SavesWhatWasTold(c) ==
    SameOperation(c) /\ cs.result = c.result /\ cs.ok = c.ok

\* ... and acknowledged: the acknowledgement is saved.  Gitea may say that it
\* no longer knows the resource.
Settled(c, absent) ==
    IF absent THEN [c EXCEPT !.settled = rep.cs.version, !.recovery = "stop",
                             !.target = FALSE]
    ELSE IF c.type = "delete" \/ (~c.ok /\ c.type \in {"create", "abort_create"})
    THEN [c EXCEPT !.settled = rep.cs.version, !.recovery = "delete"]
    ELSE [c EXCEPT !.settled = rep.cs.version, !.recovery = IF c.ok THEN @ ELSE "stop"]

FlushSave ==
    /\ rep.pc = "save"
    /\ IF SavesWhatWasTold(rep.cs)
       THEN /\ \E absent \in {FALSE, gone} : cs' = Settled(cs, absent)
            /\ stopFor' = IF cs'.recovery = "stop" THEN cs.version ELSE stopFor
            /\ auth' = 0
       ELSE UNCHANGED <<cs, stopFor, auth>>
    /\ rep' = Idle
    /\ UNCHANGED <<gitea, kubelet, storage, coord, rec, said, faults>>

(***************************************************************************)
(* The Agent in the recorded Pod.  It executes under the lease, and the    *)
(* Manager saves the report of the current operation (applyAgentReport).   *)
(***************************************************************************)
AgentUp == cs.exists /\ cs.bound /\ cs.uid # 0 /\ pods[cs.uid].state = "scheduled"

AgentExecutes(s) ==
    /\ AgentUp /\ cs.type \in Startup /\ cs.recovery = "none" /\ cs.result # cs.version
    /\ auth = cs.version /\ said[cs.version] = "none"
    /\ said' = [said EXCEPT ![cs.version] = s]
    /\ UNCHANGED <<gitea, cs, kubelet, storage, auth, coord, rec, rep, stopFor,
                   faults>>

KeepsResult(v) == cs.result = v => cs.ok = (said[v] = "done")

AgentReports ==
    /\ AgentUp /\ cs.type \in Startup /\ cs.recovery = "none"
    /\ said[cs.version] # "none" /\ KeepsResult(cs.version)
    /\ cs' = [cs EXCEPT !.result = cs.version, !.ok = said[cs.version] = "done",
                        !.target = IF said[cs.version] = "done" THEN TRUE ELSE @]
    /\ UNCHANGED <<gitea, kubelet, storage, auth, coord, rec, rep, said, stopFor,
                   faults>>

(***************************************************************************)
(* Kubernetes (external).                                                  *)
(***************************************************************************)
Schedule(n) ==
    /\ pods[n].state = "pending" /\ ~pods[n].deleting
    /\ pods' = [pods EXCEPT ![n].state = "scheduled"]
    /\ alive' = alive \cup {n}
    /\ UNCHANGED <<gitea, cs, names, storage, auth, coord, rec, rep, said, stopFor,
                   faults>>

\* The kubelet reports that all containers of a deleted Pod terminated.
Terminate(n) ==
    /\ pods[n].state = "scheduled" /\ pods[n].deleting
    /\ pods' = [pods EXCEPT ![n].state = "ended"]
    /\ alive' = alive \ {n}
    /\ UNCHANGED <<gitea, cs, names, storage, auth, coord, rec, rep, said, stopFor,
                   faults>>

VolumeGone ==
    /\ volume = "deleting" /\ Existing = {} /\ ~foreign
    /\ volume' = "none"
    /\ UNCHANGED <<gitea, cs, kubelet, volumes, foreign, auth, coord, rec, rep, said,
                   stopFor, faults>>

(***************************************************************************)
(* Disturbances, at most MaxFaults of them.                                *)
(***************************************************************************)
Disturbed == faults < MaxFaults /\ faults' = faults + 1
Interfered == Interference /\ Disturbed

\* A call fails: the pass of the thread ends.  (The reply of FinalizeOperation
\* is lost: RepFails before "save".)
CoordFails ==
    /\ Disturbed /\ coord.pc # "idle" /\ coord' = IdleCoord
    /\ UNCHANGED <<gitea, cs, kubelet, storage, auth, rec, rep, said, stopFor>>

RecFails ==
    /\ Disturbed /\ rec.pc # "idle" /\ rec' = Idle
    /\ UNCHANGED <<gitea, cs, kubelet, storage, auth, coord, rep, said, stopFor>>

FinalFails ==
    /\ Disturbed /\ rep.pc = "final" /\ GiveUp
    /\ UNCHANGED <<gitea, cs, kubelet, storage, auth, coord, rec, said, stopFor>>

RepFails ==
    /\ Disturbed /\ rep.pc \in {"result", "save"} /\ rep' = Idle
    /\ UNCHANGED <<gitea, cs, kubelet, storage, auth, coord, rec, said, stopFor>>

\* Another Manager becomes leader; it has no leases.
NewLeader ==
    /\ Disturbed
    /\ coord' = IdleCoord /\ rec' = Idle /\ rep' = Idle /\ auth' = 0
    /\ UNCHANGED <<gitea, cs, kubelet, storage, said, stopFor>>

LeaseLapses ==
    /\ Disturbed /\ auth # 0 /\ auth' = 0
    /\ UNCHANGED <<gitea, cs, kubelet, storage, coord, rec, rep, said, stopFor>>

\* The processes of a Pod exit by themselves.
PodExits(n) ==
    /\ Disturbed /\ pods[n].state = "scheduled" /\ ~pods[n].deleting
    /\ pods' = [pods EXCEPT ![n].state = "ended"] /\ alive' = alive \ {n}
    /\ UNCHANGED <<gitea, cs, names, storage, auth, coord, rec, rep, said, stopFor>>

\* Someone else deletes the Pod: the finalizer holds it.
PodEvicted(n) ==
    /\ Disturbed /\ n \in Existing /\ ~pods[n].deleting
    /\ pods' = [pods EXCEPT ![n].deleting = TRUE]
    /\ UNCHANGED <<gitea, cs, names, alive, storage, auth, coord, rec, rep, said,
                   stopFor>>

\* The Pod is gone with its node, finalizer or not.
PodVanishes(n) ==
    /\ Interfered /\ n \in Existing
    /\ pods' = [pods EXCEPT ![n] = NoPod] /\ alive' = alive \ {n}
    /\ UNCHANGED <<gitea, cs, names, storage, auth, coord, rec, rep, said, stopFor>>

VolumeLost ==
    /\ Interfered /\ volume = "live" /\ volume' = "none" /\ foreign' = FALSE
    /\ UNCHANGED <<gitea, cs, kubelet, volumes, auth, coord, rec, rep, said, stopFor>>

\* Someone mounts the volume in a Pod of their own, and ends it later.
ForeignPod ==
    /\ Disturbed /\ volume = "live" /\ ~foreign /\ foreign' = TRUE
    /\ UNCHANGED <<gitea, cs, kubelet, volume, volumes, auth, coord, rec, rep,
                   said, stopFor>>

ForeignPodEnds ==
    /\ foreign /\ foreign' = FALSE
    /\ UNCHANGED <<gitea, cs, kubelet, volume, volumes, auth, coord, rec, rep,
                   said, stopFor, faults>>

\* Someone deletes the Codespace resource: its finalizer holds it.
ResourceDeleted ==
    /\ Interfered /\ cs.exists /\ ~cs.deleting
    /\ cs' = [cs EXCEPT !.deleting = TRUE]
    /\ UNCHANGED <<gitea, kubelet, storage, auth, coord, rec, rep, said, stopFor>>

\* AdminServer.stopRuntime
AdminStops ==
    /\ Disturbed /\ cs.exists /\ ~cs.deleting /\ cs.uid # 0
    /\ ~RemoveAuthorized(cs) /\ ~StopRequested(cs)
    /\ IF cs.settled < cs.version /\ cs.type \in Startup
       THEN /\ cs' = [cs EXCEPT !.target = FALSE, !.result = cs.version, !.ok = FALSE]
            /\ UNCHANGED stopFor
       ELSE /\ cs' = [cs EXCEPT !.target = FALSE, !.recovery = "stop"]
            /\ stopFor' = cs.version
    /\ UNCHANGED <<gitea, kubelet, storage, auth, coord, rec, rep, said>>

-----------------------------------------------------------------------------
CoordStep ==
    \/ FetchOperations \/ AcceptCreate \/ Accept \/ Reject \/ Bind
    \/ BindRow \/ ClearRecovery \/ GrantLease \/ FinalizeRejected \/ SaveRejected
    \/ \E action \in Decisions : ReportInventory(action)
    \/ ApplyInventory

RecStep ==
    \/ Reconcile \/ EnsureVolume \/ RecordVolume \/ NamePod \/ CreatePod \/ PodLost
    \/ FindPod \/ RecordPod \/ WriterConflict
    \/ \E n \in PodNames : DeletePod(n) \/ ConfirmStopped(n)
    \/ ReleasePod \/ DeleteVolume \/ RemoveResource \/ NothingLeft \/ FinishStop

RepStep == FlushRead \/ FlushResult \/ FlushFinal \/ FlushRefused \/ FlushSave

AgentStep == AgentReports \/ \E s \in {"done", "failed"} : AgentExecutes(s)

KubeStep == VolumeGone \/ ForeignPodEnds \/ \E n \in PodNames : Schedule(n) \/ Terminate(n)

Disturbance ==
    \/ PreparationRefused \/ CoordFails \/ RecFails \/ RepFails
    \/ FinalFails \/ NewLeader
    \/ LeaseLapses \/ VolumeLost \/ ForeignPod \/ ResourceDeleted \/ AdminStops
    \/ \E n \in PodNames : PodExits(n) \/ PodEvicted(n) \/ PodVanishes(n)

Next ==
    \/ \E t \in Types : Issue(t)
    \/ Abort
    \/ CoordStep \/ RecStep \/ RepStep \/ AgentStep \/ KubeStep \/ Disturbance

Spec == Init /\ [][Next]_vars

\* Every thread goes on, the kubelet and the Agent do their work, and runSite
\* gets to bind and to fetch again and again, whatever else it does.
Fairness ==
    /\ WF_vars(CoordStep) /\ WF_vars(RecStep) /\ WF_vars(RepStep)
    /\ WF_vars(AgentStep) /\ WF_vars(KubeStep)
    /\ SF_vars(FetchOperations) /\ SF_vars(BindRow)
    /\ \A action \in Decisions : SF_vars(ReportInventory(action))

FairSpec == Spec /\ Fairness

-----------------------------------------------------------------------------
\* At no time do the processes of two Pods write to the volume, and every Pod
\* is the one the resource names: a replacement Pod is created only after the
\* kubelet confirmed the end of the previous one (stopOrDelete, Reconcile).
OneWriter ==
    /\ \A m, n \in Existing \cup alive : m = n
    /\ \A n \in Existing \cup alive : cs.exists /\ cs.pod = n

\* Once a Pod was prepared to use the volume, no empty one ever takes its place,
\* whatever is lost or fails in between (ensureVolume); and it is deleted only
\* when no process can write to it and Gitea gave it up: it deleted the
\* codespace, ordered the deletion, or never had it run (stopOrDelete, and who
\* sets RecoveryAction to delete).
DataKept ==
    [][/\ volumes' # volumes => names = 0
       /\ volume = "live" /\ volume' = "deleting" =>
             /\ alive = {} /\ Existing = {} /\ ~foreign
             /\ gone \/ op.type = "delete"]_vars

\* A version counts as settled only once it is final at Gitea (Flush,
\* finalizeRejectedOperation, inventory); and Gitea learns that a start
\* succeeded only from an Agent that said so, and that a runtime is stopped,
\* aborted or failed to start only when none of its processes is left (Flush).
FinalIsTrue ==
    [][/\ cs'.settled > 0 => final'[cs'.settled] # "none"
       /\ final' # final /\ rep.pc = "final" /\ rep'.pc = "save" =>
             IF rep.cs.type \in Startup /\ rep.cs.ok
             THEN said[rep.cs.version] = "done" ELSE alive = {}]_vars

\* The Pod of a start is being deleted, and not by the Manager.
Evicted ==
    /\ op.type \in Startup /\ ~StopRequested(cs)
    /\ \E n \in Existing : pods[n].deleting

\* Gitea gets an answer to every operation (Accept to Flush, in all threads).  If
\* someone else deletes the Pod of a start, Reconcile waits behind its finalizer,
\* and the answer comes once Gitea aborts the start.  With several versions this
\* needs calls that do not fail: see StopSuperseded.
OperationAnswered ==
    \A v \in Versions : op.version = v ~> (final[v] # "none" \/ Evicted)

\* Nothing stays behind of a codespace Gitea gave up (inventory, Flush,
\* stopOrDelete) but, possibly, its volume: see NoVolumeLeft.
CleanedUp == gone ~> ~cs.exists /\ Existing = {}

\* "Explicit deletion authorization, not garbage collection, releases user
\* data" (ensureVolume): no volume is left once the resource is gone.
NoVolumeLeft == ~cs.exists => volume = "none"

\* When Accept of a newer operation returns, no recovery stop of an earlier one
\* is in force (TestOperationBindingRecovery).
StopSuperseded ==
    coord.pc = "grant" /\ cs.recovery = "stop" => stopFor >= coord.op.version

\* "Flush ... keeps acknowledgements durable": what Gitea acknowledged for an
\* operation is never contradicted later.
AcknowledgementDurable ==
    rep.pc = "final" => final[rep.cs.version] \in {"none", Status(rep.cs)}
=============================================================================
