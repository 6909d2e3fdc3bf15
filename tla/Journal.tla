------------------------------ MODULE Journal ------------------------------
(***************************************************************************)
(* The Agent's durable execution journal (internal/agent/journal.go), the  *)
(* executor that runs devcontainer actions through it                      *)
(* (internal/agent/executor.go) and the part of the control loop that      *)
(* starts an execution and saves its result (internal/agent/control.go).   *)
(*                                                                         *)
(* One Agent process at a time owns the volume (the flock of OpenJournal). *)
(* It may die between any two steps; a later process, in the same Pod or   *)
(* in a replacement Pod, opens the same volume.  A durable write ends in   *)
(* one of three ways: it succeeds; it fails and the old file remains       *)
(* ("lost"); or it fails after the rename, so that the new file is there   *)
(* although the caller saw an error ("visible").                           *)
(***************************************************************************)
EXTENDS Integers, FiniteSets

CONSTANTS
    LastJournaled, \* operation versions are 1 .. LastJournaled
    Kind,         \* the kind of each operation version
    LastPod,      \* Runtime Pods are numbered in order of creation
    Steps,        \* lifecycle and template-lifecycle commands
    Times,        \* readings of the wall clock (never 0)
    Keys,         \* private keys that a key generation may return
    NoKey,
    MaxStages,    \* 64 in the code
    MaxJournalFaults \* bound: process deaths and failing writes

JournalVersions == 1 .. LastJournaled
Pods     == 1 .. LastPod

ASSUME JournalConstants ==
    /\ LastJournaled \in Nat /\ LastPod \in Nat /\ MaxJournalFaults \in Nat
    /\ Times \subseteq Nat \ {0}
    /\ Kind \in [JournalVersions -> {"create", "resume", "stop", "delete"}]
    /\ NoKey \notin Keys

MainNames == {<<k, 0>> : k \in {"create", "stop", "delete"}}
                \cup {<<"resume", p>> : p \in Pods}
StepNames == {<<"step", s>> : s \in Steps}
Names     == MainNames \cup StepNames

NoStages  == [n \in Names |-> "absent"]
NoRecord  == [version |-> 0, started |-> 0, stages |-> NoStages]
NoReport  == [version |-> 0, result |-> "none", key |-> NoKey]

VARIABLES
    stateDir,     \* "blank", "record", or "residue": a stray temporary file only
    disk,         \* state/execution.json
    env,          \* state/environment.json: the version that wrote it, 0 if none
    gitKey,       \* identity/git-key
    saved,        \* state/report.pb
    agentPod,     \* the Pod whose Agent last opened the volume, 0 before the first
    pc,           \* where the Agent process is
    mem,          \* Journal.record
    active,       \* Journal.active
    rep,          \* ControlClient.report
    lastStarted,  \* lastStarted of ControlClient.Run
    step,         \* the nested command that runs while pc = "step"
    failed,       \* the current execution has met an error
    ran,          \* history: how often the effect of a stage was invoked
    ended,        \* history: how an invoked effect ended
    origin,       \* history: the operation starts BeginOperation returned
    keysShown,    \* history: the keys whose public half was reported
    journalFaults

durable == <<stateDir, disk, env, gitKey, saved>>
process == <<pc, mem, active, rep, lastStarted, step, failed>>
history == <<ran, ended, origin, keysShown>>
journalVars == <<durable, agentPod, process, history, journalFaults>>

Version == rep.version
\* The stage of the whole action; a resume is journalled once per Pod.
Main    == IF Kind[Version] = "resume" THEN <<"resume", agentPod>>
                                       ELSE <<Kind[Version], 0>>

JournalFault == journalFaults < MaxJournalFaults /\ journalFaults' = journalFaults + 1

(***************************************************************************)
(* Journal.write for the execution record.  SaveOK and SaveFails are the   *)
(* two returns of save(); rec is the record in memory at the call.         *)
(***************************************************************************)
SaveSkipped(rec) == UNCHANGED <<disk, journalFaults>>
SaveOK(rec) == disk' = rec /\ UNCHANGED journalFaults
SaveFails(rec) == JournalFault /\ disk' \in {disk, rec}

NoStep == <<"step", "none">>

\* A new volume, or one that was not made for a journal.
JournalInit ==
    /\ stateDir \in {"blank", "residue"} /\ disk = NoRecord /\ env = 0 /\ gitKey = NoKey
    /\ saved = NoReport /\ agentPod = 0
    /\ pc = "down" /\ mem = NoRecord /\ active = FALSE /\ rep = NoReport
    /\ lastStarted = 0 /\ step = NoStep /\ failed = FALSE
    /\ ran = [v \in JournalVersions |-> [n \in Names |-> 0]]
    /\ ended = [v \in JournalVersions |-> [n \in Names |-> "none"]]
    /\ origin = [v \in JournalVersions |-> {}]
    /\ keysShown = {} /\ journalFaults = 0

(***************************************************************************)
(* The process is gone: nothing in memory survives.                        *)
(***************************************************************************)
Down ==
    /\ pc' = "down" /\ mem' = NoRecord /\ active' = FALSE /\ rep' = NoReport
    /\ lastStarted' = 0 /\ step' = NoStep /\ failed' = FALSE

Crash ==
    /\ pc # "down" /\ JournalFault /\ Down
    /\ UNCHANGED <<durable, agentPod, history>>

(***************************************************************************)
(* OpenJournal, then the start of ControlClient.Run, which reads the saved *)
(* report.  On a blank volume the empty record is written first; a volume  *)
(* that holds anything but the lock and no record is refused, which a      *)
(* death between creating and renaming the temporary file makes permanent. *)
(***************************************************************************)
Opened(p, rec) ==
    /\ agentPod' = p /\ pc' = "idle" /\ mem' = rec /\ active' = FALSE
    /\ rep' = saved /\ lastStarted' = 0 /\ step' = NoStep /\ failed' = FALSE
    /\ UNCHANGED <<env, gitKey, saved, history>>

OpenJournal(p) ==
    /\ pc = "down" /\ stateDir = "record" /\ p >= agentPod
    /\ Opened(p, disk)
    /\ UNCHANGED <<stateDir, disk, journalFaults>>

OpenBlankJournal(p) ==
    /\ pc = "down" /\ stateDir = "blank" /\ p >= agentPod
    /\ Opened(p, NoRecord)
    /\ SaveOK(NoRecord) /\ stateDir' = "record"

OpenFails(p) ==
    /\ pc = "down" /\ stateDir = "blank" /\ p >= agentPod
    /\ SaveFails(NoRecord) /\ stateDir' \in {"blank", "record", "residue"}
    /\ agentPod' = p
    /\ UNCHANGED <<env, gitKey, saved, process, history>>

(***************************************************************************)
(* ControlClient.Run: a response names a newer operation (no execution is  *)
(* running), the key of a create or a resume is loaded or made, and an     *)
(* operation that this process has not started and that has no result is   *)
(* started.                                                                *)
(***************************************************************************)
AdoptOperation(v) ==
    /\ pc = "idle" /\ v > rep.version
    /\ rep' = [version |-> v, result |-> "none", key |-> NoKey]
    /\ UNCHANGED <<durable, agentPod, pc, mem, active, lastStarted, step, failed,
                   history, journalFaults>>

NeedsKey == Version > 0 /\ Kind[Version] \in {"create", "resume"}

\* GitSSHKey returns the key on the volume; only a create may make one.
LoadKey ==
    /\ pc = "idle" /\ NeedsKey /\ rep.key = NoKey /\ gitKey # NoKey
    /\ rep' = [rep EXCEPT !.key = gitKey]
    /\ keysShown' = keysShown \cup {gitKey}
    /\ UNCHANGED <<durable, agentPod, pc, mem, active, lastStarted, step, failed,
                   ran, ended, origin, journalFaults>>

CreateKey(k) ==
    /\ pc = "idle" /\ NeedsKey /\ rep.key = NoKey /\ gitKey = NoKey
    /\ Kind[Version] = "create"
    /\ gitKey' = k
    /\ rep' = [rep EXCEPT !.key = k]
    /\ keysShown' = keysShown \cup {k}
    /\ UNCHANGED <<stateDir, disk, env, saved, agentPod, pc, mem, active, lastStarted,
                   step, failed, ran, ended, origin, journalFaults>>

\* A failing write, or no key where none may be made: Run returns the error.
KeyFails(k) ==
    /\ pc = "idle" /\ NeedsKey /\ rep.key = NoKey /\ gitKey = NoKey
    /\ Down
    /\ \/ Kind[Version] = "create" /\ JournalFault /\ gitKey' \in {NoKey, k}
       \/ Kind[Version] # "create" /\ UNCHANGED <<gitKey, journalFaults>>
    /\ UNCHANGED <<stateDir, disk, env, saved, agentPod, history>>

\* The access bundle of a create or a resume is sent once the key is known.
MayStart == Version # lastStarted /\ rep.result = "none"
StartExecution ==
    /\ pc = "idle" /\ Version > 0 /\ MayStart
    /\ NeedsKey => rep.key # NoKey
    /\ lastStarted' = Version
    /\ pc' = "begin" /\ failed' = FALSE
    /\ UNCHANGED <<durable, agentPod, mem, active, rep, step, history, journalFaults>>

\* The execution ends without a further step of the journal.
FinishOnSuccess(err) ==
    /\ ~err /\ pc' = "done" /\ failed' = err
Finish(err) ==
    /\ pc' = "done" /\ failed' = err

\* Preparation outside the journal fails, or the context is cancelled.
PrepareFails ==
    /\ pc \in {"begin", "begun"} /\ Finish(TRUE)
    /\ UNCHANGED <<durable, agentPod, mem, active, rep, lastStarted, step, history,
                   journalFaults>>

(***************************************************************************)
(* BeginOperation.  The record in memory moves to the new version before   *)
(* it is saved, and stays there when the save fails.                       *)
(***************************************************************************)
Advances == mem.version < Version
BeginOperation(t) ==
    /\ pc = "begin"
    /\ \/ /\ mem.version > Version
          /\ Finish(TRUE)
          /\ UNCHANGED <<disk, mem, origin, journalFaults>>
       \/ /\ mem.version = Version
          /\ pc' = "begun"
          /\ origin' = [origin EXCEPT ![Version] = @ \cup {mem.started}]
          /\ UNCHANGED <<disk, mem, failed, journalFaults>>
       \/ /\ Advances
          /\ mem' = [version |-> Version, started |-> t, stages |-> NoStages]
          /\ \/ /\ SaveOK(mem')
                /\ pc' = "begun"
                /\ origin' = [origin EXCEPT ![Version] = @ \cup {t}]
                /\ UNCHANGED failed
             \/ /\ SaveFails(mem')
                /\ Finish(TRUE)
                /\ UNCHANGED origin
    /\ UNCHANGED <<stateDir, env, gitKey, saved, agentPod, active, rep, lastStarted,
                   step, ran, ended, keysShown>>

(***************************************************************************)
(* The two halves of runStage, for the action's own stage and for a nested *)
(* command: the intent is saved before the effect is invoked, the outcome  *)
(* after it has ended.  A recorded stage is never invoked again.           *)
(***************************************************************************)
Set(rec, n, s) == [rec EXCEPT !.stages[n] = s]
Recorded == Cardinality({n \in Names : mem.stages[n] # "absent"})

\* A stage on record is answered from the record.
OnRecordUnlessUnknown(n) == mem.stages[n] \notin {"absent", "unknown"}
OnRecord(n) == mem.stages[n] # "absent"

Invoke(n) ==
    /\ mem' = Set(mem, n, "unknown")
    /\ SaveOK(mem')
    /\ ran' = [ran EXCEPT ![Version][n] = @ + 1]

Complete(n, s) ==
    /\ ended' = [ended EXCEPT ![Version][n] = s]
    /\ \/ mem' = Set(mem, n, s) /\ SaveOK(mem')
       \/ mem' = Set(mem, n, "unknown") /\ SaveFails(Set(mem, n, s))

\* Executor.Apply up to the invocation; only a create has no environment yet.
RunOnce ==
    /\ pc = "begun"
    /\ \/ /\ Kind[Version] # "create" /\ env = 0
          /\ Finish(TRUE)
          /\ UNCHANGED <<disk, mem, active, ran, journalFaults>>
       \/ /\ Kind[Version] = "create" \/ env # 0
          /\ OnRecord(Main)
          /\ Finish(mem.stages[Main] # "succeeded")
          /\ UNCHANGED <<disk, mem, active, ran, journalFaults>>
       \/ /\ Kind[Version] = "create" \/ env # 0
          /\ ~OnRecord(Main)
          /\ \/ /\ Recorded >= MaxStages
                /\ Finish(TRUE)
                /\ UNCHANGED <<disk, mem, active, ran, journalFaults>>
             \/ /\ Recorded < MaxStages
                /\ \/ Invoke(Main) /\ active' = TRUE /\ pc' = "stage"
                      /\ UNCHANGED failed
                   \/ mem' = Set(mem, Main, "unknown") /\ SaveFails(mem')
                      /\ Finish(TRUE) /\ UNCHANGED <<active, ran>>
    /\ UNCHANGED <<stateDir, env, gitKey, saved, agentPod, rep, lastStarted, step,
                   ended, origin, keysShown>>

\* runActiveStep up to the invocation, while the devcontainer action runs.
BeginStep(n) ==
    /\ pc = "stage" /\ ~failed
    /\ active /\ mem.version = Version
    /\ \/ /\ OnRecord(n)
          /\ failed' = (mem.stages[n] # "succeeded")
          /\ UNCHANGED <<disk, mem, pc, step, ran, journalFaults>>
       \/ /\ ~OnRecord(n) /\ Recorded >= MaxStages
          /\ failed' = TRUE
          /\ UNCHANGED <<disk, mem, pc, step, ran, journalFaults>>
       \/ /\ ~OnRecord(n) /\ Recorded < MaxStages
          /\ \/ Invoke(n) /\ pc' = "step" /\ step' = n /\ UNCHANGED failed
             \/ mem' = Set(mem, n, "unknown") /\ SaveFails(mem')
                /\ failed' = TRUE /\ UNCHANGED <<pc, step, ran>>
    /\ UNCHANGED <<stateDir, env, gitKey, saved, agentPod, active, rep, lastStarted,
                   ended, origin, keysShown>>

EndStep(s) ==
    /\ pc = "step"
    /\ Complete(step, s)
    /\ failed' = (s = "failed" \/ mem'.stages[step] # s)
    /\ pc' = "stage" /\ step' = NoStep
    /\ UNCHANGED <<stateDir, env, gitKey, saved, agentPod, active, rep, lastStarted,
                   ran, origin, keysShown>>

\* A successful action writes state/environment.json before it returns; one
\* that fails for that write may have left the new file behind.
WriteEnvironmentLater(s) == UNCHANGED env
WriteEnvironment(s) ==
    \/ s = "succeeded" /\ env' = Version
    \/ s = "failed" /\ env' \in {env, IF failed THEN env ELSE Version}

EndStage(s) ==
    /\ pc = "stage"
    /\ s = "succeeded" => ~failed
    /\ WriteEnvironment(s)
    /\ Complete(Main, s)
    /\ active' = FALSE
    /\ Finish(s = "failed" \/ mem'.stages[Main] # s)
    /\ UNCHANGED <<stateDir, gitKey, saved, agentPod, rep, lastStarted, step, ran,
                   origin, keysShown>>

(***************************************************************************)
(* recordResult: the outcome is written to state/report.pb.  Work after    *)
(* the journalled action may still fail it.  A cancelled execution and a   *)
(* failing write end the process.                                          *)
(***************************************************************************)
ResultOf(r) == r = "done" => ~failed
RecordResult(r) ==
    /\ pc = "done"
    /\ ResultOf(r)
    /\ LET report == [rep EXCEPT !.result = r] IN
       \/ /\ saved' = report /\ rep' = report
          /\ pc' = "idle" /\ failed' = FALSE
          /\ UNCHANGED <<mem, active, lastStarted, step, journalFaults>>
       \/ /\ r = "failed" /\ saved' = report
          /\ Down /\ UNCHANGED journalFaults
       \/ /\ JournalFault /\ saved' \in {saved, report}
          /\ Down
    /\ UNCHANGED <<stateDir, disk, env, gitKey, agentPod, history>>

Execution ==
    \/ StartExecution \/ PrepareFails
    \/ \E t \in Times : BeginOperation(t)
    \/ RunOnce
    \/ \E n \in StepNames : BeginStep(n)
    \/ \E s \in {"failed", "succeeded"} : EndStep(s) \/ EndStage(s)
    \/ \E r \in {"done", "failed"} : RecordResult(r)

JournalNext ==
    \/ Crash
    \/ \E p \in Pods : OpenJournal(p) \/ OpenBlankJournal(p) \/ OpenFails(p)
    \/ \E v \in JournalVersions : AdoptOperation(v)
    \/ LoadKey
    \/ \E k \in Keys : CreateKey(k) \/ KeyFails(k)
    \/ Execution

\* The scheduling the code relies on: a running process takes its next step,
\* a dead one is started again, and the Manager keeps offering the operation.
JournalFairness ==
    /\ WF_journalVars(\E p \in Pods : OpenJournal(p) \/ OpenBlankJournal(p))
    /\ WF_journalVars(AdoptOperation(LastJournaled))
    /\ WF_journalVars(\/ LoadKey \/ \E k \in Keys : CreateKey(k)
                      \/ StartExecution \/ RunOnce
                      \/ \E t \in Times : BeginOperation(t)
                      \/ \E s \in {"failed", "succeeded"} : EndStep(s) \/ EndStage(s)
                      \/ \E r \in {"done", "failed"} : RecordResult(r))

JournalSpec == JournalInit /\ [][JournalNext]_journalVars /\ JournalFairness

-----------------------------------------------------------------------------
(***************************************************************************)
(* Properties                                                              *)
(***************************************************************************)

\* RunOnce and runActiveStep: the effect of a stage is invoked at most once
\* for an operation version, whatever dies or fails in between.
AtMostOnce == \A v \in JournalVersions, n \in Names : ran[v][n] <= 1

\* runStage, BeginOperation, GitSSHKey: what the Agent did or told others is on
\* the volume.  Every effect that was invoked has its intent there, an outcome
\* there is the outcome the effect had, all processes that ever reported a start
\* of an operation reported the one there, and so did those that showed a key.
RecordTrue ==
    /\ \A v \in JournalVersions, n \in Names : ran[v][n] > 0 =>
          \/ disk.version > v
          \/ disk.version = v /\ disk.stages[n] # "absent"
    /\ \A n \in Names : disk.stages[n] \in {"failed", "succeeded"} =>
          ended[disk.version][n] = disk.stages[n]
    /\ \A v \in JournalVersions : \A t \in origin[v] :
          disk.version > v \/ (disk.version = v /\ disk.started = t)
    /\ keysShown \subseteq {gitKey}

\* Executor.Apply, recordResult: a result DONE was preceded by an action of that
\* version that really succeeded, and a success on the volume has its
\* environment there, written by the same operation version.
SuccessIsReal ==
    /\ saved.result = "done" =>
          \E n \in MainNames : ended[saved.version][n] = "succeeded"
    /\ \A n \in MainNames : disk.stages[n] = "succeeded" => env = disk.version

\* Run: the last operation is eventually answered with a saved result, unless
\* the first write left the volume unusable or a resume finds no key.
LastOperationAnswered ==
    <>[]( \/ saved.version = LastJournaled /\ saved.result # "none"
          \/ stateDir = "residue"
          \/ gitKey = NoKey /\ Kind[LastJournaled] = "resume" )
=============================================================================
