--------------------------- MODULE JournalProofs ---------------------------
(***************************************************************************)
(* What outlives an Agent and what is reached of it, each for every value  *)
(* of its constants: the journal of an operation on the volume, the target *)
(* that tickets name, and the data volume itself.                          *)
(***************************************************************************)
EXTENDS Journal, AccessTarget, VolumeInit, TLAPS

(***************************************************************************)
(* The journal: JournalIInv.                                               *)
(*                                                                         *)
(* Commands run at most once, the volume records what was done and told,   *)
(* and a success is real: for every sequence of operations, any number of  *)
(* Pods, commands, keys and stages, and any number of deaths and failing   *)
(* writes.                                                                 *)
(*                                                                         *)
(* None of this is inductive by itself.  It rests on how the record in     *)
(* memory relates to the one on the volume (MemoryCovers): memory is never *)
(* behind, and where it is ahead, by a save that failed, the execution has *)
(* ended and this process will not start that version again (Progress).    *)
(***************************************************************************)
Outcomes == {"failed", "succeeded"}
Marks    == {"absent", "unknown"} \cup Outcomes
Records  == [version : 0 .. LastJournaled, started : Nat, stages : [Names -> Marks]]
Reports  == [version : 0 .. LastJournaled, result : {"none", "done", "failed"},
             key : Keys \cup {NoKey}]
Running  == {"begun", "stage", "step"}
Places   == {"down", "idle", "begin", "done"} \cup Running

\* Every variable has its type; a live process has a Pod.
JournalType ==
    /\ stateDir \in {"blank", "record", "residue"}
    /\ disk \in Records /\ mem \in Records
    /\ env \in 0 .. LastJournaled /\ gitKey \in Keys \cup {NoKey}
    /\ saved \in Reports /\ rep \in Reports
    /\ agentPod \in 0 .. LastPod /\ pc \in Places
    /\ lastStarted \in 0 .. LastJournaled
    /\ ran \in [JournalVersions -> [Names -> Nat]]
    /\ ended \in [JournalVersions -> [Names -> {"none"} \cup Outcomes]]
    /\ origin \in [JournalVersions -> SUBSET Nat]
    /\ keysShown \subseteq Keys
    /\ pc # "down" => agentPod \in Pods
    /\ pc = "step" => step \in StepNames

\* OpenJournal, BeginOperation, runStage: only a volume with a record has been
\* used, and the record in memory is not behind it.
MemoryCovers ==
    /\ stateDir # "record" => disk = NoRecord /\ pc = "down"
    /\ pc # "down" =>
         /\ disk.version <= mem.version
         /\ disk.version = mem.version =>
              /\ disk.started = mem.started
              /\ \A n \in Names : mem.stages[n] = "absent" => disk.stages[n] = "absent"

\* ControlClient.Run, BeginOperation: memory is ahead of the volume only for a
\* version this process has already started, and never while a stage may run.
Progress ==
    /\ pc # "down" => lastStarted <= rep.version
    /\ pc # "down" /\ disk.version # mem.version => mem.version <= lastStarted
    /\ pc \notin {"down", "idle"} =>
         rep.version \in JournalVersions /\ lastStarted = rep.version
    /\ pc = "begin" /\ disk.version # mem.version => mem.version < rep.version
    /\ pc \in Running => mem.version = rep.version /\ disk.version = rep.version

\* runStage: while an effect is under way its stage is unknown, in memory and
\* on the volume; it was invoked and has not ended.
Underway(n) ==
    /\ mem.stages[n] = "unknown" /\ disk.stages[n] = "unknown"
    /\ ran[rep.version][n] # 0 /\ ended[rep.version][n] = "none"
Intended ==
    /\ pc \in {"stage", "step"} => Underway(Main)
    /\ pc = "step" => Underway(step)

\* runStage, GitSSHKey: an effect was invoked once if at all, and what ended was
\* invoked; a key was shown only if there is one.
Invoked ==
    /\ \A v \in JournalVersions, n \in Names :
         /\ ran[v][n] \in {0, 1}
         /\ ran[v][n] = 0 => ended[v][n] = "none"
    /\ gitKey = NoKey => keysShown = {}

\* runStage, Executor.Apply: an outcome in memory is the outcome of the effect, a
\* success in memory has its environment.
MemoryTrue ==
    /\ \A n \in Names : mem.stages[n] \in Outcomes =>
          mem.version \in JournalVersions /\ ended[mem.version][n] = mem.stages[n]
    /\ \A n \in MainNames : mem.stages[n] = "succeeded" => env = mem.version
    /\ saved.result = "done" => saved.version \in JournalVersions
    /\ \A n \in Names : disk.stages[n] \in Outcomes => disk.version \in JournalVersions

\* RunOnce: an execution that ended without an error has its action on record as
\* a success.
Finished ==
    pc = "done" /\ ~failed => mem.version = rep.version /\ mem.stages[Main] = "succeeded"

Data == MemoryCovers /\ Progress /\ Invoked /\ MemoryTrue /\ RecordTrue /\ SuccessIsReal
JournalIInv == JournalType /\ Data /\ Intended /\ Finished

-----------------------------------------------------------------------------
\* The names of stages, and what Main is while an operation is being executed.
LEMMA NameFacts ==
    /\ MainNames \subseteq Names /\ StepNames \subseteq Names
    /\ \A n \in StepNames : n \notin MainNames
<1>1. \A n \in StepNames : n \notin MainNames
  <2> SUFFICES ASSUME NEW s \in Steps, <<"step", s>> \in MainNames PROVE FALSE
    BY Zenon DEF StepNames
  <2>1. CASE \E k \in {"create", "stop", "delete"} : <<"step", s>> = <<k, 0>>
    BY Zenon, <2>1
  <2>2. CASE \E p \in Pods : <<"step", s>> = <<"resume", p>>
    BY Zenon, <2>2
  <2> QED BY <2>1, <2>2 DEF MainNames
<1> QED BY <1>1 DEF Names

\* Executor.Apply: the stage of an operation that has a kind is one of the main stages.
LEMMA MainIsMain ==
    ASSUME agentPod \in Pods, rep.version \in JournalVersions,
           Kind[rep.version] \in {"create", "resume", "stop", "delete"}
    PROVE  Main \in MainNames
BY Zenon DEF Main, Version, MainNames

\* The record of a fresh volume, and that of an operation that begins.
LEMMA EmptyRecords ==
    /\ NoRecord \in Records /\ NoRecord.version = 0
    /\ \A n \in Names : NoRecord.stages[n] = "absent" /\ NoStages[n] = "absent"
    /\ NoReport \in Reports /\ NoReport.version = 0 /\ NoReport.result = "none"
    /\ \A v \in 0 .. LastJournaled, t \in Nat :
          [version |-> v, started |-> t, stages |-> NoStages] \in Records
BY JournalConstants DEF NoRecord, NoStages, NoReport, Records, Reports, Marks, Outcomes

\* Set changes one stage of a record.
LEMMA SetFacts ==
    ASSUME NEW rec \in Records, NEW n \in Names, NEW s \in Marks
    PROVE  /\ Set(rec, n, s) \in Records
           /\ Set(rec, n, s).version = rec.version
           /\ Set(rec, n, s).started = rec.started
           /\ Set(rec, n, s).stages[n] = s
           /\ \A m \in Names : m # n => Set(rec, n, s).stages[m] = rec.stages[m]
BY Zenon DEF Set, Records

\* OpenJournal on a fresh volume: the invariant holds before anything was started.
LEMMA JournalInitIInv == JournalInit => JournalIInv
<1> SUFFICES ASSUME JournalInit PROVE JournalIInv
  OBVIOUS
<1> USE JournalConstants, EmptyRecords
<1>1. JournalType
  BY DEF JournalInit, JournalType, Places, Running, Outcomes
<1>2. MemoryCovers /\ Progress /\ Intended /\ Finished
  BY Zenon DEF JournalInit, MemoryCovers, Progress, Intended, Finished, Running
<1>3. Invoked /\ MemoryTrue
  BY Zenon, NameFacts DEF JournalInit, Invoked, MemoryTrue, Outcomes
<1>4. RecordTrue /\ SuccessIsReal
  BY NameFacts DEF JournalInit, RecordTrue, SuccessIsReal
<1> QED BY <1>1, <1>2, <1>3, <1>4 DEF JournalIInv, Data

\* While an operation is executed its version and its stage are proper.
LEMMA Executing ==
    ASSUME JournalType, Progress, pc \notin {"down", "idle"}
    PROVE  /\ Version \in JournalVersions /\ Version = rep.version
           /\ Kind[Version] \in {"create", "resume", "stop", "delete"}
           /\ Main \in MainNames
BY Zenon, MainIsMain, JournalConstants DEF JournalType, Progress, Version

\* What every step of runStage leaves alone.
Aside == UNCHANGED <<stateDir, gitKey, saved, agentPod, rep, lastStarted, origin, keysShown>>

\* The four things a step of runStage does to the records: answer from them,
\* save an intent, fail to save one, and save an outcome or fail to.
Answers == UNCHANGED <<disk, mem, ran, ended, env>>
Intends(n) ==
    /\ ~OnRecord(n)
    /\ mem' = Set(mem, n, "unknown") /\ disk' = mem'
    /\ ran' = [ran EXCEPT ![Version][n] = @ + 1] /\ UNCHANGED <<ended, env>>
IntentFails(n) ==
    /\ ~OnRecord(n)
    /\ mem' = Set(mem, n, "unknown") /\ disk' \in {disk, mem'}
    /\ UNCHANGED <<ran, ended, env>>
Ends(n, s) ==
    /\ ended' = [ended EXCEPT ![Version][n] = s] /\ UNCHANGED ran
    /\ \/ mem' = Set(mem, n, s) /\ disk' = mem'
       \/ mem' = Set(mem, n, "unknown") /\ disk' \in {disk, Set(mem, n, s)}
    /\ env' \in {env, Version} /\ (n \in MainNames /\ s = "succeeded" => env' = Version)

\* Executor.Apply, runActiveStep: the steps of an execution in these terms.
LEMMA RunOnceDoes ==
    ASSUME RunOnce
    PROVE  /\ pc = "begun" /\ Aside
           /\ \/ Answers /\ pc' = "done" /\ (~failed' => mem.stages[Main] = "succeeded")
              \/ Intends(Main) /\ pc' = "stage"
              \/ IntentFails(Main) /\ pc' = "done" /\ failed'
BY Zenon DEF RunOnce, Aside, Answers, Intends, IntentFails, Invoke, SaveOK, SaveFails, Finish

\* runStage for a step inside the stage: it is answered from the record, intended, or
\* given up because its intent could not be saved.
LEMMA BeginStepDoes ==
    ASSUME NEW n \in StepNames, BeginStep(n)
    PROVE  /\ pc = "stage" /\ Aside
           /\ \/ Answers /\ pc' = "stage"
              \/ Intends(n) /\ pc' = "step" /\ step' = n
              \/ IntentFails(n) /\ pc' = "stage"
BY Zenon DEF BeginStep, Aside, Answers, Intends, IntentFails, Invoke, SaveOK, SaveFails

\* runStage, after the effect of a step: its outcome is recorded, or stays unknown.
LEMMA EndStepDoes ==
    ASSUME NEW s \in Outcomes, EndStep(s), step \notin MainNames
    PROVE  pc = "step" /\ Aside /\ Ends(step, s) /\ pc' = "stage"
BY Zenon DEF EndStep, Aside, Ends, Complete, SaveOK, SaveFails

\* runStage, after the effect of the stage: a report of success needs a record of it.
LEMMA EndStageDoes ==
    ASSUME NEW s \in Outcomes, EndStage(s)
    PROVE  /\ pc = "stage" /\ Aside /\ Ends(Main, s) /\ pc' = "done"
           /\ ~failed' => mem'.stages[Main] = "succeeded"
<1>1. env' \in {env, Version} /\ (s = "succeeded" => env' = Version)
  BY Zenon DEF EndStage, WriteEnvironment, Outcomes
<1>2. ~failed' => mem'.stages[Main] = "succeeded"
  BY Zenon DEF EndStage, Finish, Outcomes
<1> QED BY <1>1, <1>2 DEF EndStage, Finish, Aside, Ends, Complete, SaveOK, SaveFails

\* A step of runStage keeps the types.
LEMMA StageType ==
    ASSUME JournalType, Progress, pc \in Running, Aside,
           NEW n \in Names, NEW s \in Outcomes,
           Answers \/ Intends(n) \/ IntentFails(n) \/ Ends(n, s),
           pc' \in {"stage", "step", "done"}, pc' = "step" => step' \in StepNames
    PROVE  JournalType'
<1>0. Version \in JournalVersions
  BY Zenon, Executing DEF Running
<1>1. disk' \in Records /\ mem' \in Records
  <2>1. mem \in Records /\ disk \in Records /\ "unknown" \in Marks /\ s \in Marks
    BY Zenon DEF JournalType, Marks
  <2>2. Set(mem, n, s) \in Records /\ Set(mem, n, "unknown") \in Records
    BY Zenon, <2>1, SetFacts
  <2> QED BY <2>1, <2>2 DEF Answers, Intends, IntentFails, Ends
<1>2. ran' \in [JournalVersions -> [Names -> Nat]]
  <2>1. ran \in [JournalVersions -> [Names -> Nat]]
    BY Zenon DEF JournalType
  <2>2. ran' \in {ran, [ran EXCEPT ![Version][n] = @ + 1]}
    BY Zenon DEF Answers, Intends, IntentFails, Ends
  <2> QED BY SMTT(60), <1>0, <2>1, <2>2
<1>3. ended' \in [JournalVersions -> [Names -> {"none"} \cup Outcomes]]
  <2>1. ended \in [JournalVersions -> [Names -> {"none"} \cup Outcomes]]
    BY Zenon DEF JournalType
  <2>2. ended' \in {ended, [ended EXCEPT ![Version][n] = s]}
    BY Zenon DEF Answers, Intends, IntentFails, Ends
  <2>3. CASE ended' = ended
    BY Zenon, <2>1, <2>3
  <2>4. CASE ended' = [ended EXCEPT ![Version][n] = s]
    BY Zenon, <1>0, <2>1, <2>4
  <2> QED BY <2>2, <2>3, <2>4
<1>4. env' \in 0 .. LastJournaled
  <2>1. env' \in {env, Version}
    BY Zenon DEF Answers, Intends, IntentFails, Ends
  <2> QED BY <1>0, <2>1 DEF JournalType, JournalVersions
<1>5. pc' \in Places /\ agentPod' \in Pods
  BY Zenon DEF JournalType, Places, Running, Aside
<1> QED BY <1>1, <1>2, <1>3, <1>4, <1>5 DEF JournalType, Aside

\* Every step of the Agent process keeps the types.
LEMMA TypeStep == JournalIInv /\ [JournalNext]_journalVars => JournalType'
<1> SUFFICES ASSUME JournalIInv, [JournalNext]_journalVars PROVE JournalType'
  OBVIOUS
<1> JournalType /\ Progress
  BY Zenon DEF JournalIInv, Data
<1> USE JournalConstants DEF durable, process, history
<1>1. CASE UNCHANGED journalVars
  BY Zenon, <1>1 DEF JournalType, journalVars
<1>2. CASE Crash
  BY SMTT(60), <1>2, EmptyRecords DEF JournalType, Crash, Down, Places
<1>3. ASSUME NEW p \in Pods, OpenJournal(p) \/ OpenBlankJournal(p) PROVE JournalType'
  BY SMTT(60), <1>3, EmptyRecords DEF JournalType, OpenJournal, OpenBlankJournal, Opened, SaveOK, Places, Pods
<1>4. ASSUME NEW p \in Pods, OpenFails(p) PROVE JournalType'
  BY SMTT(60), <1>4, EmptyRecords DEF JournalType, OpenFails, SaveFails, Pods
<1>5. ASSUME NEW v \in JournalVersions, AdoptOperation(v) PROVE JournalType'
  BY SMTT(60), <1>5 DEF JournalType, AdoptOperation, Reports, JournalVersions
<1>6. CASE LoadKey
  BY Zenon, <1>6 DEF JournalType, LoadKey, Reports
<1>7. ASSUME NEW k \in Keys, CreateKey(k) \/ KeyFails(k) PROVE JournalType'
  BY SMTT(60), <1>7, EmptyRecords DEF JournalType, CreateKey, KeyFails, Down, Reports, Places
<1>8. CASE StartExecution
  BY <1>8 DEF JournalType, StartExecution, Version, Reports, Places
<1>9. CASE PrepareFails
  BY Zenon, <1>9 DEF JournalType, PrepareFails, Finish, Places
<1>10. ASSUME NEW t \in Times, BeginOperation(t) PROVE JournalType'
  <2>0. Version \in JournalVersions /\ Version \in 0 .. LastJournaled /\ t \in Nat
    BY <1>10, Executing DEF BeginOperation, JournalVersions
  <2> DEFINE fresh == [version |-> Version, started |-> t, stages |-> NoStages]
  <2>1. fresh \in Records
    BY Zenon, <2>0, EmptyRecords
  <2>2. mem' \in {mem, fresh} /\ disk' \in {disk, fresh}
    BY Zenon, <1>10 DEF BeginOperation, SaveOK, SaveFails
  <2>3. pc' \in {"begun", "done"}
    BY Zenon, <1>10 DEF BeginOperation, Finish
  <2>4. origin' \in {origin, [origin EXCEPT ![Version] = @ \cup {mem.started}],
                             [origin EXCEPT ![Version] = @ \cup {t}]}
    BY Zenon, <1>10 DEF BeginOperation
  <2>5. origin' \in [JournalVersions -> SUBSET Nat]
    BY <2>0, <2>4 DEF JournalType, Records
  <2>6. UNCHANGED <<stateDir, env, gitKey, saved, agentPod, rep, lastStarted, ran, ended,
                    keysShown>> /\ pc # "down"
    BY Zenon, <1>10 DEF BeginOperation
  <2> HIDE DEF fresh
  <2> QED BY <2>1, <2>2, <2>3, <2>5, <2>6 DEF JournalType, Places, Running
<1>11. CASE RunOnce
  <2>1. pc = "begun" /\ Main \in Names
    BY Zenon, <1>11, RunOnceDoes, Executing, NameFacts
  <2> QED BY <1>11, <2>1, RunOnceDoes, StageType DEF Running, Outcomes
<1>12. ASSUME NEW n \in StepNames, BeginStep(n) PROVE JournalType'
  BY Zenon, <1>12, BeginStepDoes, StageType, NameFacts DEF Running, Outcomes
<1>13. ASSUME NEW s \in Outcomes, EndStep(s) PROVE JournalType'
  <2>1. pc = "step" /\ step \in StepNames /\ step \in Names /\ step \notin MainNames
    BY Zenon, <1>13, NameFacts DEF EndStep, JournalType
  <2> QED BY <1>13, <2>1, EndStepDoes, StageType DEF Running
<1>14. ASSUME NEW s \in Outcomes, EndStage(s) PROVE JournalType'
  <2>1. pc = "stage" /\ Main \in Names
    BY ZenonT(60), <1>14, EndStageDoes, Executing, NameFacts
  <2> QED BY <1>14, <2>1, EndStageDoes, StageType DEF Running
<1>15. ASSUME NEW r \in {"done", "failed"}, RecordResult(r) PROVE JournalType'
  BY SMTT(60), <1>15, EmptyRecords DEF JournalType, RecordResult, Down, Places, Reports
<1> QED
  BY Zenon, <1>1, <1>2, <1>3, <1>4, <1>5, <1>6, <1>7, <1>8, <1>9, <1>10, <1>11, <1>12, <1>13,
     <1>14, <1>15 DEF JournalNext, Execution, Outcomes

\* The records after a step of runStage: only the stage n has changed, and the
\* stages on the volume are those it had or those in memory.
LEMMA StageRecords ==
    ASSUME JournalType, MemoryCovers, Progress, pc \in Running,
           NEW n \in Names, NEW s \in Outcomes,
           Intends(n) \/ IntentFails(n) \/ (Ends(n, s) /\ Underway(n))
    PROVE  /\ mem'.version = Version /\ disk'.version = Version
           /\ mem.version = Version /\ disk.version = Version
           /\ mem'.started = mem.started /\ disk'.started = mem.started
           /\ disk.started = mem.started
           /\ \A m \in Names : m # n =>
                /\ mem'.stages[m] = mem.stages[m]
                /\ disk'.stages[m] \in {disk.stages[m], mem.stages[m]}
           /\ mem'.stages[n] \in {"unknown", s}
           /\ disk'.stages[n] \in {"absent", "unknown", s}
           /\ disk'.stages[n] = "absent" => IntentFails(n)
           /\ Intends(n) \/ IntentFails(n) =>
                /\ mem.stages[n] = "absent" /\ disk.stages[n] = "absent"
                /\ mem'.stages[n] = "unknown" /\ disk'.stages[n] \in {"absent", "unknown"}
<1>1. /\ mem \in Records /\ disk \in Records /\ s \in Marks /\ "unknown" \in Marks
      /\ mem.version = Version /\ disk.version = Version /\ disk.started = mem.started
      /\ mem.stages[n] = "absent" => disk.stages[n] = "absent"
  BY Zenon DEF JournalType, MemoryCovers, Progress, Running, Marks, Version
<1> DEFINE u == Set(mem, n, "unknown")
           e == Set(mem, n, s)
<1>2. /\ u.version = Version /\ u.started = mem.started /\ u.stages[n] = "unknown"
      /\ \A m \in Names : m # n => u.stages[m] = mem.stages[m]
  BY SMTT(60), <1>1, SetFacts
<1>3. /\ e.version = Version /\ e.started = mem.started /\ e.stages[n] = s
      /\ \A m \in Names : m # n => e.stages[m] = mem.stages[m]
  BY SMTT(60), <1>1, SetFacts
<1>4. CASE Intends(n) \/ IntentFails(n)
  <2>1. mem' = u /\ disk' \in {disk, u} /\ mem.stages[n] = "absent"
    BY Zenon, <1>4 DEF Intends, IntentFails, OnRecord
  <2>2. Intends(n) => disk' = u
    BY Zenon DEF Intends
  <2> HIDE DEF u, e
  <2> QED BY <1>1, <1>2, <1>4, <2>1, <2>2
<1>5. CASE Ends(n, s) /\ Underway(n)
  <2>1. mem' \in {u, e} /\ disk' \in {disk, u, e}
    BY Zenon, <1>5 DEF Ends
  <2>2. disk.stages[n] = "unknown" /\ mem.stages[n] = "unknown"
    BY Zenon, <1>5 DEF Underway
  <2>3. ~Intends(n) /\ ~IntentFails(n) /\ s # "absent"
    BY Zenon, <2>2 DEF Intends, IntentFails, OnRecord, Outcomes
  <2> HIDE DEF u, e
  <2> QED BY <1>1, <1>2, <1>3, <2>1, <2>2, <2>3
<1> QED BY <1>4, <1>5

\* A step of runStage keeps what relates memory, volume and history.
LEMMA StageData ==
    ASSUME JournalIInv, pc \in Running, Aside,
           NEW n \in Names, NEW s \in Outcomes,
           Intends(n) \/ IntentFails(n) \/ (Ends(n, s) /\ Underway(n)),
           pc' \in {"stage", "step", "done"}
    PROVE  Data'
<1>0. /\ JournalType /\ MemoryCovers /\ Progress /\ Invoked /\ MemoryTrue /\ RecordTrue
      /\ SuccessIsReal
  BY Zenon DEF JournalIInv, Data
<1>1. /\ mem'.version = Version /\ disk'.version = Version
      /\ mem.version = Version /\ disk.version = Version
      /\ mem'.started = mem.started /\ disk'.started = mem.started
      /\ disk.started = mem.started
      /\ \A m \in Names : m # n =>
           /\ mem'.stages[m] = mem.stages[m]
           /\ disk'.stages[m] \in {disk.stages[m], mem.stages[m]}
      /\ mem'.stages[n] \in {"unknown", s}
      /\ disk'.stages[n] \in {"absent", "unknown", s}
      /\ disk'.stages[n] = "absent" => IntentFails(n)
      /\ Intends(n) \/ IntentFails(n) =>
           /\ mem.stages[n] = "absent" /\ disk.stages[n] = "absent"
           /\ mem'.stages[n] = "unknown" /\ disk'.stages[n] \in {"absent", "unknown"}
  BY Zenon, <1>0, StageRecords
<1>2. /\ Version \in JournalVersions /\ Version = rep.version /\ rep' = rep
      /\ pc \notin {"down", "idle"}
  BY Zenon, <1>0, Executing DEF Running, Aside
<1>3. \A m \in Names : mem.stages[m] = "absent" => disk.stages[m] = "absent"
  BY Zenon, <1>0, <1>1, <1>2 DEF MemoryCovers
<1>4. MemoryCovers' /\ Progress'
  <2>1. stateDir' = "record"
    BY Zenon, <1>0, <1>2 DEF MemoryCovers, Aside
  <2>2. \A m \in Names : mem'.stages[m] = "absent" => disk'.stages[m] = "absent"
    BY Zenon, <1>1, <1>3 DEF Outcomes
  <2>3. MemoryCovers'
    BY <1>1, <1>2, <2>1, <2>2 DEF MemoryCovers, JournalVersions
  <2>4. Progress'
    BY Zenon, <1>0, <1>1, <1>2 DEF Progress, Aside, Running, JournalVersions
  <2> QED BY <2>3, <2>4
<1>5. \A v \in JournalVersions, m \in Names :
        ran'[v][m] = IF Intends(n) /\ v = Version /\ m = n THEN ran[v][m] + 1 ELSE ran[v][m]
  <2>1. ran \in [JournalVersions -> [Names -> Nat]]
    BY Zenon, <1>0 DEF JournalType
  <2>2. CASE Intends(n)
    BY Zenon, <1>2, <2>1, <2>2 DEF Intends
  <2>3. CASE ~Intends(n)
    BY Zenon, <2>1, <2>3 DEF IntentFails, Ends
  <2> QED BY <2>2, <2>3
<1>6. \A v \in JournalVersions, m \in Names :
        \/ ended'[v][m] = ended[v][m]
        \/ v = Version /\ m = n /\ Ends(n, s) /\ Underway(n) /\ ended'[v][m] = s
  <2>1. ended \in [JournalVersions -> [Names -> {"none"} \cup Outcomes]]
    BY Zenon, <1>0 DEF JournalType
  <2>2. CASE Ends(n, s) /\ Underway(n)
    BY Zenon, <1>2, <2>1, <2>2 DEF Ends
  <2>3. CASE Intends(n) \/ IntentFails(n)
    BY ZenonT(60), <2>1, <2>3 DEF Intends, IntentFails
  <2> QED BY <2>2, <2>3
<1>7. Ends(n, s) /\ Underway(n) =>
        /\ ended'[Version][n] = s /\ ended[Version][n] = "none"
        /\ mem.stages[n] = "unknown" /\ disk.stages[n] = "unknown"
        /\ ~Intends(n) /\ ~IntentFails(n)
  <2>1. ended \in [JournalVersions -> [Names -> {"none"} \cup Outcomes]]
    BY ZenonT(60), <1>0 DEF JournalType
  <2> QED BY <1>2, <2>1 DEF Ends, Underway, Intends, IntentFails, OnRecord
<1>8. ran[Version][n] > 0 => ~Intends(n) /\ ~IntentFails(n)
  BY SMTT(60), <1>0, <1>1, <1>2 DEF RecordTrue, JournalVersions
<1>9. Invoked'
  <2>1. \A v \in JournalVersions, m \in Names : ran'[v][m] \in {0, 1}
    BY SMTT(60), <1>0, <1>2, <1>5, <1>8 DEF Invoked
  <2>2. ASSUME NEW v \in JournalVersions, NEW m \in Names, ran'[v][m] = 0
        PROVE  ended'[v][m] = "none"
    <3>1. ran[v][m] = 0 /\ ended[v][m] = "none"
      BY <1>0, <1>5, <2>2 DEF Invoked
    <3>2. Underway(n) => ran[Version][n] # 0
      BY ZenonT(60), <1>2 DEF Underway
    <3> QED BY SMTT(60), <1>6, <3>1, <3>2
  <2> QED BY SMTT(60), <1>0, <2>1, <2>2 DEF Invoked, Aside
<1>10. ASSUME NEW m \in Names, mem'.stages[m] \in Outcomes
       PROVE  ended'[Version][m] = mem'.stages[m]
  <2>1. CASE m = n
    BY Zenon, <1>1, <1>7, <1>10, <2>1 DEF Outcomes
  <2>2. CASE m # n
    <3>1. mem.stages[m] = mem'.stages[m]
      BY Zenon, <1>1, <2>2
    <3>2. ended[Version][m] = mem.stages[m]
      BY Zenon, <1>0, <1>1, <1>10, <3>1 DEF MemoryTrue
    <3> QED BY <1>2, <1>6, <2>2, <3>1, <3>2
  <2> QED BY <2>1, <2>2
<1>11. ASSUME NEW m \in Names, disk'.stages[m] \in Outcomes
       PROVE  ended'[Version][m] = disk'.stages[m]
  <2>1. CASE m = n
    BY ZenonT(60), <1>1, <1>7, <1>11, <2>1 DEF Outcomes
  <2>2. CASE m # n
    <3>1. disk'.stages[m] \in {disk.stages[m], mem.stages[m]}
      BY ZenonT(60), <1>1, <2>2
    <3>2. ended[Version][m] = disk'.stages[m]
      BY <1>0, <1>1, <1>11, <3>1 DEF MemoryTrue, RecordTrue, Outcomes
    <3> QED BY <1>2, <1>6, <2>2, <3>2
  <2> QED BY <2>1, <2>2
<1>12. /\ env' \in {env, Version}
       /\ n \in MainNames /\ Ends(n, s) /\ s = "succeeded" => env' = Version
  BY ZenonT(60) DEF Intends, IntentFails, Ends
<1>13. MemoryTrue'
  <2>1. ASSUME NEW m \in MainNames, mem'.stages[m] = "succeeded" PROVE env' = Version
    <3>1. CASE m = n
      BY Zenon, <1>1, <1>12, <2>1, <3>1
    <3>2. CASE m # n
      BY Zenon, <1>0, <1>1, <1>12, <2>1, <3>2, NameFacts DEF MemoryTrue
    <3> QED BY <3>1, <3>2
  <2>2. (saved.result = "done" => saved.version \in JournalVersions)'
    BY ZenonT(60), <1>0 DEF MemoryTrue, Aside
  <2> QED BY SMTT(60), <1>1, <1>2, <1>10, <2>1, <2>2 DEF MemoryTrue
<1>14. RecordTrue'
  <2>1. ASSUME NEW v \in JournalVersions, NEW m \in Names, ran'[v][m] > 0
        PROVE  v < Version \/ (v = Version /\ disk'.stages[m] # "absent")
    <3>1. CASE ran[v][m] > 0
      <4>1. v < Version \/ (v = Version /\ disk.stages[m] # "absent")
        BY Zenon, <1>0, <1>1, <3>1 DEF RecordTrue
      <4>2. v = Version => ~(m = n /\ IntentFails(n))
        BY Zenon, <1>8, <3>1
      <4> QED BY <1>1, <1>3, <4>1, <4>2
    <3>2. CASE ~(ran[v][m] > 0)
      BY Zenon, <1>1, <1>5, <2>1, <3>2 DEF Intends, IntentFails
    <3> QED BY SMTT(60), <3>1, <3>2
  <2>2. \A v \in JournalVersions : \A t \in origin[v] :
          Version > v \/ (Version = v /\ disk'.started = t)
    BY Zenon, <1>0, <1>1 DEF RecordTrue
  <2>3. keysShown \subseteq {gitKey}
    BY ZenonT(60), <1>0 DEF RecordTrue
  <2> QED BY ZenonT(60), <1>1, <1>2, <1>11, <2>1, <2>2, <2>3 DEF RecordTrue, Aside, Outcomes, JournalVersions
<1>15. SuccessIsReal'
  <2>1. ASSUME saved.result = "done"
        PROVE  \E m \in MainNames : ended'[saved.version][m] = "succeeded"
    <3>1. PICK m \in MainNames : ended[saved.version][m] = "succeeded"
      BY Zenon, <1>0, <2>1 DEF SuccessIsReal
    <3>2. saved.version \in JournalVersions /\ m \in Names
      BY Zenon, <1>0, <2>1, NameFacts DEF MemoryTrue
    <3> QED BY <1>6, <1>7, <3>1, <3>2
  <2>2. ASSUME NEW m \in MainNames, disk'.stages[m] = "succeeded" PROVE env' = Version
    <3>1. CASE m = n
      BY Zenon, <1>1, <1>12, <2>2, <3>1
    <3>2. CASE m # n
      BY ZenonT(60), <1>0, <1>1, <1>12, <2>2, <3>2, NameFacts DEF MemoryTrue, SuccessIsReal
    <3> QED BY <3>1, <3>2
  <2> QED BY SMTT(60), <1>1, <2>1, <2>2 DEF SuccessIsReal, Aside
<1> QED BY <1>4, <1>9, <1>13, <1>14, <1>15 DEF Data

\* Steps that leave the record on the volume and the history alone, in a process
\* that goes on with its record, or that ends or begins.
LEMMA OtherData ==
    ASSUME JournalIInv, UNCHANGED <<disk, env, ran, ended, origin>>,
           keysShown' \subseteq {gitKey'}, gitKey' = NoKey => keysShown' = {},
           mem' \in {mem, disk, NoRecord},
           saved'.result = "done" =>
             /\ saved'.version \in JournalVersions
             /\ \E n \in MainNames : ended[saved'.version][n] = "succeeded"
    PROVE  Invoked' /\ MemoryTrue' /\ RecordTrue' /\ SuccessIsReal'
<1>0. Invoked /\ MemoryTrue /\ RecordTrue /\ SuccessIsReal
  BY Zenon DEF JournalIInv, Data
<1>1. Invoked'
  BY Zenon, <1>0 DEF Invoked
<1>2. RecordTrue' /\ SuccessIsReal'
  BY Zenon, <1>0 DEF RecordTrue, SuccessIsReal
<1>3. MemoryTrue'
  <2>1. CASE mem' = mem
    BY Zenon, <1>0, <2>1 DEF MemoryTrue
  <2>2. CASE mem' = disk
    BY Zenon, <1>0, <2>2 DEF MemoryTrue, RecordTrue, SuccessIsReal, Outcomes
  <2>3. CASE mem' = NoRecord
    BY Zenon, <1>0, <2>3, EmptyRecords, NameFacts DEF MemoryTrue, Outcomes
  <2> QED BY <2>1, <2>2, <2>3
<1> QED BY <1>1, <1>2, <1>3

\* BeginOperation keeps it too: a record that moves on is newer than all history.
LEMMA BeginData ==
    ASSUME JournalIInv, NEW t \in Times, BeginOperation(t)
    PROVE  Data'
<1>0. /\ JournalType /\ MemoryCovers /\ Progress /\ Invoked /\ MemoryTrue /\ RecordTrue
      /\ SuccessIsReal
  BY ZenonT(60) DEF JournalIInv, Data
<1>1. /\ pc = "begin" /\ Version \in JournalVersions /\ Version = rep.version
      /\ lastStarted = rep.version /\ stateDir = "record"
      /\ disk.version \in Int /\ mem.version \in Int /\ disk.version <= mem.version
      /\ mem \in Records /\ disk \in Records
      /\ UNCHANGED <<stateDir, env, gitKey, saved, rep, lastStarted, ran, ended, keysShown>>
  <2>1. pc = "begin" /\ UNCHANGED <<stateDir, env, gitKey, saved, rep, lastStarted, ran, ended,
                                    keysShown>>
    BY Zenon DEF BeginOperation
  <2>2. disk.version \in Int /\ mem.version \in Int /\ mem \in Records /\ disk \in Records
    BY <1>0 DEF JournalType, Records
  <2> QED BY <1>0, <2>1, <2>2, Executing DEF Progress, MemoryCovers
<1>2. CASE mem.version > Version /\ Finish(TRUE) /\ UNCHANGED <<disk, mem, origin>>
  <2>1. MemoryCovers' /\ Progress'
    BY ZenonT(60), <1>0, <1>1, <1>2 DEF MemoryCovers, Progress, Finish, Running
  <2>2. Invoked' /\ MemoryTrue'
    BY Zenon, <1>0, <1>1, <1>2 DEF Invoked, MemoryTrue
  <2>3. RecordTrue' /\ SuccessIsReal'
    BY Zenon, <1>0, <1>1, <1>2 DEF RecordTrue, SuccessIsReal
  <2> QED BY Zenon, <2>1, <2>2, <2>3 DEF Data
<1>3. CASE /\ mem.version = Version /\ pc' = "begun" /\ UNCHANGED <<disk, mem>>
           /\ origin' = [origin EXCEPT ![Version] = @ \cup {mem.started}]
  <2>1. disk.version = Version /\ disk.started = mem.started
    BY <1>0, <1>1, <1>3 DEF Progress, MemoryCovers
  <2>2. MemoryCovers' /\ Progress'
    BY ZenonT(60), <1>0, <1>1, <1>3, <2>1 DEF MemoryCovers, Progress, Running
  <2>3. Invoked' /\ MemoryTrue' /\ SuccessIsReal'
    BY Zenon, <1>0, <1>1, <1>3 DEF Invoked, MemoryTrue, SuccessIsReal
  <2>4. \A v \in JournalVersions : \A u \in origin'[v] :
          disk.version > v \/ (disk.version = v /\ disk.started = u)
    BY <1>0, <1>1, <1>3, <2>1 DEF RecordTrue, JournalType
  <2>5. RecordTrue'
    BY Zenon, <1>0, <1>1, <1>3, <2>4 DEF RecordTrue
  <2> QED BY SMTT(60), <2>2, <2>3, <2>5 DEF Data
<1> DEFINE fresh == [version |-> Version, started |-> t, stages |-> NoStages]
<1>4. CASE /\ Advances /\ mem' = fresh
           /\ \/ disk' = fresh /\ pc' = "begun"
                 /\ origin' = [origin EXCEPT ![Version] = @ \cup {t}]
              \/ disk' \in {disk, fresh} /\ pc' = "done" /\ UNCHANGED origin
  <2>1. /\ fresh.version = Version /\ fresh.started = t
        /\ \A n \in Names : fresh.stages[n] = "absent"
    BY Zenon, EmptyRecords
  <2> HIDE DEF fresh
  <2>2. disk.version < Version /\ mem.version < Version
    BY SMTT(60), <1>1, <1>4 DEF Advances, JournalVersions
  <2>3. MemoryCovers' /\ Progress'
    BY SMTT(60), <1>0, <1>1, <1>4, <2>1, <2>2 DEF MemoryCovers, Progress, Running, JournalVersions
  <2>4. Invoked' /\ MemoryTrue'
    BY <1>0, <1>1, <1>4, <2>1, NameFacts DEF Invoked, MemoryTrue, Outcomes
  <2>5. SuccessIsReal'
    BY Zenon, <1>0, <1>1, <1>4, <2>1, NameFacts DEF SuccessIsReal
  <2>6. RecordTrue'
    <3>1. CASE disk' = disk /\ origin' = origin
      BY ZenonT(60), <1>0, <1>1, <3>1 DEF RecordTrue
    <3>2. CASE disk' = fresh /\ origin' \in {origin, [origin EXCEPT ![Version] = @ \cup {t}]}
      <4>1. \A v \in JournalVersions, n \in Names : ran[v][n] > 0 => Version > v
        BY SMTT(60), <1>0, <1>1, <2>2 DEF RecordTrue, JournalVersions
      <4>2. \A v \in JournalVersions : \A u \in origin[v] : Version > v
        BY SMTT(60), <1>0, <1>1, <2>2 DEF RecordTrue, JournalVersions
      <4>3. \A v \in JournalVersions : \A u \in origin'[v] :
              Version > v \/ (Version = v /\ t = u)
        BY <1>0, <1>1, <3>2, <4>2 DEF JournalType
      <4> QED BY SMTT(60), <1>0, <1>1, <2>1, <3>2, <4>1, <4>3 DEF RecordTrue
    <3> QED BY <1>4, <3>1, <3>2
  <2> QED BY <2>3, <2>4, <2>5, <2>6 DEF Data
<1> QED BY Zenon, <1>2, <1>3, <1>4 DEF BeginOperation, SaveOK, SaveFails, Finish

\* Every step keeps what relates memory, volume and history.
LEMMA DataStep == JournalIInv /\ [JournalNext]_journalVars => Data'
<1> SUFFICES ASSUME JournalIInv, [JournalNext]_journalVars PROVE Data'
  OBVIOUS
<1>0. /\ JournalType /\ MemoryCovers /\ Progress /\ Invoked /\ MemoryTrue /\ RecordTrue
      /\ SuccessIsReal /\ Intended /\ Finished
  BY Zenon DEF JournalIInv, Data
<1>a. /\ keysShown \subseteq {gitKey} /\ (gitKey = NoKey => keysShown = {})
      /\ saved.result = "done" =>
           /\ saved.version \in JournalVersions
           /\ \E n \in MainNames : ended[saved.version][n] = "succeeded"
  BY ZenonT(60), <1>0 DEF RecordTrue, Invoked, MemoryTrue, SuccessIsReal
<1> USE DEF durable, process, history
<1>1. CASE UNCHANGED journalVars
  <2>1. MemoryCovers' /\ Progress'
    BY ZenonT(60), <1>0, <1>1 DEF MemoryCovers, Progress, journalVars
  <2> QED BY <1>a, <1>1, <2>1, OtherData DEF Data, journalVars
<1>2. CASE Crash
  <2>1. MemoryCovers' /\ Progress'
    BY ZenonT(60), <1>0, <1>2 DEF MemoryCovers, Progress, Crash, Down, Running
  <2> QED BY <1>a, <1>2, <2>1, OtherData DEF Data, Crash, Down
<1>3. ASSUME NEW p \in Pods, OpenJournal(p) PROVE Data'
  <2>1. MemoryCovers' /\ Progress'
    BY <1>0, <1>3 DEF MemoryCovers, Progress, OpenJournal, Opened, Running, JournalType,
        Records, Reports
  <2> QED BY SMTT(60), <1>a, <1>3, <2>1, OtherData DEF Data, OpenJournal, Opened
<1>4. ASSUME NEW p \in Pods, OpenBlankJournal(p) \/ OpenFails(p) PROVE Data'
  <2>1. disk = NoRecord /\ disk' = disk
    BY ZenonT(60), <1>0, <1>4 DEF MemoryCovers, OpenBlankJournal, OpenFails, SaveOK, SaveFails
  <2>2. CASE OpenBlankJournal(p)
    <3>1. MemoryCovers' /\ Progress'
      BY SMTT(60), <1>0, <2>1, <2>2, EmptyRecords
      DEF MemoryCovers, Progress, OpenBlankJournal, Opened, Running, JournalType, Reports
    <3> QED BY ZenonT(60), <1>a, <2>1, <2>2, <3>1, OtherData DEF Data, OpenBlankJournal, Opened
  <2>3. CASE OpenFails(p)
    <3>1. MemoryCovers' /\ Progress'
      BY ZenonT(60), <1>0, <2>1, <2>3 DEF MemoryCovers, Progress, OpenFails, Running
    <3> QED BY Zenon, <1>a, <2>1, <2>3, <3>1, OtherData DEF Data, OpenFails
  <2> QED BY <1>4, <2>2, <2>3
<1>5. ASSUME NEW v \in JournalVersions, AdoptOperation(v) PROVE Data'
  <2>1. MemoryCovers' /\ Progress'
    BY <1>0, <1>5 DEF MemoryCovers, Progress, AdoptOperation, Running, JournalType,
        Reports, JournalVersions
  <2> QED BY SMTT(60), <1>a, <1>5, <2>1, OtherData DEF Data, AdoptOperation
<1>6. CASE LoadKey
  <2>1. MemoryCovers' /\ Progress'
    BY Zenon, <1>0, <1>6 DEF MemoryCovers, Progress, LoadKey, Running, JournalType, Reports
  <2> QED BY <1>a, <1>6, <2>1, OtherData DEF Data, LoadKey
<1>7. ASSUME NEW k \in Keys, CreateKey(k) \/ KeyFails(k) PROVE Data'
  <2>1. k # NoKey /\ keysShown = {}
    BY Zenon, <1>a, <1>7, JournalConstants DEF CreateKey, KeyFails
  <2>2. CASE CreateKey(k)
    <3>1. MemoryCovers' /\ Progress'
      BY ZenonT(60), <1>0, <2>2 DEF MemoryCovers, Progress, CreateKey, Running, JournalType, Reports
    <3> QED BY <1>a, <2>1, <2>2, <3>1, OtherData DEF Data, CreateKey
  <2>3. CASE KeyFails(k)
    <3>1. MemoryCovers' /\ Progress'
      BY ZenonT(60), <1>0, <2>3 DEF MemoryCovers, Progress, KeyFails, Down, Running
    <3> QED BY <1>a, <2>1, <2>3, <3>1, OtherData DEF Data, KeyFails, Down
  <2> QED BY <1>7, <2>2, <2>3
<1>8. CASE StartExecution
  <2>1. MemoryCovers' /\ Progress'
    BY SMTT(60), <1>0, <1>8 DEF MemoryCovers, Progress, StartExecution, MayStart, Version, Running,
        JournalType, Reports, Records, JournalVersions
  <2> QED BY SMTT(60), <1>a, <1>8, <2>1, OtherData DEF Data, StartExecution
<1>9. CASE PrepareFails
  <2>1. MemoryCovers' /\ Progress'
    BY Zenon, <1>0, <1>9 DEF MemoryCovers, Progress, PrepareFails, Finish, Running, JournalType, Reports
  <2> QED BY Zenon, <1>a, <1>9, <2>1, OtherData DEF Data, PrepareFails
<1>10. ASSUME NEW t \in Times, BeginOperation(t) PROVE Data'
  BY ZenonT(60), <1>10, BeginData
<1>11. ASSUME Answers, Aside, pc \in Running, pc' \in {"stage", "done"} PROVE Data'
  <2>1. MemoryCovers' /\ Progress'
    BY ZenonT(60), <1>0, <1>11 DEF MemoryCovers, Progress, Answers, Aside, Running
  <2> QED BY Zenon, <1>a, <1>11, <2>1, OtherData DEF Data, Answers, Aside
<1>12. CASE RunOnce
  <2>1. pc = "begun" /\ Main \in Names
    BY Zenon, <1>0, <1>12, RunOnceDoes, Executing, NameFacts
  <2> QED BY Zenon, <1>11, <1>12, <2>1, RunOnceDoes, StageData DEF Running, Outcomes
<1>13. ASSUME NEW n \in StepNames, BeginStep(n) PROVE Data'
  BY Zenon, <1>11, <1>13, BeginStepDoes, StageData, NameFacts DEF Running, Outcomes
<1>14. ASSUME NEW s \in Outcomes, EndStep(s) PROVE Data'
  <2>1. pc = "step" /\ step \in Names /\ step \notin MainNames /\ Underway(step)
    BY ZenonT(60), <1>0, <1>14, NameFacts DEF EndStep, JournalType, Intended
  <2> QED BY <1>14, <2>1, EndStepDoes, StageData DEF Running
<1>15. ASSUME NEW s \in Outcomes, EndStage(s) PROVE Data'
  <2>1. pc = "stage" /\ Main \in Names /\ Underway(Main)
    BY ZenonT(60), <1>0, <1>15, EndStageDoes, Executing, NameFacts DEF Intended
  <2> QED BY <1>15, <2>1, EndStageDoes, StageData DEF Running
<1>16. ASSUME NEW r \in {"done", "failed"}, RecordResult(r) PROVE Data'
  <2> DEFINE report == [rep EXCEPT !.result = r]
  <2>1. report.version = rep.version /\ report.result = r /\ rep.version \in JournalVersions
    BY Zenon, <1>0, <1>16 DEF RecordResult, JournalType, Reports, Progress
  <2>2. ASSUME r = "done"
        PROVE  \E n \in MainNames : ended[report.version][n] = "succeeded"
    <3>1. mem.version = rep.version /\ mem.stages[Main] = "succeeded" /\ Main \in MainNames
      BY Zenon, <1>0, <1>16, <2>2, Executing DEF RecordResult, ResultOf, Finished
    <3>2. ended[rep.version][Main] = "succeeded"
      BY Zenon, <1>0, <3>1, NameFacts DEF MemoryTrue, Outcomes
    <3> QED BY <2>1, <3>1, <3>2
  <2>3. /\ saved' \in {saved, report}
        /\ UNCHANGED <<stateDir, disk, env, gitKey, ran, ended, origin, keysShown>>
    BY Zenon, <1>16 DEF RecordResult
  <2>4. mem' \in {mem, NoRecord}
    BY Zenon, <1>16 DEF RecordResult, Down
  <2>5. saved'.result = "done" =>
          /\ saved'.version \in JournalVersions
          /\ \E n \in MainNames : ended[saved'.version][n] = "succeeded"
    BY Zenon, <1>a, <2>1, <2>2, <2>3
  <2>6. \/ pc' = "down"
        \/ pc' = "idle" /\ mem' = mem /\ rep' = report /\ lastStarted' = lastStarted
    BY Zenon, <1>16 DEF RecordResult, Down
  <2> HIDE DEF report
  <2>7. MemoryCovers' /\ Progress'
    BY ZenonT(60), <1>0, <1>16, <2>1, <2>3, <2>6 DEF MemoryCovers, Progress, RecordResult, Running
  <2> QED BY <1>a, <2>3, <2>4, <2>5, <2>7, OtherData DEF Data
<1> QED
  BY ZenonT(60), <1>1, <1>2, <1>3, <1>4, <1>5, <1>6, <1>7, <1>8, <1>9, <1>10, <1>12, <1>13, <1>14,
     <1>15, <1>16 DEF JournalNext, Execution, Outcomes

\* Main names the same stage as long as the operation and the Pod are the same.
LEMMA MainStays == ASSUME Aside PROVE Main' = Main /\ Version' = Version
BY Zenon DEF Aside, Main, Version

\* runStage: an intent on the volume is under way, and the other one stays so.
LEMMA IntentUnderway ==
    ASSUME JournalIInv, pc \in Running, Aside, NEW n \in Names, Intends(n)
    PROVE  Underway(n)'
<1>0. JournalType /\ MemoryCovers /\ Progress /\ Invoked /\ RecordTrue
  BY Zenon DEF JournalIInv, Data
<1>1. Version \in JournalVersions /\ Version = rep.version /\ rep' = rep
  BY Zenon, <1>0, Executing DEF Running, Aside
<1>2. /\ mem.stages[n] = "absent" /\ disk.stages[n] = "absent" /\ disk.version = Version
      /\ mem'.stages[n] = "unknown" /\ disk'.stages[n] = "unknown"
  <2>1. "failed" \in Outcomes
    BY ZenonT(60) DEF Outcomes
  <2> QED BY Zenon, <1>0, <2>1, StageRecords DEF Intends
<1>3. ran[Version][n] = 0 /\ ended[Version][n] = "none"
  BY SMTT(60), <1>0, <1>1, <1>2 DEF Invoked, RecordTrue, JournalVersions
<1>4. ran'[Version][n] # 0 /\ ended' = ended
  BY <1>0, <1>1, <1>3 DEF Intends, JournalType
<1> QED BY Zenon, <1>1, <1>2, <1>3, <1>4 DEF Underway

\* runStage: recording one stage leaves the effect of another under way.
LEMMA UnderwayStays ==
    ASSUME JournalIInv, pc \in Running, Aside, NEW n \in Names, NEW s \in Outcomes,
           Answers \/ Intends(n) \/ IntentFails(n) \/ (Ends(n, s) /\ Underway(n)),
           NEW m \in Names, m # n, Underway(m)
    PROVE  Underway(m)'
<1>0. JournalType /\ MemoryCovers /\ Progress
  BY Zenon DEF JournalIInv, Data
<1>1. Version \in JournalVersions /\ Version = rep.version /\ rep' = rep
  BY Zenon, <1>0, Executing DEF Running, Aside
<1>2. CASE Answers
  BY ZenonT(60), <1>1, <1>2 DEF Answers, Underway
<1>3. CASE Intends(n) \/ IntentFails(n) \/ (Ends(n, s) /\ Underway(n))
  <2>1. mem'.stages[m] = "unknown" /\ disk'.stages[m] = "unknown"
    BY ZenonT(60), <1>0, <1>3, StageRecords DEF Underway
  <2>2. ran'[Version][m] = ran[Version][m] /\ ended'[Version][m] = ended[Version][m]
    BY <1>0, <1>1, <1>3 DEF JournalType, Intends, IntentFails, Ends
  <2> QED BY Zenon, <1>1, <2>1, <2>2 DEF Underway
<1> QED BY <1>2, <1>3

\* runStage: whatever effect is being executed is under way, after every step.
LEMMA IntendedStep == JournalIInv /\ [JournalNext]_journalVars => Intended'
<1> SUFFICES ASSUME JournalIInv, [JournalNext]_journalVars PROVE Intended'
  OBVIOUS
<1>0. JournalType /\ MemoryCovers /\ Progress /\ Intended
  BY Zenon DEF JournalIInv, Data
<1> USE DEF durable, process, history
<1>1. CASE UNCHANGED journalVars
  BY Zenon, <1>0, <1>1 DEF Intended, Underway, Main, Version, journalVars
<1>2. CASE pc' \notin {"stage", "step"}
  BY Zenon, <1>2 DEF Intended
<1>3. CASE RunOnce
  <2>1. Aside /\ pc = "begun" /\ Main \in Names /\ pc' # "step"
    BY ZenonT(60), <1>0, <1>3, RunOnceDoes, Executing, NameFacts
  <2>2. CASE Intends(Main)
    <3>1. PICK n \in Names : n = Main
      BY Zenon, <2>1
    <3>2. Underway(n)'
      BY ZenonT(60), <2>1, <2>2, <3>1, IntentUnderway DEF Running
    <3> QED BY <2>1, <3>1, <3>2, MainStays DEF Intended, Underway
  <2> QED BY <1>2, <1>3, <2>1, <2>2, RunOnceDoes
<1>4. ASSUME NEW n \in StepNames, BeginStep(n) PROVE Intended'
  <2>1. /\ Aside /\ pc = "stage" /\ Main \in Names /\ n \in Names /\ Main # n /\ Underway(Main)
        /\ Answers \/ Intends(n) \/ IntentFails(n)
    BY Zenon, <1>0, <1>4, BeginStepDoes, Executing, NameFacts DEF Intended
  <2>2. PICK m \in Names : m = Main
    BY Zenon, <2>1
  <2>3. Underway(m)'
    BY Zenon, <2>1, <2>2, UnderwayStays DEF Running, Outcomes
  <2>4. Underway(Main)'
    BY Zenon, <2>1, <2>2, <2>3, MainStays DEF Underway
  <2>5. pc' = "step" => step' = n /\ Intends(n)
    BY Zenon, <1>4, BeginStepDoes
  <2>6. pc' = "step" => Underway(n)'
    BY ZenonT(60), <2>1, <2>5, IntentUnderway DEF Running
  <2> QED BY <2>4, <2>5, <2>6 DEF Intended, Underway
<1>5. ASSUME NEW s \in Outcomes, EndStep(s) PROVE Intended'
  <2>1. /\ pc = "step" /\ step \in Names /\ step \notin MainNames
        /\ Main \in MainNames /\ Main \in Names /\ Underway(step) /\ Underway(Main)
    BY Zenon, <1>0, <1>5, Executing, NameFacts DEF EndStep, JournalType, Intended
  <2>2. Aside /\ Ends(step, s) /\ pc' = "stage"
    BY Zenon, <1>5, <2>1, EndStepDoes
  <2>3. PICK m \in Names, n \in Names : m = Main /\ n = step
    BY Zenon, <2>1
  <2>4. Underway(m)'
    BY Zenon, <2>1, <2>2, <2>3, UnderwayStays DEF Running
  <2> QED BY <2>2, <2>3, <2>4, MainStays DEF Intended, Underway
<1>6. pc' \in {"stage", "step"} =>
        \/ UNCHANGED journalVars \/ RunOnce
        \/ \E n \in StepNames : BeginStep(n)
        \/ \E s \in Outcomes : EndStep(s)
  BY ZenonT(60) DEF JournalNext, Execution, Outcomes, Crash, OpenJournal, OpenBlankJournal, OpenFails,
         Opened, AdoptOperation, LoadKey, CreateKey, KeyFails, StartExecution, PrepareFails,
         BeginOperation, EndStage, RecordResult, Finish, Down
<1> QED BY <1>1, <1>2, <1>3, <1>4, <1>5, <1>6

\* recordResult: an execution that ends without failure has its stage recorded as
\* succeeded, after every step.
LEMMA FinishedStep == JournalIInv /\ [JournalNext]_journalVars => Finished'
<1> SUFFICES ASSUME JournalIInv, [JournalNext]_journalVars, pc' = "done", ~failed'
             PROVE  mem'.version = rep'.version /\ (mem.stages[Main])' = "succeeded"
  BY Zenon DEF Finished
<1>0. JournalType /\ MemoryCovers /\ Progress /\ Intended /\ Finished
  BY Zenon DEF JournalIInv, Data
<1> USE DEF durable, process, history
<1>1. CASE UNCHANGED journalVars
  BY ZenonT(60), <1>0, <1>1 DEF Finished, Main, Version, journalVars
<1>2. CASE RunOnce
  <2>1. pc = "begun" /\ Aside /\ Answers /\ mem.stages[Main] = "succeeded"
    BY Zenon, <1>2, RunOnceDoes
  <2>2. mem.version = rep.version
    BY ZenonT(60), <1>0, <2>1 DEF Progress, Running
  <2> QED BY Zenon, <2>1, <2>2, MainStays DEF Answers, Aside
<1>3. ASSUME NEW s \in Outcomes, EndStage(s)
      PROVE  mem'.version = rep'.version /\ (mem.stages[Main])' = "succeeded"
  <2>1. pc = "stage" /\ Main \in Names /\ Underway(Main)
    BY Zenon, <1>0, <1>3, EndStageDoes, Executing, NameFacts DEF Intended
  <2>2. Aside /\ Ends(Main, s) /\ mem'.stages[Main] = "succeeded"
    BY Zenon, <1>3, EndStageDoes
  <2>3. mem'.version = Version /\ Version = rep.version
    BY Zenon, <1>0, <2>1, <2>2, StageRecords, Executing DEF Running
  <2> QED BY Zenon, <2>2, <2>3, MainStays DEF Aside
<1>4. UNCHANGED journalVars \/ RunOnce \/ \E s \in Outcomes : EndStage(s)
  BY Zenon DEF JournalNext, Execution, Outcomes, Crash, OpenJournal, OpenBlankJournal, OpenFails,
         Opened, AdoptOperation, LoadKey, CreateKey, KeyFails, StartExecution, PrepareFails,
         BeginOperation, BeginStep, EndStep, RecordResult, Finish, Down
<1> QED BY <1>1, <1>2, <1>3, <1>4

-----------------------------------------------------------------------------
\* OpenJournal to recordResult: the invariant holds whatever dies or fails.
THEOREM Inductive == JournalSpec => []JournalIInv
<1>1. JournalIInv /\ [JournalNext]_journalVars => JournalIInv'
  BY Zenon, TypeStep, DataStep, IntendedStep, FinishedStep DEF JournalIInv
<1> QED BY <1>1, JournalInitIInv, PTL DEF JournalSpec

\* runStage: for any operations, Pods, commands and faults, the effect of a stage
\* is invoked at most once for an operation version.
THEOREM RunsOnce == JournalSpec => []AtMostOnce
<1>1. JournalIInv => AtMostOnce
  BY DEF JournalIInv, Data, Invoked, AtMostOnce
<1> QED BY <1>1, Inductive, PTL

\* runStage, BeginOperation, GitSSHKey: every effect that was invoked has its
\* intent on the volume, outcomes and starts there are those others saw, and
\* there is only one key.
THEOREM RecordsAreTrue == JournalSpec => []RecordTrue
<1>1. JournalIInv => RecordTrue
  BY Zenon DEF JournalIInv, Data
<1> QED BY <1>1, Inductive, PTL

\* Executor.Apply, recordResult: a result DONE comes from an action that really
\* succeeded, and a success on the volume has its environment there.
THEOREM SuccessesAreReal == JournalSpec => []SuccessIsReal
<1>1. JournalIInv => SuccessIsReal
  BY Zenon DEF JournalIInv, Data
<1> QED BY <1>1, Inductive, PTL

-----------------------------------------------------------------------------
(***************************************************************************)
(* The access target: TargetIInv.                                          *)
(*                                                                         *)
(* A ticket is accepted by a Pod that serves the version it names. That    *)
(* the version then means what it meant when the ticket was signed takes   *)
(* the whole way it went: the Agent's targets of one operation have        *)
(* growing versions, a report carries a copy of the newest or of an        *)
(* earlier one, the Manager records only what is of its own operation, and *)
(* a ticket names what is recorded. So of one operation, equal versions    *)
(* are equal targets. Keys all come from the one seed that was stored      *)
(* first.                                                                  *)
(***************************************************************************)
(* One seed is ever stored, and every key in use comes from it.              *)
KeysAgree ==
  /\ seed \in Replicas \cup {Nobody} /\ DOMAIN signer = Replicas
  /\ \A m \in Replicas : signer[m] \in Replicas => signer[m] = seed
  /\ verifier # Nobody => verifier = seed /\ seed \in Replicas
  /\ \A t \in tickets : t.key = seed /\ seed \in Replicas

(* The newest target of the Pod: the one the Agent serves, or will.          *)
Latest == IF target # NoTarget THEN target ELSE built

(* What is no older copy of it is the target L itself.                       *)
CopyOf(L, x) ==
  \/ x = NoTarget
  \/ x.version \in Nat \ {0} /\ x.version <= L.version /\ (x.version = L.version => x = L)
LeadsAs(L, t) ==
  /\ t.version \in Nat \ {0} /\ t.version <= L.version
  /\ t.version = L.version => L.endpoints[t.endpoint] = t.named

(* Reports and tickets of this operation, and what the Manager records of    *)
(* it, are copies of the newest target or of one before it.                  *)
Circulating(L) ==
  /\ CopyOf(L, built) /\ CopyOf(L, target) /\ CopyOf(L, reported)
  /\ Startup(operation) => CopyOf(L, recorded)
  /\ \A r \in sent : r.operation = operation => CopyOf(L, r.target)
  /\ \A t \in tickets : t.pod = operation => LeadsAs(L, t)

(* None is of a later operation, or of a stop.                               *)
FromStartups ==
  /\ operation \in Nat /\ Latest.version \in Nat
  /\ \A r \in sent : r.operation \in Nat /\ r.operation <= operation /\ Startup(r.operation)
  /\ \A t \in tickets : t.pod \in Nat /\ t.pod <= operation /\ Startup(t.pod)

(* How far the startup is, and what there is by then.                        *)
Early3 == {"down", "apply", "configured"}
Stages ==
  /\ progress \in Early3 => built = NoTarget /\ target = NoTarget
  /\ progress \in {"built", "published"} => target = NoTarget
  /\ progress \notin Early3 => built # NoTarget
  /\ ~Startup(operation) => progress \in {"ready", "down"}
  /\ operation = 0 => progress = "down" /\ recorded = NoTarget

TargetIInv == KeysAgree /\ Circulating(Latest) /\ FromStartups /\ Stages

(* Keys are loaded from the one seed; a step that loads none leaves them.    *)
LEMMA KeysStay ==
  ASSUME KeysAgree, UNCHANGED <<seed, signer>>, tickets' \subseteq tickets,
         verifier' \in {verifier, Nobody} \/ \E m \in Signing : verifier' = signer[m]
  PROVE  KeysAgree'
BY Zenon, ReplicaNames DEF KeysAgree, Signing

\* loadOrCreateSigningKey: a replica finds the seed that is stored or stores the
\* first one.
LEMMA KeysLoaded ==
  ASSUME KeysAgree, NEW m \in Replicas, LookForKey(m) \/ CreateSigningKey(m)
  PROVE  KeysAgree'
<1>1. CASE LookForKey(m)
  <2>1. DOMAIN signer' = Replicas /\ UNCHANGED <<seed, verifier, tickets>>
    BY Zenon, <1>1 DEF LookForKey, KeysAgree
  <2>2. \A n \in Replicas : signer'[n] \in Replicas => signer'[n] = seed
    BY Zenon, <1>1, ReplicaNames DEF LookForKey, KeysAgree
  <2> QED
    BY <2>1, <2>2, Zenon DEF KeysAgree
<1>2. CASE CreateSigningKey(m)
  <2>1. /\ DOMAIN signer' = Replicas /\ UNCHANGED <<verifier, tickets>>
        /\ seed' \in Replicas /\ (seed # Nobody => seed' = seed) /\ signer'[m] = seed'
        /\ \A n \in Replicas : n # m => signer'[n] = signer[n]
    BY Zenon, <1>2 DEF CreateSigningKey, LoadedSeed, KeysAgree
  <2>2. \A n \in Replicas : signer'[n] \in Replicas => signer'[n] = seed'
    BY Zenon, <2>1, ReplicaNames DEF KeysAgree
  <2> QED
    BY Zenon, <2>1, <2>2, ReplicaNames DEF KeysAgree
<1> QED
  BY Zenon, <1>1, <1>2

(* Copies are passed on while the newest target stays: into the report, from *)
(* there to the Manager and into its record.                                 *)
LEMMA PassedOn ==
  ASSUME Circulating(Latest), FromStartups, UNCHANGED <<operation, built, target, tickets>>,
         reported' \in {reported, built, target},
         \/ recorded' \in {recorded, NoTarget}
         \/ \E q \in sent : q.operation = operation /\ recorded' = q.target,
         \A r \in sent' : \/ \E q \in sent : r.operation = q.operation /\ r.target = q.target
                          \/ r.operation = operation /\ r.target = reported /\ Startup(operation)
  PROVE  Circulating(Latest)' /\ FromStartups'
<1> DEFINE L == Latest
<1>1. Latest' = L
  BY ZenonT(60) DEF Latest
<1>2. \A r \in sent' : /\ r.operation = operation => CopyOf(L, r.target)
                      /\ r.operation \in Nat /\ r.operation <= operation /\ Startup(r.operation)
  BY DEF Circulating, FromStartups
<1>3. CopyOf(L, NoTarget)
  BY Zenon DEF CopyOf
<1>4. Startup(operation) => CopyOf(L, recorded')
  BY <1>3, Zenon DEF Circulating
<1>5. CopyOf(L, reported')
  BY Zenon DEF Circulating
<1> HIDE DEF L
<1>6. Circulating(L)'
  BY <1>1, <1>2, <1>4, <1>5, Zenon DEF Circulating, L, CopyOf, LeadsAs
<1>7. FromStartups'
  BY <1>1, <1>2, ZenonT(60) DEF FromStartups, L
<1> QED
  BY Zenon, <1>6, <1>7 DEF L

(* A copy of a target, or of one before it, is older than the next.          *)
LEMMA NextIsNewer ==
  ASSUME NEW L, L.version \in Nat, NEW N, N.version = L.version + 1, NEW x
  PROVE  /\ CopyOf(L, x) => CopyOf(N, x)
         /\ LeadsAs(L, x) => LeadsAs(N, x)
BY DEF CopyOf, LeadsAs

(* A target that was built or updated has a version.                         *)
LEMMA TargetMade ==
  ASSUME NEW v \in Nat, NEW ids, NEW containers
  PROVE  /\ accessTargetForContainer(v, ids, containers).version = v
         /\ v # 0 => accessTargetForContainer(v, ids, containers) # NoTarget
BY Zenon DEF accessTargetForContainer, NoTarget

(* The endpoint service: a published target gets a new version, a startup    *)
(* that has published none goes on as before.                                *)
LEMMA EndpointStep ==
  ASSUME TargetIInv, NEW ids, updateTargetEndpoints(ids),
         UNCHANGED <<operation, recorded, progress, built, reported, sent, seed, signer, verifier, tickets>>
  PROVE  TargetIInv'
<1>0. KeysAgree'
  BY Zenon, KeysStay DEF TargetIInv
<1>1. CASE target = NoTarget
  <2>1. target' = target
    BY Zenon, <1>1 DEF updateTargetEndpoints
  <2>2. Circulating(Latest)' /\ FromStartups'
    BY <2>1, PassedOn, Zenon DEF TargetIInv
  <2>3. Stages'
    BY <2>1, Zenon DEF TargetIInv, Stages
  <2> QED
    BY <1>0, <2>2, <2>3, Zenon DEF TargetIInv
<1>2. CASE target # NoTarget
  <2> DEFINE L == Latest
             N == accessTargetForContainer(target.version + 1, ids, target.endpoints)
  <2>1. L = target /\ L.version \in Nat /\ target' = N
    BY Zenon, <1>2 DEF Latest, updateTargetEndpoints, TargetIInv, FromStartups
  <2>2. N.version = L.version + 1 /\ N # NoTarget /\ N.version \in Nat \ {0}
    BY <2>1, TargetMade
  <2>3. Latest' = N
    BY <2>1, <2>2, Zenon DEF Latest
  <2>4. Circulating(L)
    BY Zenon DEF TargetIInv
  <2> HIDE DEF L, N
  <2>5. CopyOf(N, N)
    BY <2>2 DEF CopyOf
  <2>6. /\ CopyOf(N, built) /\ CopyOf(N, reported) /\ (Startup(operation) => CopyOf(N, recorded))
        /\ \A r \in sent : r.operation = operation => CopyOf(N, r.target)
        /\ \A t \in tickets : t.pod = operation => LeadsAs(N, t)
    BY Zenon, <2>1, <2>2, <2>4, NextIsNewer DEF Circulating
  <2>7. Circulating(Latest)'
    BY <2>1, <2>3, <2>5, <2>6, Zenon DEF Circulating, CopyOf, LeadsAs
  <2>8. FromStartups'
    BY <2>2, <2>3, Zenon DEF TargetIInv, FromStartups
  <2>9. Stages'
    BY <1>2, <2>1, <2>2, Zenon DEF TargetIInv, Stages
  <2> QED
    BY <1>0, <2>7, <2>8, <2>9, Zenon DEF TargetIInv
<1> QED
  BY Zenon, <1>1, <1>2

(* Nothing of this operation is under way when its target is built.          *)
LEMMA BuildStep ==
  ASSUME TargetIInv, accessTarget
  PROVE  TargetIInv'
<1> DEFINE N == accessTargetForContainer(operation, declared, ConfiguredContainers)
<1>1. /\ progress = "configured" /\ progress' = "built" /\ built' = N
      /\ UNCHANGED <<operation, recorded, target, reported, sent, seed, signer, verifier, tickets>>
  BY Zenon DEF accessTarget
<1>2. target = NoTarget /\ Latest = NoTarget /\ operation \in Nat \ {0} /\ Startup(operation)
  BY Zenon, <1>1 DEF TargetIInv, Stages, Early3, FromStartups, Latest
<1>3. N.version = operation /\ N # NoTarget
  BY Zenon, <1>2, TargetMade
<1>4. Latest' = N
  BY <1>1, <1>2, Zenon DEF Latest
<1> HIDE DEF N
<1>5. CopyOf(N, N) /\ CopyOf(N, NoTarget)
  BY SMTT(60), <1>2, <1>3 DEF CopyOf
<1>6. \A x : CopyOf(NoTarget, x) => x = NoTarget
  BY DEF CopyOf, NoTarget
<1>7. \A t : ~LeadsAs(NoTarget, t)
  BY DEF LeadsAs, NoTarget
<1>8. /\ CopyOf(N, reported) /\ CopyOf(N, recorded)
      /\ \A r \in sent : r.operation = operation => CopyOf(N, r.target)
      /\ \A t \in tickets : t.pod # operation
  BY <1>2, <1>5, <1>6, <1>7, Zenon DEF TargetIInv, Circulating
<1>9. Circulating(Latest)'
  BY <1>1, <1>2, <1>4, <1>5, <1>8, Zenon DEF Circulating, CopyOf
<1>10. FromStartups'
  BY Zenon, <1>1, <1>2, <1>3, <1>4 DEF TargetIInv, FromStartups
<1>11. Stages'
  BY Zenon, <1>1, <1>2, <1>3 DEF TargetIInv, Stages, Early3
<1>12. KeysAgree'
  BY Zenon, <1>1, KeysStay DEF TargetIInv
<1> QED
  BY <1>9, <1>10, <1>11, <1>12, Zenon DEF TargetIInv

\* setAccessState: the Agent serves what was built.
LEMMA SetAccessStep ==
  ASSUME TargetIInv, setAccessState
  PROVE  TargetIInv'
<1>1. /\ progress = "published" /\ progress' = "set" /\ target' = built
      /\ UNCHANGED <<operation, recorded, built, reported, sent, seed, signer, verifier, tickets>>
  BY Zenon DEF setAccessState
<1>2. target = NoTarget /\ built # NoTarget /\ Latest = built /\ Latest' = built
  BY Zenon, <1>1 DEF TargetIInv, Stages, Early3, Latest
<1>3. Circulating(built)
  BY <1>2, Zenon DEF TargetIInv
<1>4. Circulating(built)'
  BY <1>1, <1>3, Zenon DEF Circulating, CopyOf, LeadsAs
<1>5. FromStartups'
  BY <1>1, <1>2, Zenon DEF TargetIInv, FromStartups
<1>6. Stages'
  BY Zenon, <1>1, <1>2 DEF TargetIInv, Stages, Early3
<1>7. KeysAgree'
  BY Zenon, <1>1, KeysStay DEF TargetIInv
<1>8. Circulating(Latest)'
  BY <1>1, <1>2, <1>4, Zenon
<1> QED
  BY <1>5, <1>6, <1>7, <1>8, Zenon DEF TargetIInv

(* The startup up to its target, and the reports.                            *)
LEMMA ReportStep ==
  ASSUME TargetIInv,
         \/ Execute \/ replaceConfiguredEndpoints \/ Publish \/ TargetChanged \/ SendReport
         \/ GiveUpReport \/ StopConfirmed \/ \E r \in sent : applyAgentReport(r)
  PROVE  TargetIInv'
<1>1. UNCHANGED <<operation, built, target, tickets, seed, signer>>
  BY Zenon DEF Execute, replaceConfiguredEndpoints, Publish, TargetChanged, SendReport, GiveUpReport,
     StopConfirmed, applyAgentReport
<1>2. reported' \in {reported, built, target}
  BY Zenon DEF Execute, replaceConfiguredEndpoints, Publish, TargetChanged, SendReport, GiveUpReport,
     StopConfirmed, applyAgentReport
<1>3. \/ recorded' \in {recorded, NoTarget}
      \/ \E q \in sent : q.operation = operation /\ recorded' = q.target
  BY Zenon DEF Execute, replaceConfiguredEndpoints, Publish, TargetChanged, SendReport, GiveUpReport,
     StopConfirmed, applyAgentReport, Acceptable, OfThisOperation
<1>4. \A r \in sent' : \/ \E q \in sent : r.operation = q.operation /\ r.target = q.target
                       \/ r.operation = operation /\ r.target = reported /\ Startup(operation)
  <2>1. CASE sent' \subseteq sent
    BY ZenonT(60), <2>1
  <2>2. CASE SendReport
    BY SMTT(60), <2>2 DEF SendReport
  <2>3. CASE GiveUpReport
    BY <2>3 DEF GiveUpReport, GivenUp
  <2> QED
    BY Zenon, <2>1, <2>2, <2>3 DEF Execute, replaceConfiguredEndpoints, Publish, TargetChanged,
       StopConfirmed, applyAgentReport
<1>5. Circulating(Latest)' /\ FromStartups'
  BY Zenon, <1>1, <1>2, <1>3, <1>4, PassedOn DEF TargetIInv
<1>6. verifier' = verifier \/ \E m \in Signing : verifier' = signer[m]
  BY Zenon DEF Execute, replaceConfiguredEndpoints, Publish, TargetChanged, SendReport, GiveUpReport,
     StopConfirmed, applyAgentReport
<1>7. KeysAgree'
  BY Zenon, <1>1, <1>6, KeysStay DEF TargetIInv
<1>8. Stages'
  <2>1. CASE progress' = progress
    <3>1. operation = 0 => recorded' = NoTarget
      <4>1. operation = 0 => ~Startup(operation)
        BY DEF Startup
      <4>2. recorded' \in {recorded, NoTarget} \/ Startup(operation)
        BY Zenon DEF Execute, replaceConfiguredEndpoints, Publish, TargetChanged, SendReport,
           GiveUpReport, StopConfirmed, applyAgentReport, Acceptable
      <4> QED
        BY Zenon, <4>1, <4>2 DEF TargetIInv, Stages
    <3> QED
      BY <1>1, <2>1, <3>1, ZenonT(60) DEF TargetIInv, Stages
  <2>2. CASE Execute
    BY <1>1, <2>2 DEF Execute, TargetIInv, Stages, Early3, Startup
  <2>3. CASE replaceConfiguredEndpoints
    BY Zenon, <1>1, <2>3 DEF replaceConfiguredEndpoints, TargetIInv, Stages, Early3
  <2>4. CASE Publish
    BY Zenon, <1>1, <2>4 DEF Publish, TargetIInv, Stages, Early3
  <2> QED
    BY <2>1, <2>2, <2>3, <2>4, Zenon DEF TargetChanged, SendReport, GiveUpReport, StopConfirmed, applyAgentReport
<1> QED
  BY <1>5, <1>7, <1>8, Zenon DEF TargetIInv

(* A new operation finds nothing of its own.                                 *)
LEMMA OperateStep ==
  ASSUME TargetIInv, GiteaOperates
  PROVE  TargetIInv'
<1>1. /\ operation' = operation + 1
      /\ UNCHANGED <<recorded, progress, built, target, reported, sent, seed, signer, verifier, tickets>>
  BY Zenon DEF GiteaOperates
<1>2. operation \in Nat /\ operation' \in Nat \ {0} /\ Latest' = Latest
  BY <1>1 DEF TargetIInv, FromStartups, Latest
<1>3. (\A r \in sent : r.operation # operation') /\ (\A t \in tickets : t.pod # operation')
  BY SMTT(60), <1>1 DEF TargetIInv, FromStartups
<1>4. Startup(operation) \/ recorded = NoTarget
  BY <1>2 DEF GiteaOperates, TargetIInv, Stages
<1>5. CopyOf(Latest, recorded)
  BY <1>4, Zenon DEF TargetIInv, Circulating, CopyOf
<1>6. Circulating(Latest)'
  BY <1>1, <1>2, <1>3, <1>5, Zenon DEF TargetIInv, Circulating, CopyOf, LeadsAs
<1>7. FromStartups'
  <2>1. \A n \in Nat : n <= operation => n <= operation'
    BY <1>1, <1>2
  <2> QED
    BY <1>1, <1>2, <2>1, Zenon DEF TargetIInv, FromStartups
<1>8. progress \in {"ready", "down"}
  BY Zenon, <1>2 DEF GiteaOperates, TargetIInv, Stages
<1>9. Stages'
  BY Zenon, <1>1, <1>2, <1>8 DEF TargetIInv, Stages
<1>10. KeysAgree'
  BY Zenon, <1>1, KeysStay DEF TargetIInv
<1> QED
  BY <1>6, <1>7, <1>9, <1>10, Zenon DEF TargetIInv

\* PodEnds: what is left of the Pod is of an operation before the next.
LEMMA PodEndsStep ==
  ASSUME TargetIInv, PodEnds
  PROVE  TargetIInv'
<1>1. /\ ~Startup(operation) /\ progress' = "down" /\ built' = NoTarget /\ target' = NoTarget
      /\ reported' = NoTarget /\ verifier' = Nobody /\ sent' = GivenUp
      /\ UNCHANGED <<operation, recorded, seed, signer, tickets>>
  BY Zenon DEF PodEnds
<1>2. Latest' = NoTarget /\ CopyOf(NoTarget, NoTarget)
  BY <1>1, ZenonT(60) DEF Latest, CopyOf
<1>3. \A r \in sent' : \E q \in sent : r.operation = q.operation
  BY <1>1 DEF GivenUp
<1>4. (\A r \in sent' : r.operation # operation) /\ (\A t \in tickets : t.pod # operation)
  BY <1>1, <1>3, Zenon DEF TargetIInv, FromStartups
<1>5. Circulating(Latest)'
  BY <1>1, <1>2, <1>4, Zenon DEF Circulating, CopyOf, LeadsAs
<1>6. NoTarget.version \in Nat
  BY Zenon DEF NoTarget
<1>7. FromStartups'
  BY <1>1, <1>2, <1>3, <1>6, Zenon DEF TargetIInv, FromStartups
<1>8. Stages'
  BY Zenon, <1>1 DEF TargetIInv, Stages, Early3
<1>9. KeysAgree'
  BY Zenon, <1>1, KeysStay DEF TargetIInv
<1> QED
  BY <1>5, <1>7, <1>8, <1>9, Zenon DEF TargetIInv

(* A ticket is signed for what the record says, which is a copy.             *)
LEMMA IssueStep ==
  ASSUME TargetIInv, NEW m \in Replicas, NEW id, IssueAgentAccess(m, id)
  PROVE  TargetIInv'
<1> DEFINE new == [pod |-> operation, version |-> recorded.version, endpoint |-> id,
                   key |-> signer[m], named |-> recorded.endpoints[id]]
<1>1. /\ m \in Signing /\ Startup(operation) /\ recorded # NoTarget /\ tickets' = {new}
      /\ UNCHANGED <<operation, recorded, progress, built, target, reported, sent, seed, signer, verifier>>
  BY Zenon DEF IssueAgentAccess, Routed
<1>2. CopyOf(Latest, recorded) /\ Latest' = Latest
  BY <1>1, Zenon DEF TargetIInv, Circulating, Latest
<1>3. LeadsAs(Latest, new)
  BY Zenon, <1>1, <1>2 DEF CopyOf, LeadsAs
<1>4. new.pod = operation /\ new.key = seed /\ seed \in Replicas
  BY Zenon, <1>1 DEF TargetIInv, KeysAgree, Signing
<1> HIDE DEF new
<1>5. Circulating(Latest)'
  BY <1>1, <1>2, <1>3, ZenonT(60) DEF TargetIInv, Circulating, CopyOf, LeadsAs
<1>6. FromStartups'
  BY <1>1, <1>2, <1>4 DEF TargetIInv, FromStartups
<1>7. Stages'
  BY <1>1, Zenon DEF TargetIInv, Stages
<1>8. KeysAgree'
  BY <1>1, <1>4, Zenon DEF TargetIInv, KeysAgree
<1> QED
  BY <1>5, <1>6, <1>7, <1>8, Zenon DEF TargetIInv

(* The keys, a ticket that expires, and steps that change nothing here.      *)
LEMMA KeyStep ==
  ASSUME TargetIInv, TicketExpires \/ UNCHANGED targetVars
                     \/ \E m \in Replicas : LookForKey(m) \/ CreateSigningKey(m)
  PROVE  TargetIInv'
<1>1. UNCHANGED <<operation, recorded, progress, built, target, reported, sent>> /\ tickets' \subseteq tickets
  BY Zenon DEF TicketExpires, LookForKey, CreateSigningKey, targetVars
<1>2. Latest' = Latest
  BY <1>1, Zenon DEF Latest
<1>3. Circulating(Latest)'
  BY <1>1, <1>2, Zenon DEF TargetIInv, Circulating, CopyOf, LeadsAs
<1>4. FromStartups'
  BY <1>1, <1>2, Zenon DEF TargetIInv, FromStartups
<1>5. Stages'
  BY <1>1, Zenon DEF TargetIInv, Stages
<1>6. CASE \E m \in Replicas : LookForKey(m) \/ CreateSigningKey(m)
  BY <1>6, <1>3, <1>4, <1>5, KeysLoaded, Zenon DEF TargetIInv
<1>7. CASE TicketExpires \/ UNCHANGED targetVars
  <2>1. UNCHANGED <<seed, signer, verifier>>
    BY <1>7, Zenon DEF TicketExpires, targetVars
  <2>2. KeysAgree'
    BY Zenon, <1>1, <2>1, KeysStay DEF TargetIInv
  <2> QED
    BY <1>3, <1>4, <1>5, <2>2, Zenon DEF TargetIInv
<1> QED
  BY Zenon, <1>6, <1>7

\* No operation, no key and no ticket.
LEMMA TargetInitIInv == TargetInit => TargetIInv
<1> SUFFICES ASSUME TargetInit PROVE TargetIInv
    OBVIOUS
<1>1. Latest = NoTarget /\ NoTarget.version = 0
  BY Zenon DEF TargetInit, Latest, NoTarget
<1>2. KeysAgree
  BY Zenon, ReplicaNames DEF TargetInit, KeysAgree
<1>3. Circulating(Latest)
  BY Zenon DEF TargetInit, Circulating, CopyOf
<1>4. FromStartups
  BY <1>1 DEF TargetInit, FromStartups
<1>5. Stages
  BY Zenon DEF TargetInit, Stages, Early3
<1> QED
  BY Zenon, <1>2, <1>3, <1>4, <1>5 DEF TargetIInv

\* Every step of Gitea, the Manager and the Agent keeps the invariant.
LEMMA TargetStep == TargetIInv /\ [TargetNext]_targetVars => TargetIInv'
<1> SUFFICES ASSUME TargetIInv, [TargetNext]_targetVars PROVE TargetIInv'
    OBVIOUS
<1>1. ASSUME NEW id \in Ids, setEndpoint(id) \/ deleteEndpoint(id)
      PROVE  TargetIInv'
  <2>1. /\ \E ids : updateTargetEndpoints(ids)
        /\ UNCHANGED <<operation, recorded, progress, built, reported, sent, seed, signer, verifier, tickets>>
    BY <1>1, Zenon DEF setEndpoint, deleteEndpoint, ServesEndpoints
  <2> QED
    BY <2>1, EndpointStep, Zenon
<1> QED
  BY <1>1, KeyStep, ReportStep, BuildStep, SetAccessStep, OperateStep, PodEndsStep, IssueStep, Zenon DEF TargetNext

\* The invariant always holds.
LEMMA TargetInvariance == TargetSpec => []TargetIInv
BY TargetInitIInv, TargetStep, PTL DEF TargetSpec

\* authorize, updateTargetEndpoints, applyAgentReport: for any number of Manager
\* replicas, endpoints and operations, a ticket the Agent accepts leads to the
\* container the record named when it was signed, and one signed by any replica is
\* verified wherever a key is loaded.
THEOREM TicketsLead == TargetSpec => []TicketLeadsWhereNamed
<1>1. TargetIInv => TicketLeadsWhereNamed
  <2> SUFFICES ASSUME TargetIInv, NEW t \in tickets
               PROVE  /\ verifier # Nobody => Verified(t)
                      /\ authorize(t) => target.endpoints[t.endpoint] = t.named
      BY Zenon DEF TicketLeadsWhereNamed
  <2>1. verifier # Nobody => Verified(t)
    BY Zenon DEF TargetIInv, KeysAgree, Verified
  <2>2. authorize(t) => target.endpoints[t.endpoint] = t.named
    BY ZenonT(60) DEF TargetIInv, Circulating, LeadsAs, Latest, authorize, ThisPod
  <2> QED
    BY Zenon, <2>1, <2>2
<1> QED
  BY <1>1, TargetInvariance, PTL

-----------------------------------------------------------------------------
(***************************************************************************)
(* The data volume: VolumeIInv.                                            *)
(*                                                                         *)
(* A data volume is formatted at most once and never when it holds data,   *)
(* for any number of operations and any number of faults. The invariant is *)
(* Prepared with the types. It takes the outstanding calls into account: a *)
(* late confirmation may be saved at any time, so it may be under way only *)
(* when the file system is complete; a late request to format may use up   *)
(* the permission, so a format under way implies that it was saved.        *)
(***************************************************************************)
VolumeIInv == TypeOK /\ Prepared

USE VolumeInitConstants DEF VolumeInitConstants, vars, manager, volume

\* A new volume: nothing was permitted, formatted or asked.
LEMMA VolumeInitIInv == Init => VolumeIInv
BY DEF Init, VolumeIInv, TypeOK, Prepared, Versions, Devices, Phases, Calls

\* Abandoned calls are calls that nobody awaits, otherwise as they were.
LEMMA AbandonedCalls ==
    ASSUME TypeOK
    PROVE  /\ Abandoned \in SUBSET Calls
           /\ \A c \in Abandoned : c.caller = "gone"
           /\ \A c \in Abandoned : \E d \in calls : c.asks = d.asks
BY DEF TypeOK, Abandoned, Calls

\* A call that is made, or that has read the resource, is a call.
LEMMA CallTypes ==
    ASSUME TypeOK
    PROVE  /\ \A a \in {"format", "confirm"} : pod # 0 => Call(a) \in SUBSET Calls
           /\ \A c \in calls, v \in Versions : [c EXCEPT !.read = v] \in Calls
BY DEF TypeOK, Call, Calls, Versions

\* Every step of MountDataVolume and PrepareVolume keeps the types.
LEMMA VolumeTypeStep == VolumeIInv /\ [Next]_vars => TypeOK'
<1> SUFFICES ASSUME VolumeIInv, [Next]_vars PROVE TypeOK'
  BY Zenon
<1> USE DEF VolumeIInv
<1>1. CASE StartPod
  BY SMTT(60), <1>1 DEF StartPod, TypeOK, Versions
<1>2. CASE NextOperation
  BY SMTT(60), <1>2 DEF NextOperation, TypeOK, Versions
<1>3. CASE StopPod
  BY SMTT(60), <1>3, AbandonedCalls DEF StopPod, Left, TypeOK, Devices, Phases
<1>4. CASE Authority
  <2>1. open' \in SUBSET {"lease", "recovery", "disabled"}
    BY Zenon, <1>4 DEF Authority, TypeOK
  <2> QED
    BY <1>4, <2>1 DEF Authority, Fault, TypeOK
<1>5. CASE StartAgent
  BY Zenon, <1>5 DEF StartAgent, TypeOK, Phases
<1>6. CASE Probe
  <2>1. Call("format") \in SUBSET Calls
    BY Zenon, <1>6, CallTypes DEF Probe, Prepared
  <2> QED
    BY Zenon, <1>6, <2>1 DEF Probe, TypeOK, Phases
<1>7. CASE BeginFormat \/ EndFormat
  <2>1. formats' \in Nat
    BY <1>7 DEF BeginFormat, EndFormat, TypeOK
  <2> QED
    BY ZenonT(60), <1>7, <2>1 DEF BeginFormat, EndFormat, TypeOK, Phases, Devices
<1>8. CASE Check
  BY Zenon, <1>8, CallTypes DEF Check, TypeOK, Prepared, Phases, Devices
<1>9. CASE Use
  BY ZenonT(60), <1>9 DEF Use, TypeOK
<1>10. CASE Exit
  BY SMTT(60), <1>10, AbandonedCalls DEF Exit, Fault, Left, TypeOK, Devices, Phases
<1>11. CASE Damage
  BY <1>11 DEF Damage, Fault, TypeOK, Devices
<1>12. ASSUME NEW c \in calls, ReadResource(c) PROVE TypeOK'
  BY <1>12, CallTypes DEF ReadResource, Answer, TypeOK, Phases
<1>13. ASSUME NEW c \in calls, UpdateStatus(c) PROVE TypeOK'
  BY Zenon, <1>13 DEF UpdateStatus, Answer, TypeOK, Phases
<1>14. CASE UNCHANGED vars
  BY ZenonT(60), <1>14 DEF TypeOK
<1> QED
  BY ZenonT(60), <1>1, <1>2, <1>3, <1>4, <1>5, <1>6, <1>7, <1>8, <1>9, <1>10, <1>11, <1>12,
     <1>13, <1>14 DEF Next

\* A refused call disturbs nothing: its caller gives up.
LEMMA AnswerStep ==
    ASSUME VolumeIInv, NEW c \in calls, Answer(c, FALSE),
           UNCHANGED <<manager, init, volume, formats>>
    PROVE  Prepared'
<1>1. /\ calls' = calls \ {c} /\ agent' \in {agent, "down"}
      /\ c.caller # "gone" => agent' = "down"
      /\ c.caller = "gone" => agent' = agent
  BY Zenon DEF Answer
<1>2. c.caller \in {"waiting", "gone"}
  BY Zenon DEF VolumeIInv, TypeOK, Calls
<1> QED
  BY <1>1, <1>2 DEF VolumeIInv, Prepared, TypeOK

\* Every step keeps permissions used up once saved and confirmations true.
LEMMA PreparedStep == VolumeIInv /\ [Next]_vars => Prepared'
<1> SUFFICES ASSUME VolumeIInv, [Next]_vars PROVE Prepared'
  OBVIOUS
<1> USE DEF VolumeIInv
<1>1. CASE StartPod \/ NextOperation \/ Authority
  BY ZenonT(60), <1>1 DEF StartPod, NextOperation, Authority, Prepared, TypeOK, Versions
<1>3. CASE StopPod
  BY <1>3, AbandonedCalls DEF StopPod, Left, Prepared, TypeOK
<1>5. CASE StartAgent
  BY Zenon, <1>5 DEF StartAgent, Prepared
<1>6. CASE Probe
  BY SMTT(60), <1>6 DEF Probe, ProbeResults, Call, Prepared, TypeOK, Devices
<1>7. CASE BeginFormat
  BY <1>7 DEF BeginFormat, Prepared, TypeOK
<1>8. CASE EndFormat
  BY ZenonT(60), <1>8 DEF EndFormat, Prepared, TypeOK
<1>9. CASE Check
  BY <1>9 DEF Check, Call, Prepared, TypeOK, Devices
<1>10. CASE Use
  BY ZenonT(60), <1>10 DEF Use, Prepared
<1>11. CASE Exit
  BY <1>11, AbandonedCalls DEF Exit, Left, Prepared, TypeOK
<1>12. CASE Damage
  BY Zenon, <1>12 DEF Damage, Prepared, TypeOK
<1>13. ASSUME NEW c \in calls, ReadResource(c) PROVE Prepared'
  <2> DEFINE d == [c EXCEPT !.read = op.version]
  <2>1. CASE Answer(c, FALSE)
    BY Zenon, <1>13, <2>1, AnswerStep DEF ReadResource
  <2>2. CASE calls' = (calls \ {c}) \cup {d} /\ UNCHANGED agent
    <3>1. d.asks = c.asks /\ d.caller = c.caller
      BY Zenon DEF TypeOK, Calls
    <3> HIDE DEF d
    <3> QED
      BY <1>13, <2>2, <3>1 DEF ReadResource, Prepared, TypeOK
  <2> QED
    BY Zenon, <1>13, <2>1, <2>2 DEF ReadResource
<1>14. ASSUME NEW c \in calls, UpdateStatus(c) PROVE Prepared'
  <2> DEFINE ok == /\ Current(c) /\ op.version = c.read
                   /\ c.asks = "confirm" \/ FirstFormat
  <2>1. CASE ok /\ c.asks = "confirm"
    <3>1. /\ init' = "ready" /\ calls' = calls \ {c}
          /\ agent' = IF c.caller = "gone" THEN agent ELSE "mounted"
      BY Zenon, <1>14, <2>1 DEF UpdateStatus, Answer
    <3>2. device \in {"ext4", "damaged"}
      BY Zenon, <2>1 DEF Prepared
    <3>3. c.caller # "gone" => agent = "confirm"
      BY Zenon, <2>1 DEF Prepared, TypeOK, Calls
    <3>4. agent \notin {"format", "formatting"}
      BY Zenon, <3>2 DEF Prepared
    <3>5. \A d \in calls' : d.caller # "waiting" \/ agent' = agent
      BY Zenon, <3>1, <1>14 DEF Prepared, TypeOK, Calls
    <3>6. UNCHANGED <<pod, device, data, formats>>
      BY Zenon, <1>14 DEF UpdateStatus
    <3> QED
      BY Zenon, <3>1, <3>2, <3>3, <3>4, <3>5, <3>6 DEF Prepared
  <2>2. CASE ok /\ c.asks # "confirm"
    <3>1. /\ init = "unset" /\ init' = "started" /\ calls' = calls \ {c}
          /\ agent' = IF c.caller = "gone" THEN agent ELSE "format"
      BY Zenon, <1>14, <2>2 DEF UpdateStatus, Answer, FirstFormat
    <3>2. c.caller # "gone" => agent = "ask"
      BY Zenon, <2>2 DEF Prepared, TypeOK, Calls
    <3>3. \A d \in calls' : d.caller # "waiting" \/ agent' = agent
      BY Zenon, <3>1, <1>14 DEF Prepared, TypeOK, Calls
    <3>4. UNCHANGED <<pod, device, data, formats>>
      BY Zenon, <1>14 DEF UpdateStatus
    <3> QED
      BY Zenon, <3>1, <3>2, <3>3, <3>4 DEF Prepared
  <2>3. CASE ~ok
    BY Zenon, <1>14, <2>3, AnswerStep DEF UpdateStatus
  <2> QED
    BY Zenon, <2>1, <2>2, <2>3
<1>15. CASE UNCHANGED vars
  BY Zenon, <1>15 DEF Prepared
<1> QED
  BY ZenonT(60), <1>1, <1>3, <1>5, <1>6, <1>7, <1>8, <1>9, <1>10, <1>11, <1>12, <1>13, <1>14,
     <1>15 DEF Next

\* The invariant is inductive.
THEOREM VolumeInvariance == Spec => []VolumeIInv
<1>1. VolumeIInv /\ [Next]_vars => VolumeIInv'
  BY Zenon, VolumeTypeStep, PreparedStep DEF VolumeIInv
<1> QED
  BY VolumeInitIInv, <1>1, PTL DEF Spec

\* PrepareVolume: mkfs is started at most once, and only when the resource says
\* so, however many Agents, Pods and operations follow each other.
THEOREM OneFormat == Spec => []FormattedOnce
<1>1. VolumeIInv => FormattedOnce
  BY DEF VolumeIInv, Prepared, FormattedOnce, TypeOK
<1> QED
  BY VolumeInvariance, <1>1, PTL

\* MountDataVolume: what is in use was confirmed, and what was confirmed is a
\* complete file system.
THEOREM UseIsConfirmed == Spec => []UsedWhenReady
<1>1. VolumeIInv => UsedWhenReady
  BY Zenon DEF VolumeIInv, Prepared, UsedWhenReady
<1> QED
  BY VolumeInvariance, <1>1, PTL

\* MountDataVolume: no step formats a volume that holds data.
THEOREM DataSafe == Spec => DataNeverFormatted
<1>1. VolumeIInv /\ [Next]_vars => [data = "user" => data' = "user" /\ device' # "torn"]_vars
  <2> SUFFICES ASSUME VolumeIInv, Next, data = "user" PROVE data' = "user" /\ device' # "torn"
    OBVIOUS
  <2>1. device \in {"ext4", "damaged"} /\ agent \notin {"format", "formatting"}
    BY Zenon DEF VolumeIInv, Prepared
  <2> QED
    BY Zenon, <2>1 DEF Next, StartPod, NextOperation, StopPod, Left, Authority, StartAgent,
       Probe, BeginFormat, EndFormat, Check, Use, Exit, Damage, ReadResource,
       UpdateStatus
<1> QED
  BY VolumeInvariance, <1>1, PTL DEF Spec, DataNeverFormatted
=============================================================================
