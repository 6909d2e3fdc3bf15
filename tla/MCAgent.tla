------------------------------- MODULE MCAgent -------------------------------
(***************************************************************************)
(* What the Agent does for an environment: the volume it prepares, the     *)
(* journal and the log it keeps there, the Features it installs and the    *)
(* access target it publishes.  The parts share no state, so each          *)
(* behaviour runs one of them.                                             *)
(***************************************************************************)
EXTENDS VolumeInit, Journal, OperationLog, FeatureInstall, AccessTarget

VARIABLE focus  \* the part that this behaviour runs

mcVars == <<focus, vars, journalVars, logVars, featureVars, targetVars>>

\* A create, then a resume.
MCKind == <<"create", "resume">>

\* Keys, readings of the clock and replicas are alike: the first that appears is the
\* first one.
FirstKeyFirst == keysShown = {} /\ gitKey = NoKey => gitKey' # "k2"
FirstTimeFirst ==
    pc = "begin" /\ mem'.started = 2 =>
        \/ mem.started = 2
        \/ 1 \in {disk.started, mem.started} \cup UNION Range(origin)
FirstReplicaFirst == seed' # "m2"

\* Two versions of one Feature and another Feature; the platform injects one of them.
MCRepository == [r \in References |-> IF r = 3 THEN "b" ELSE "a"]
MCOverrides  == {<<>>, <<3, 1>>}
NoneOrOne    == {{}} \cup {{r} : r \in References}
MCDependsOn  == {f \in [Digests -> NoneOrOne] : f["z"] \in {{}, {1}}}
MCInstallsAfter == {[d \in Digests |-> IF d = "x" THEN s ELSE {}] : s \in NoneOrOne}
MCPublished  == {[r \in References |-> CASE r = 1 -> "x" [] r = 2 -> d [] r = 3 -> "z"] :
                    d \in {"x", "y"}}

\* A port of another service, and one that is not to be forwarded.
MCForwardPorts == {[id |-> "web", service |-> TRUE, ignored |-> FALSE],
                   [id |-> "api", service |-> FALSE, ignored |-> TRUE]}

MCInit ==
    /\ Init /\ JournalInit /\ LogInit /\ FeatureInit /\ TargetInit
    /\ focus \in {"volume", "journal", "log", "features", "target"}
    /\ focus # "volume" => device = "other"   \* no start uses it
    /\ (focus = "journal") <=> (stateDir = "blank")   \* elsewhere no journal is ever opened

MCNext ==
    /\ UNCHANGED focus
    /\ \/ focus = "volume" /\ Next
          /\ UNCHANGED <<journalVars, logVars, featureVars, targetVars>>
       \/ focus = "journal" /\ JournalNext /\ FirstKeyFirst /\ FirstTimeFirst
          /\ UNCHANGED <<vars, logVars, featureVars, targetVars>>
       \/ focus = "log" /\ LogNext
          /\ UNCHANGED <<vars, journalVars, featureVars, targetVars>>
       \/ focus = "features" /\ FeatureNext
          /\ UNCHANGED <<vars, journalVars, logVars, targetVars>>
       \/ focus = "target" /\ TargetNext /\ FirstReplicaFirst
          /\ UNCHANGED <<vars, journalVars, logVars, featureVars>>

\* The fairness of VolumeInit, where it runs.
Volume(A) == focus = "volume" /\ A

MCSpec ==
    /\ MCInit /\ [][MCNext]_mcVars
    /\ WF_vars(Volume(StartPod)) /\ WF_vars(Volume(StopPod))
    /\ WF_vars(Volume(StartAgent \/ Probe \/ BeginFormat \/ EndFormat \/ Check))
    /\ WF_vars(Volume(\E c \in calls : ReadResource(c) \/ UpdateStatus(c)))
    /\ JournalFairness
    /\ LogFairness
    /\ TargetFairness
=============================================================================
