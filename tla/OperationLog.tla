---------------------------- MODULE OperationLog ----------------------------
(***************************************************************************)
(* The log of an operation on its way from the Agent to Gitea.  Output     *)
(* collects lines, Append saves them as immutable batches in a spool file, *)
(* Flush uploads the batch at the checkpoint and moves the checkpoint when *)
(* it is acknowledged.  The Agent may die between any two steps, writes    *)
(* and calls may fail, and a request may be served late or twice.          *)
(*                                                                         *)
(* Positions in the spool count batches.  A batch has a size on the volume *)
(* and another number of bytes in Gitea's log.                             *)
(***************************************************************************)
EXTENDS Naturals, Sequences, FiniteSets

CONSTANTS
    LastLog,       \* bound: operation versions are 1 .. LastLog
    MaxBatches,    \* bound on the batches of lines
    MaxLogFaults,  \* bound on deaths, failing writes and calls
    Initial,       \* Gitea's own bytes at the start of a log
    MaxFile,       \* maxLogFileBytes, in units of a marker
    Reserve,       \* what Append keeps free for a marker
    BatchSize,     \* size of a batch of lines, in the same units
    MaxRemote      \* Gitea's own limit on the batches of a log

ASSUME OperationLogConstants ==
    /\ \A n \in {LastLog, MaxBatches, MaxLogFaults, Initial, MaxRemote} : n \in Nat
    /\ \A n \in {MaxFile, Reserve, BatchSize} : n \in Nat \ {0}
    /\ Reserve < MaxFile

LogVersions == 1 .. LastLog
Torn     == [id |-> 0, marker |-> TRUE]   \* an incomplete record

\* A marker needs one unit of the spool.
FileSize(s) ==
    LET markers == {i \in DOMAIN s : s[i].marker}
    IN  Cardinality(markers) + BatchSize * Cardinality(DOMAIN s \ markers)

\* A batch is one or two bytes of Gitea's log, where the k-th ends at an offset.
Bytes(b) == 1 + (b.id % 2)
Offset(s, k) == Initial + k + Cardinality({i \in 1 .. k : Bytes(s[i]) = 2})

VARIABLES
    issued,   \* Gitea: the current operation
    remote,   \* Gitea: the batches in the log of each operation
    net,      \* UploadLogs requests that may still be served
    spool,    \* logs/<version>.pb
    ckpt,     \* logs/<version>.json
    finished, \* the version in state/report.pb; 0 if none
    log,      \* the open OperationLog; version 0 if none
    out,      \* Output: lines pending, truncated, failed; any at all
    writing,  \* the batch Append has written and not synced
    flush,    \* the Flush under way
    made,     \* number of times lines were collected
    logFaults

logGitea == <<issued, remote, net>>
logFiles == <<spool, ckpt, finished>>
logProcess == <<log, out, writing, flush>>
logVars == <<logGitea, logFiles, logProcess, made, logFaults>>

NoCkpt  == [pos |-> 0, off |-> 0, closed |-> FALSE, exists |-> FALSE]
NoLog   == [version |-> 0, pos |-> 0, off |-> 0, closed |-> FALSE, size |-> 0,
            full |-> FALSE]
NoOut   == [lines |-> FALSE, truncated |-> FALSE, err |-> FALSE,
            started |-> FALSE]
NoFlush == [phase |-> "idle", next |-> 0, closed |-> FALSE]

LogInit ==
    /\ issued = 0 /\ remote = [v \in LogVersions |-> << >>] /\ net = {}
    /\ spool = [v \in LogVersions |-> << >>] /\ ckpt = [v \in LogVersions |-> NoCkpt]
    /\ finished = 0 /\ log = NoLog /\ out = NoOut /\ writing = Torn
    /\ flush = NoFlush /\ made = 0 /\ logFaults = 0

LogFault == logFaults < MaxLogFaults /\ logFaults' = logFaults + 1

(***************************************************************************)
(* Gitea (external) issues operations; the window of an earlier one closes.*)
(***************************************************************************)
Issue ==
    /\ issued < LastLog /\ issued' = issued + 1
    /\ UNCHANGED <<remote, net, logFiles, logProcess, made, logFaults>>

(***************************************************************************)
(* ControlClient.Run: a process first opens the log of the operation in    *)
(* its saved report, and whenever the operation changes it joins the       *)
(* uploader, prunes the logs of earlier operations and opens the new one.  *)
(***************************************************************************)
NextLog == IF log.version = 0 /\ finished > 0 THEN finished ELSE issued

PruneLogs(f, v, none) == [w \in LogVersions |-> IF w < v THEN none ELSE f[w]]

\* The offset of a new log comes with the operation, which the process that
\* only reads its saved report has not seen.
LogOffset == IF log.version = 0 /\ finished > 0 THEN 0 ELSE Initial

OpenOperationLog ==
    /\ NextLog > log.version /\ writing = Torn /\ ~out.lines
    /\ out.started => finished = log.version   \* an execution that began has ended
    /\ LET v == NextLog
           c == IF ckpt[v].exists THEN ckpt[v]
                ELSE [NoCkpt EXCEPT !.off = LogOffset, !.exists = TRUE]
       IN  /\ spool' = PruneLogs(spool, v, << >>)
           /\ ckpt' = [PruneLogs(ckpt, v, NoCkpt) EXCEPT ![v] = c]
           /\ log' = [version |-> v, pos |-> c.pos, off |-> c.off,
                      closed |-> c.closed, size |-> Len(spool[v]), full |-> FALSE]
    /\ out' = NoOut /\ flush' = NoFlush
    /\ UNCHANGED <<logGitea, finished, writing, made, logFaults>>

\* Death.  What was written and not synced may be there, in part or not at all.
AgentDies ==
    /\ log.version > 0 /\ LogFault
    /\ LET s == spool[log.version]
           durable == SubSeq(s, 1, IF writing = Torn THEN log.size ELSE Len(s) - 1)
       IN  \E left \in {durable, s}
                     \cup (IF writing = Torn THEN {} ELSE {Append(durable, Torn)}) :
             spool' = [spool EXCEPT ![log.version] = left]
    /\ log' = NoLog /\ out' = NoOut /\ writing' = Torn /\ flush' = NoFlush
    /\ UNCHANGED <<logGitea, ckpt, finished, made>>

(***************************************************************************)
(* Output and Append.                                                      *)
(***************************************************************************)
Executing == log.version > finished /\ log.version > 0

WriteLine ==
    /\ Executing /\ ~out.lines /\ ~out.err /\ ~out.truncated
    /\ made < MaxBatches
    /\ out' = [out EXCEPT !.lines = TRUE, !.started = TRUE] /\ made' = made + 1
    /\ UNCHANGED <<logGitea, logFiles, log, writing, flush, logFaults>>

Used == FileSize(SubSeq(spool[log.version], 1, log.size))

\* Append's limits: a batch of lines leaves room for the marker that says that
\* the rest is discarded.
LinesFit  == Used + BatchSize <= MaxFile - Reserve
MarkerFits == Used + 1 <= MaxFile

\* flushPending of a closed log, or of one that is full to the brim.
DiscardLines ==
    /\ out.lines /\ writing = Torn
    /\ \/ log.closed /\ out' = [out EXCEPT !.lines = FALSE] /\ UNCHANGED log
       \/ /\ ~log.closed /\ (log.full \/ ~(LinesFit \/ MarkerFits))
          /\ out' = [out EXCEPT !.lines = FALSE, !.truncated = TRUE]
          /\ log' = [log EXCEPT !.full = TRUE]
    /\ UNCHANGED <<logGitea, logFiles, writing, flush, made, logFaults>>

\* Append up to WriteAt.  What an earlier failure left there is overwritten.
Put(b) ==
    [spool EXCEPT ![log.version] = Append(SubSeq(@, 1, log.size), b)]

AppendCounted ==
    /\ out.lines /\ writing = Torn /\ ~log.closed /\ ~log.full
    /\ LinesFit \/ MarkerFits
    /\ writing' = [id |-> made, marker |-> ~LinesFit]
    /\ spool' = Put(writing')
    /\ log' = [log EXCEPT !.size = @ + 1, !.full = ~LinesFit]
    /\ UNCHANGED <<logGitea, ckpt, finished, out, flush, made, logFaults>>
AppendBatch ==
    /\ out.lines /\ writing = Torn /\ ~log.closed /\ ~log.full
    /\ LinesFit \/ MarkerFits
    /\ writing' = [id |-> made, marker |-> ~LinesFit]
    /\ spool' = Put(writing')
    /\ log' = [log EXCEPT !.full = ~LinesFit]
    /\ UNCHANGED <<logGitea, ckpt, finished, out, flush, made, logFaults>>

\* Sync returns: only now is the batch visible to Flush.
AppendSynced ==
    /\ writing # Torn /\ writing' = Torn
    /\ log' = [log EXCEPT !.size = Len(spool[log.version])]
    /\ out' = [out EXCEPT !.lines = FALSE, !.truncated = log.full]
    /\ UNCHANGED <<logGitea, logFiles, flush, made, logFaults>>

\* WriteAt or Sync fails: Output stops appending for good.
AppendFails ==
    /\ writing # Torn /\ writing' = Torn /\ LogFault
    /\ \/ \E b \in {writing, Torn} : spool' = Put(b)
       \/ spool' = [spool EXCEPT ![log.version] = SubSeq(@, 1, log.size)]
    /\ out' = [out EXCEPT !.lines = FALSE, !.err = TRUE]
    /\ UNCHANGED <<logGitea, ckpt, finished, log, flush, made>>

\* FlushLines, then recordResult: the operation writes no further line.
EndOutput ==
    /\ Executing /\ ~out.lines /\ finished' = log.version
    /\ UNCHANGED <<logGitea, spool, ckpt, logProcess, made, logFaults>>

(***************************************************************************)
(* Flush.                                                                  *)
(***************************************************************************)
NextBatch == [version |-> log.version, off |-> log.off,
            batch |-> spool[log.version][log.pos + 1]]

FlushSend ==
    /\ log.version > 0 /\ flush.phase = "idle" /\ ~log.closed /\ log.pos < log.size
    /\ NextBatch.batch # Torn
    /\ net' = net \cup {NextBatch} /\ flush' = [NoFlush EXCEPT !.phase = "sent"]
    /\ UNCHANGED <<issued, remote, logFiles, log, out, writing, made, logFaults>>

\* UploadLogs and Gitea's UpdateLog (external): a batch at the end is appended,
\* one that is there already is acknowledged again, any other is refused.  An
\* operation that is over, or a log that is full, closes the log.
Reply(r) ==
    LET s == remote[r.version]
        k == CHOOSE k \in 0 .. Len(s) : Offset(s, k) = r.off
    IN  IF r.version # issued THEN [kind |-> "closed", log |-> s]
        ELSE IF \A i \in 0 .. Len(s) : Offset(s, i) # r.off
        THEN [kind |-> "refused", log |-> s]
        ELSE IF k < Len(s)
        THEN [kind |-> IF s[k + 1] = r.batch THEN "ok" ELSE "refused", log |-> s]
        ELSE IF Len(s) >= MaxRemote THEN [kind |-> "closed", log |-> s]
        ELSE [kind |-> "ok", log |-> Append(s, r.batch)]

UploadLogs(r) ==
    /\ \/ net' = net \ {r} /\ UNCHANGED logFaults
       \/ net' = net /\ LogFault   \* a second copy of it is still on its way
    /\ remote' = [remote EXCEPT ![r.version] = Reply(r).log]
    /\ flush' = IF flush.phase = "sent" /\ r = NextBatch
                THEN CASE Reply(r).kind = "ok" ->
                            [phase |-> "acked", next |-> r.off + Bytes(r.batch),
                             closed |-> FALSE]
                       [] Reply(r).kind = "closed" ->
                            [phase |-> "acked", next |-> r.off, closed |-> TRUE]
                       [] OTHER -> NoFlush
                ELSE flush
    /\ UNCHANGED <<issued, logFiles, log, out, writing, made>>

\* The Manager is of another mind about the current operation, the call is
\* lost, or its attempt of five seconds is over.
FlushFails ==
    /\ flush.phase # "idle" /\ LogFault /\ flush' = NoFlush
    /\ UNCHANGED <<logGitea, logFiles, log, out, writing, made>>

\* The next checkpoint: a closed log retires its batch without its bytes.
PositionOnly == [pos |-> log.pos + 1, off |-> log.off, closed |-> flush.closed,
                 exists |-> TRUE]
NextCheckpoint == [pos |-> log.pos + 1, off |-> flush.next,
                   closed |-> flush.closed, exists |-> TRUE]

FlushAcked ==
    /\ flush.phase = "acked" /\ flush' = NoFlush
    /\ ckpt' = [ckpt EXCEPT ![log.version] = NextCheckpoint]
    /\ log' = [log EXCEPT !.pos = NextCheckpoint.pos, !.off = NextCheckpoint.off,
                          !.closed = NextCheckpoint.closed]
    /\ UNCHANGED <<logGitea, spool, finished, out, writing, made, logFaults>>

\* The write of the checkpoint fails, though the file may be the new one.
CheckpointFails ==
    /\ flush.phase = "acked" /\ flush' = NoFlush /\ LogFault
    /\ \E c \in {ckpt[log.version], NextCheckpoint} :
         ckpt' = [ckpt EXCEPT ![log.version] = c]
    /\ UNCHANGED <<logGitea, spool, finished, log, out, writing, made>>

LogNext ==
    \/ Issue \/ OpenOperationLog \/ AgentDies
    \/ WriteLine \/ DiscardLines \/ AppendBatch \/ AppendSynced \/ AppendFails
    \/ EndOutput
    \/ FlushSend \/ (\E r \in net : UploadLogs(r)) \/ FlushFails
    \/ FlushAcked \/ CheckpointFails

\* The loop of Run opens logs, Upload runs until it is stopped, an Append that
\* has begun ends, the Manager serves requests, and an execution that another
\* operation replaces is cancelled, so it ends and its result is recorded.
LogFairness ==
    /\ WF_logVars(OpenOperationLog) /\ WF_logVars(log.version < issued /\ EndOutput)
    /\ WF_logVars(AppendBatch \/ AppendSynced \/ DiscardLines)
    /\ WF_logVars(FlushSend \/ FlushAcked) /\ WF_logVars(\E r \in net : UploadLogs(r))

LogSpec == LogInit /\ [][LogNext]_logVars /\ LogFairness

-----------------------------------------------------------------------------
\* What OpenOperationLog accepts; a log beyond it would lock the Agent out.
SpoolFits(s) == FileSize(s) <= MaxFile

Abstract == INSTANCE LogDelivery
                WITH Versions <- LogVersions, Fits <- SpoolFits,
                     current <- issued, accepted <- spool, received <- remote

\* Append, Flush, UploadLogs and PruneLogs implement the delivery of the log
\* that LogDelivery states: Gitea's log receives what the Agent saved in the
\* spool, in order, each batch once; nothing that was received is rewritten in
\* the spool, a spool goes only when its operation is over, and it never grows
\* beyond its limit, whatever died, failed, was restarted or was sent twice.
ImplementsDelivery == Abstract!Delivery

\* Upload: every batch of the operation that stays the current one reaches
\* Gitea, unless its log is closed or holds an incomplete record.
Uploaded ==
    \A v \in LogVersions :
      <>[](issued = v =>
             \/ ckpt[v].closed
             \/ \E i \in DOMAIN spool[v] : spool[v][i] = Torn
             \/ log.version = v /\ remote[v] = SubSeq(spool[v], 1, log.size))
=============================================================================
