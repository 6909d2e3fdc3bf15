----------------------------- MODULE AgentProofs ----------------------------
(***************************************************************************)
(* Two parts of what the Agent does in the Pod, each for every value of    *)
(* its constants: the log of an operation on its way to Gitea, and the     *)
(* order features are installed in, with the lockfile they are pinned by.  *)
(***************************************************************************)
EXTENDS OperationLog, FeatureInstall, FiniteSetTheorems, TLAPS

(***************************************************************************)
(* The log of an operation: LogIInv.                                       *)
(*                                                                         *)
(* A batch is appended to Gitea's log when the request names the offset    *)
(* where the log ends; that it is the right batch takes an argument about  *)
(* positions. The checkpoint, the open log and every request on its way    *)
(* pair a position of the spool with the offset at which that position     *)
(* begins, Gitea's log begins like the spool, and offsets grow with        *)
(* positions: so the offset where Gitea's log ends names one position, the *)
(* one after what was received. It holds because Flush reads only what is  *)
(* synced, and a failure or a death takes back only what is not.           *)
(***************************************************************************)
\* The types of what there is.
LogBatches == [id : Nat, marker : BOOLEAN]
CkptFields == {"pos", "off", "closed", "exists"}
LogFields == {"version", "pos", "off", "closed", "size", "full"}
OutFields == {"lines", "truncated", "err", "started"}

LogType ==
    /\ issued \in 0 .. LastLog /\ finished \in 0 .. LastLog /\ made \in Nat
    /\ remote \in [LogVersions -> Seq(LogBatches)]
    /\ spool \in [LogVersions -> Seq(LogBatches)]
    /\ DOMAIN ckpt = LogVersions
    /\ \A v \in LogVersions :
         DOMAIN ckpt[v] = CkptFields /\ ckpt[v].pos \in Nat /\ ckpt[v].off \in Nat
    /\ DOMAIN log = LogFields /\ log.version \in 0 .. LastLog
    /\ log.pos \in Nat /\ log.off \in Nat /\ log.size \in Nat
    /\ DOMAIN out = OutFields /\ writing \in LogBatches
    /\ DOMAIN flush = {"phase", "next", "closed"} /\ flush.next \in Nat
    /\ \A r \in net : /\ DOMAIN r = {"version", "off", "batch"} /\ r.version \in LogVersions
                      /\ r.off \in Nat /\ r.batch \in LogBatches

\* What Flush may read of a spool: what is synced, if the log is open.
Visible(v) == IF log.version = v THEN log.size ELSE Len(spool[v])

\* The Agent works on an operation that was issued, and only Output that may go
\* on has lines.
Operations ==
    /\ finished <= issued /\ log.version <= issued
    /\ out.lines => finished < log.version /\ ~out.err /\ made > 0
    /\ writing # Torn => out.lines

\* The spool has at most one batch that is not synced: the one Append writes, or
\* what a failed Append left, after which nothing is appended.
OneBeyond ==
    log.version > 0 =>
      LET s == spool[log.version]
      IN  IF writing # Torn THEN Len(s) = log.size + 1 /\ s[Len(s)] = writing
          ELSE Len(s) = log.size \/ (out.err /\ Len(s) = log.size + 1)

\* Every spool is within its limit.
AllFit == \A v \in LogVersions : SpoolFits(spool[v])

\* Gitea's log begins like the spool, or the spool is gone.
Received(v) ==
    /\ Len(remote[v]) <= Visible(v)
    /\ \A i \in 1 .. Len(remote[v]) : remote[v][i] = spool[v][i]
Pruned(v) ==
    spool[v] = << >> /\ v < issued /\ (log.version = v => finished >= v)
AllReceived == \A v \in LogVersions : Received(v) \/ Pruned(v)

\* p batches of the current operation end at this offset.
EndsAt(p, off) == p <= Visible(issued) /\ off = Offset(spool[issued], p)

\* A request for the current operation carries a batch that is synced, and the
\* offset at which it begins.
Requests ==
    \A r \in net :
      /\ r.version <= issued
      /\ r.version = issued =>
           \E p \in 0 .. Visible(issued) - 1 :
             r.batch = spool[issued][p + 1] /\ EndsAt(p, r.off)

\* So do the checkpoint, the open log, and the acknowledgement under way.
Checkpoints ==
    /\ \A v \in LogVersions : v > issued => ~ckpt[v].exists
    /\ issued > 0 /\ (finished = issued \/ log.version = issued) => ckpt[issued].exists
    /\ issued > 0 /\ ckpt[issued].exists /\ ~ckpt[issued].closed =>
         EndsAt(ckpt[issued].pos, ckpt[issued].off)
    /\ issued > 0 /\ log.version = issued /\ ~log.closed => EndsAt(log.pos, log.off)
    /\ flush.phase # "idle" => log.version > 0 /\ ~log.closed /\ log.pos < log.size
    /\ issued > 0 /\ log.version = issued /\ flush.phase = "acked" /\ ~flush.closed =>
         EndsAt(log.pos + 1, flush.next)

\* The inductive invariant.
LogIInv ==
    /\ LogType /\ Operations /\ OneBeyond /\ AllFit /\ AllReceived
    /\ Requests /\ Checkpoints

-----------------------------------------------------------------------------
\* Room and offsets.

\* The room a batch takes.
Cost(b) == IF b.marker THEN 1 ELSE BatchSize

\* The sizes of the spool are positive numbers.
LEMMA LogRoom == {BatchSize, Reserve, MaxFile} \subseteq Nat \ {0} /\ Initial \in Nat
  BY OperationLogConstants

\* Bytes: one or two.
LEMMA BatchBytes ==
    ASSUME NEW b \in LogBatches
    PROVE  Bytes(b) \in {1, 2}
  BY DEF Bytes, LogBatches

\* A spool with a batch is what was there before it, and that batch.
LEMMA SpoolSeq ==
    ASSUME NEW s \in Seq(LogBatches), s # << >>
    PROVE  /\ Len(s) \in Nat \ {0}
           /\ SubSeq(s, 1, Len(s) - 1) \in Seq(LogBatches)
           /\ Len(SubSeq(s, 1, Len(s) - 1)) = Len(s) - 1
           /\ \A i \in 1 .. Len(s) - 1 : SubSeq(s, 1, Len(s) - 1)[i] = s[i]
           /\ s[Len(s)] \in LogBatches
           /\ s = Append(SubSeq(s, 1, Len(s) - 1), s[Len(s)])
<1>1. /\ Len(s) \in Nat \ {0} /\ s[Len(s)] \in LogBatches
      /\ \A i \in 1 .. Len(s) : s[i] \in LogBatches
  OBVIOUS
<1> DEFINE f == SubSeq(s, 1, Len(s) - 1)
<1>2. f \in Seq(LogBatches) /\ Len(f) = Len(s) - 1 /\ \A i \in 1 .. Len(s) - 1 : f[i] = s[i]
  <2>1. Len(f) = Len(s) - 1
    BY SMTT(60), <1>1
  <2>2. \A i \in 1 .. Len(s) - 1 : f[i] = s[i]
    BY <1>1
  <2>3. f \in Seq(LogBatches)
    BY <1>1
  <2> QED
    BY Zenon, <2>1, <2>2, <2>3
<1> HIDE DEF f
<1>3. s = Append(f, s[Len(s)])
  BY <1>1, <1>2
<1> QED
  BY Zenon, <1>1, <1>2, <1>3 DEF f

\* Append adds a batch at the end and changes no other.
LEMMA SpoolAppend ==
    ASSUME NEW s \in Seq(LogBatches), NEW b \in LogBatches
    PROVE  /\ Append(s, b) \in Seq(LogBatches) /\ Append(s, b) # << >>
           /\ Len(s) \in Nat /\ Len(Append(s, b)) = Len(s) + 1
           /\ \A i \in 1 .. Len(s) : Append(s, b)[i] = s[i]
           /\ Append(s, b)[Len(s) + 1] = b
           /\ SubSeq(Append(s, b), 1, Len(s)) = s
           /\ SubSeq(s, 1, Len(s)) = s
  OBVIOUS

\* One batch more, one size more.
LEMMA Products ==
    ASSUME NEW n \in Nat, NEW m \in Nat
    PROVE  m * n \in Nat /\ m * (n + 1) = m * n + m
  OBVIOUS

\* FileSize: a batch adds what it costs, and nothing else changes.
LEMMA FileSizeAppend ==
    ASSUME NEW s \in Seq(LogBatches), NEW b \in LogBatches
    PROVE  FileSize(s) \in Nat /\ FileSize(Append(s, b)) = FileSize(s) + Cost(b)
<1> DEFINE Marked(q) == {i \in DOMAIN q : q[i].marker}
           Plain(q) == DOMAIN q \ Marked(q)
           t == Append(s, b)
           e == Len(s) + 1
<1>a. /\ Len(s) \in Nat /\ DOMAIN s = 1 .. Len(s) /\ DOMAIN t = 1 .. e
      /\ e \notin DOMAIN s /\ DOMAIN t = DOMAIN s \cup {e}
      /\ \A i \in DOMAIN s : t[i] = s[i]
      /\ t[e] = b
  BY SpoolAppend
<1> HIDE DEF t, e
<1>b. IsFiniteSet(DOMAIN s)
  BY <1>a, FS_Interval
<1>c. IsFiniteSet(Marked(s)) /\ IsFiniteSet(Plain(s))
  BY Zenon, <1>b, FS_Subset
<1>d. Cardinality(Marked(s)) \in Nat /\ Cardinality(Plain(s)) \in Nat
  BY Zenon, <1>c, FS_CardinalityType
<1>s. \A q : FileSize(q) = Cardinality(Marked(q)) + BatchSize * Cardinality(Plain(q))
  BY Zenon DEF FileSize
<1>n. BatchSize \in Nat
  BY Zenon, OperationLogConstants
<1>e. CASE b.marker
  <2>1. Marked(t) = Marked(s) \cup {e} /\ Plain(t) = Plain(s) /\ e \notin Marked(s)
    BY Zenon, <1>a, <1>e
  <2>2. Cardinality(Marked(t)) = Cardinality(Marked(s)) + 1
    BY Zenon, <2>1, <1>c, FS_AddElement
  <2>3. Cost(b) = 1
    BY Zenon, <1>e DEF Cost
  <2> HIDE DEF Marked, Plain
  <2>4. FileSize(s) \in Nat /\ FileSize(t) = FileSize(s) + Cost(b)
    <3> DEFINE m == Cardinality(Marked(s))
               p == Cardinality(Plain(s))
    <3>1. /\ m \in Nat /\ p \in Nat /\ FileSize(s) = m + BatchSize * p
          /\ FileSize(t) = Cardinality(Marked(t)) + BatchSize * Cardinality(Plain(t))
      BY Zenon, <1>d, <1>s
    <3>2. BatchSize * p \in Nat /\ BatchSize * (p + 1) = BatchSize * p + BatchSize
      BY Zenon, <3>1, <1>n, Products
    <3>3. FileSize(t) = IF b.marker THEN m + 1 + BatchSize * p ELSE m + BatchSize * (p + 1)
      BY Zenon, <2>1, <2>2, <3>1, <1>e
    <3> HIDE DEF m, p
    <3> QED
      BY <3>1, <3>2, <3>3, <2>3, <1>n, <1>e
  <2> QED
    BY Zenon, <2>4 DEF t
<1>f. CASE ~b.marker
  <2>1. Marked(t) = Marked(s) /\ Plain(t) = Plain(s) \cup {e} /\ e \notin Plain(s)
    BY Zenon, <1>a, <1>f
  <2>2. Cardinality(Plain(t)) = Cardinality(Plain(s)) + 1
    BY Zenon, <2>1, <1>c, FS_AddElement
  <2>3. Cost(b) = BatchSize
    BY Zenon, <1>f DEF Cost
  <2> HIDE DEF Marked, Plain
  <2>4. FileSize(s) \in Nat /\ FileSize(t) = FileSize(s) + Cost(b)
    <3> DEFINE m == Cardinality(Marked(s))
               p == Cardinality(Plain(s))
    <3>1. /\ m \in Nat /\ p \in Nat /\ FileSize(s) = m + BatchSize * p
          /\ FileSize(t) = Cardinality(Marked(t)) + BatchSize * Cardinality(Plain(t))
      BY Zenon, <1>d, <1>s
    <3>2. BatchSize * p \in Nat /\ BatchSize * (p + 1) = BatchSize * p + BatchSize
      BY Zenon, <3>1, <1>n, Products
    <3>3. FileSize(t) = IF b.marker THEN m + 1 + BatchSize * p ELSE m + BatchSize * (p + 1)
      BY Zenon, <2>1, <2>2, <3>1, <1>f
    <3> HIDE DEF m, p
    <3> QED
      BY <3>1, <3>2, <3>3, <2>3, <1>n, <1>f
  <2> QED
    BY Zenon, <2>4 DEF t
<1> QED
  BY Zenon, <1>e, <1>f

\* The batches of two bytes among the first k.
LongOnes(s, k) == {i \in 1 .. k : Bytes(s[i]) = 2}

\* Offset, by the number of batches of two bytes.
LEMMA OffsetCount ==
    ASSUME NEW s, NEW n \in Nat
    PROVE  /\ IsFiniteSet(LongOnes(s, n)) /\ Cardinality(LongOnes(s, n)) \in Nat
           /\ Offset(s, n) = Initial + n + Cardinality(LongOnes(s, n))
           /\ Offset(s, n) \in Nat
<1>1. IsFiniteSet(1 .. n)
  BY FS_Interval
<1>2. LongOnes(s, n) \subseteq 1 .. n
  BY Zenon DEF LongOnes
<1>3. IsFiniteSet(LongOnes(s, n))
  BY Zenon, <1>1, <1>2, FS_Subset
<1>4. Cardinality(LongOnes(s, n)) \in Nat
  BY Zenon, <1>3, FS_CardinalityType
<1>5. Offset(s, n) = Initial + n + Cardinality(LongOnes(s, n))
  BY Zenon DEF Offset, LongOnes
<1> QED
  BY <1>3, <1>4, <1>5, OperationLogConstants

\* Offset: the next batch ends after its own bytes.
LEMMA OffsetStep ==
    ASSUME NEW s \in Seq(LogBatches), NEW k \in Nat, k < Len(s)
    PROVE  Offset(s, k + 1) = Offset(s, k) + Bytes(s[k + 1])
<1>a. k + 1 \in Nat /\ k + 1 \in 1 .. k + 1 /\ k + 1 \notin 1 .. k
      /\ 1 .. k + 1 = (1 .. k) \cup {k + 1} /\ s[k + 1] \in LogBatches
  OBVIOUS
<1>b. Bytes(s[k + 1]) \in {1, 2}
  BY Zenon, <1>a, BatchBytes
<1>c. /\ Offset(s, k) = Initial + k + Cardinality(LongOnes(s, k))
      /\ Cardinality(LongOnes(s, k)) \in Nat /\ Initial \in Nat
  BY Zenon, OffsetCount, LogRoom
<1>1. CASE Bytes(s[k + 1]) = 2
  <2>1. LongOnes(s, k + 1) = LongOnes(s, k) \cup {k + 1} /\ k + 1 \notin LongOnes(s, k)
    BY Zenon, <1>a, <1>1 DEF LongOnes
  <2>2. Cardinality(LongOnes(s, k + 1)) = Cardinality(LongOnes(s, k)) + 1
    BY Zenon, <2>1, OffsetCount, FS_AddElement
  <2> QED
    <3>1. Offset(s, k + 1) = Initial + (k + 1) + (Cardinality(LongOnes(s, k)) + 1)
      BY Zenon, <1>a, <2>2, OffsetCount
    <3> QED
      BY <3>1, <1>c, <1>1
<1>2. CASE Bytes(s[k + 1]) = 1
  <2>1. LongOnes(s, k + 1) = LongOnes(s, k)
    BY <1>a, <1>2 DEF LongOnes
  <2> QED
    <3>1. Offset(s, k + 1) = Initial + (k + 1) + Cardinality(LongOnes(s, k))
      BY Zenon, <1>a, <2>1, OffsetCount
    <3> QED
      BY <3>1, <1>c, <1>2
<1> QED
  BY Zenon, <1>b, <1>1, <1>2

\* Offset: a later batch ends at a larger offset, so an offset names one position.
LEMMA OffsetGrows ==
    ASSUME NEW s, NEW j \in Nat, NEW k \in Nat, j < k
    PROVE  Offset(s, j) < Offset(s, k)
<1>1. LongOnes(s, j) \subseteq LongOnes(s, k)
  BY DEF LongOnes
<1>2. Cardinality(LongOnes(s, j)) <= Cardinality(LongOnes(s, k))
  BY Zenon, <1>1, OffsetCount, FS_Subset
<1> QED
  BY <1>2, OffsetCount, OperationLogConstants

\* Offset: only the batches before it count.
LEMMA OffsetAgree ==
    ASSUME NEW s, NEW t, NEW k \in Nat, \A i \in 1 .. k : s[i] = t[i]
    PROVE  Offset(s, k) = Offset(t, k)
<1>1. {i \in 1 .. k : Bytes(s[i]) = 2} = {i \in 1 .. k : Bytes(t[i]) = 2}
  BY Zenon
<1> QED
  BY Zenon, <1>1 DEF Offset

\* Offset: a log begins after what Gitea itself wrote.
LEMMA OffsetZero == ASSUME NEW s PROVE Offset(s, 0) = Initial
<1>1. {i \in 1 .. 0 : Bytes(s[i]) = 2} = {}
  OBVIOUS
<1> QED
  BY <1>1, FS_EmptySet, OperationLogConstants DEF Offset
-----------------------------------------------------------------------------
\* What the invariant says of one spool.

\* The types, as facts about numbers.
LEMMA LogNumbers ==
    ASSUME LogType
    PROVE  /\ LastLog \in Nat /\ Initial \in Nat
           /\ issued \in Nat /\ issued <= LastLog /\ finished \in Nat /\ finished <= LastLog
           /\ log.version \in Nat /\ log.version <= LastLog
           /\ log.pos \in Nat /\ log.off \in Nat /\ log.size \in Nat /\ made \in Nat
<1>1. LastLog \in Nat /\ Initial \in Nat
  BY OperationLogConstants
<1>2. /\ issued \in 0 .. LastLog /\ finished \in 0 .. LastLog /\ log.version \in 0 .. LastLog
      /\ log.pos \in Nat /\ log.off \in Nat /\ log.size \in Nat /\ made \in Nat
  BY Zenon DEF LogType
<1> QED
  BY <1>1, <1>2

\* Flush reads no further than the spool goes, and the spool is at most one batch
\* longer than what is synced.
LEMMA SpoolFacts ==
    ASSUME LogType, OneBeyond, NEW v \in LogVersions
    PROVE  /\ v \in Nat /\ issued \in Nat /\ log.version \in Nat /\ log.size \in Nat
           /\ spool[v] \in Seq(LogBatches) /\ remote[v] \in Seq(LogBatches)
           /\ Len(spool[v]) \in Nat /\ Len(remote[v]) \in Nat
           /\ Visible(v) \in Nat /\ Visible(v) <= Len(spool[v])
           /\ log.version = v => /\ log.size <= Len(spool[v])
                                 /\ Len(spool[v]) <= log.size + 1
                                 /\ Visible(v) = log.size
           /\ log.version # v => Visible(v) = Len(spool[v])
<1>1. /\ v \in Nat /\ issued \in Nat /\ log.version \in Nat /\ log.size \in Nat /\ v > 0
      /\ spool[v] \in Seq(LogBatches) /\ remote[v] \in Seq(LogBatches)
  <2>1. LastLog \in Nat /\ issued \in 0 .. LastLog /\ log.version \in 0 .. LastLog
    BY Zenon, OperationLogConstants DEF LogType
  <2>2. spool[v] \in Seq(LogBatches) /\ remote[v] \in Seq(LogBatches) /\ log.size \in Nat
    BY Zenon DEF LogType
  <2> QED
    BY <2>1, <2>2 DEF LogVersions
<1>2. Len(spool[v]) \in Nat /\ Len(remote[v]) \in Nat
  BY <1>1
<1>3. log.version = v => log.size <= Len(spool[v]) /\ Len(spool[v]) <= log.size + 1
  BY <1>1, <1>2 DEF OneBeyond
<1> QED
  BY <1>1, <1>2, <1>3 DEF Visible

\* A log that is open is that of an operation.
LEMMA OpenLog ==
    ASSUME LogType, log.version > 0
    PROVE  log.version \in LogVersions /\ log.version \in Nat
  BY LogNumbers DEF LogVersions

\* What a step keeps of a spool: what Flush may read of it.
Longer(v) ==
    /\ Visible(v) <= Visible(v)'
    /\ \A i \in 1 .. Visible(v) : spool'[v][i] = spool[v][i]

\* A spool is gone after the step, or it still says what it said.
Settling(v) == Pruned(v)' \/ (Longer(v) /\ ~Pruned(v))

\* Gitea's log goes on beginning like the spool while the step settles each spool.
LEMMA StillReceived ==
    ASSUME LogIInv, LogType', UNCHANGED <<issued, remote>>,
           OneBeyond', \A v \in LogVersions : Settling(v)
    PROVE  AllReceived'
<1> SUFFICES ASSUME NEW v \in LogVersions, ~Pruned(v)'
             PROVE  Received(v)'
  BY Zenon DEF AllReceived
<1>1. Longer(v) /\ Received(v)
  BY Zenon DEF Settling, LogIInv, AllReceived
<1>2. Visible(v) \in Nat /\ Len(remote[v]) \in Nat
  BY Zenon, SpoolFacts DEF LogIInv
<1>3. Visible(v)' \in Nat
  <2>1. log'.size \in Nat /\ spool'[v] \in Seq(LogBatches)
    BY Zenon DEF LogType
  <2> QED
    BY <2>1 DEF Visible
<1> QED
  BY <1>1, <1>2, <1>3 DEF Longer, Received

\* A position of the current operation keeps its offset.
LEMMA StillAt ==
    ASSUME LogIInv, LogType', issued' = issued, issued \in LogVersions,
           Settling(issued), NEW p \in Nat, NEW off, EndsAt(p, off)
    PROVE  EndsAt(p, off)'
<1>1. /\ Visible(issued) \in Nat /\ issued \in Nat
      /\ log'.size \in Nat /\ spool'[issued] \in Seq(LogBatches)
  BY Zenon, SpoolFacts DEF LogIInv, LogType
<1>2. Visible(issued)' \in Nat
  BY <1>1 DEF Visible
<1>3. Longer(issued)
  BY <1>1 DEF Settling, Pruned
<1>4. p <= Visible(issued)' /\ \A i \in 1 .. p : spool'[issued][i] = spool[issued][i]
  BY <1>1, <1>2, <1>3 DEF Longer, EndsAt
<1>5. Offset(spool'[issued], p) = Offset(spool[issued], p)
  BY Zenon, <1>4, OffsetAgree
<1> QED
  BY Zenon, <1>4, <1>5 DEF EndsAt

\* The requests on their way go on carrying a batch of the spool.
LEMMA StillRequested ==
    ASSUME LogIInv, LogType', issued' = issued, net' \subseteq net,
           \A v \in LogVersions : Settling(v)
    PROVE  Requests'
<1> SUFFICES ASSUME NEW r \in net'
             PROVE  /\ r.version <= issued
                    /\ r.version = issued =>
                         \E p \in 0 .. Visible(issued)' - 1 :
                           r.batch = spool'[issued][p + 1] /\ EndsAt(p, r.off)'
  BY Zenon DEF Requests
<1>1. /\ r \in net /\ r.version <= issued /\ r.version \in LogVersions
  BY Zenon DEF LogIInv, Requests, LogType
<1> SUFFICES ASSUME r.version = issued
             PROVE  \E p \in 0 .. Visible(issued)' - 1 :
                      r.batch = spool'[issued][p + 1] /\ EndsAt(p, r.off)'
  BY Zenon, <1>1
<1>2. issued \in LogVersions /\ Settling(issued)
  BY Zenon, <1>1
<1>3. PICK p \in 0 .. Visible(issued) - 1 :
        r.batch = spool[issued][p + 1] /\ EndsAt(p, r.off)
  BY Zenon, <1>1 DEF LogIInv, Requests
<1>4. /\ Visible(issued) \in Nat /\ issued \in Nat
      /\ log'.size \in Nat /\ spool'[issued] \in Seq(LogBatches)
  BY Zenon, <1>2, SpoolFacts DEF LogIInv, LogType
<1>5. Visible(issued)' \in Nat
  BY <1>4 DEF Visible
<1>6. Longer(issued)
  BY <1>2, <1>4 DEF Settling, Pruned
<1>7. p \in Nat /\ p \in 0 .. Visible(issued)' - 1 /\ p + 1 \in 1 .. Visible(issued)
  BY <1>3, <1>4, <1>5, <1>6 DEF Longer
<1>8. EndsAt(p, r.off)'
  BY Zenon, <1>2, <1>3, <1>7, StillAt
<1>9. spool'[issued][p + 1] = spool[issued][p + 1]
  BY Zenon, <1>6, <1>7 DEF Longer
<1> QED
  BY Zenon, <1>3, <1>7, <1>8, <1>9

\* Steps that leave what Flush may read alone.
LEMMA SameSettled ==
    ASSUME LogIInv, UNCHANGED <<spool, issued>>, log'.version = log.version,
           log'.size = log.size, finished' \in Nat, finished \in Nat,
           finished <= finished',
           NEW v \in LogVersions
    PROVE  Settling(v)
<1>1. Visible(v)' = Visible(v) /\ Visible(v) \in Nat
  BY Zenon, SpoolFacts DEF Visible, LogIInv
<1>2. v \in Nat
  BY Zenon, SpoolFacts DEF LogIInv
<1> QED
  BY <1>1, <1>2 DEF Settling, Longer, Pruned

\* The invariant holds at first.
LEMMA LogInitial == LogInit => LogIInv
<1> SUFFICES ASSUME LogInit PROVE LogIInv
  OBVIOUS
<1>1. FileSize(<< >>) = 0
  <2>1. {i \in DOMAIN << >> : << >>[i].marker} = {} /\ DOMAIN << >> \ {} = {}
    OBVIOUS
  <2>2. Cardinality({}) = 0
    BY Zenon, FS_EmptySet
  <2> QED
    BY <2>1, <2>2, OperationLogConstants DEF FileSize
<1>2. << >> \in Seq(LogBatches) /\ Torn \in LogBatches /\ Len(<< >>) = 0
  BY DEF LogBatches, Torn
<1>3. LogType
  BY <1>2, OperationLogConstants
  DEF LogType, LogInit, NoCkpt, CkptFields, NoLog, LogFields, NoOut, OutFields, NoFlush
<1>4. Operations /\ OneBeyond /\ Requests
  BY DEF LogInit, Operations, OneBeyond, Requests, NoLog, NoOut
<1>5. AllFit
  BY <1>1, OperationLogConstants DEF LogInit, AllFit, SpoolFits
<1>6. AllReceived
  BY <1>2 DEF LogInit, AllReceived, Received, Visible, NoLog
<1>7. Checkpoints
  BY DEF LogInit, Checkpoints, NoCkpt, NoFlush
<1> QED
  BY Zenon, <1>3, <1>4, <1>5, <1>6, <1>7 DEF LogIInv
-----------------------------------------------------------------------------
\* What death or a failing Append leaves of the spool.

Trimmed(t) ==
    LET s == spool[log.version]
    IN  \/ t = s
        \/ /\ Len(s) = log.size + 1
           /\ t = Abstract!Settled(s) \/ t = Append(Abstract!Settled(s), Torn)

\* An incomplete record counts as a batch of the size of a marker.
LEMMA TornBatch == Torn \in LogBatches /\ Cost(Torn) = 1
  BY Zenon DEF Torn, LogBatches, Cost

\* No batch is smaller than a marker.
LEMMA CostOfBatch == ASSUME NEW b PROVE Cost(b) \in Nat /\ Cost(b) >= 1
  BY OperationLogConstants DEF Cost

\* What is left fits, and is what was synced, with at most one batch more.
LEMMA TrimmedFacts ==
    ASSUME LogIInv, log.version > 0, NEW t, Trimmed(t)
    PROVE  /\ t \in Seq(LogBatches) /\ SpoolFits(t)
           /\ log.size <= Len(t) /\ Len(t) <= log.size + 1
           /\ \A i \in 1 .. log.size : t[i] = spool[log.version][i]
<1> DEFINE s == spool[log.version]
           f == Abstract!Settled(s)
<1>1. /\ s \in Seq(LogBatches) /\ Len(s) \in Nat /\ log.size \in Nat
      /\ log.size <= Len(s) /\ Len(s) <= log.size + 1 /\ FileSize(s) <= MaxFile
  BY Zenon, SpoolFacts, OpenLog DEF LogIInv, AllFit, SpoolFits
<1>2. t = s \/ (Len(s) = log.size + 1 /\ (t = f \/ t = Append(f, Torn)))
  BY Zenon DEF Trimmed
<1> HIDE DEF s
<1>3. CASE t = s
  BY Zenon, <1>1, <1>3 DEF SpoolFits, s
<1>4. CASE Len(s) = log.size + 1 /\ (t = f \/ t = Append(f, Torn))
  <2>1. s # << >>
    BY SMTT(60), <1>1, <1>4
  <2>2. /\ f \in Seq(LogBatches) /\ Len(f) = log.size /\ s[Len(s)] \in LogBatches
        /\ \A i \in 1 .. log.size : f[i] = s[i]
        /\ s = Append(f, s[Len(s)])
    BY SMTT(60), <1>1, <1>4, <2>1, SpoolSeq DEF Abstract!Settled
  <2> HIDE DEF f
  <2>3. /\ FileSize(f) \in Nat /\ FileSize(s) = FileSize(f) + Cost(s[Len(s)])
        /\ FileSize(Append(f, Torn)) = FileSize(f) + 1
    BY Zenon, <2>2, TornBatch, FileSizeAppend
  <2>4. SpoolFits(f) /\ SpoolFits(Append(f, Torn))
    <3>1. Cost(s[Len(s)]) \in Nat /\ Cost(s[Len(s)]) >= 1 /\ MaxFile \in Nat
      BY CostOfBatch, LogRoom
    <3> QED
      BY <1>1, <2>3, <3>1 DEF SpoolFits
  <2>5. /\ Append(f, Torn) \in Seq(LogBatches) /\ Len(Append(f, Torn)) = log.size + 1
        /\ \A i \in 1 .. log.size : Append(f, Torn)[i] = s[i]
    BY <2>2, TornBatch, SpoolAppend
  <2>6. t = f \/ t = Append(f, Torn)
    BY Zenon, <1>4
  <2>7. log.size <= Len(t) /\ Len(t) <= log.size + 1
    BY <1>1, <2>2, <2>5, <2>6
  <2> QED
    BY Zenon, <2>2, <2>4, <2>5, <2>6, <2>7 DEF s
<1> QED
  BY Zenon, <1>2, <1>3, <1>4

\* A step that writes one spool leaves the others alone.
LEMMA Replaced ==
    ASSUME LogType, NEW v \in LogVersions, NEW t, spool' = [spool EXCEPT ![v] = t]
    PROVE  /\ spool'[v] = t /\ spool' = [spool EXCEPT ![v] = spool'[v]]
           /\ t = spool[v] => spool' = spool
           /\ \A w \in LogVersions : w # v => spool'[w] = spool[w]
           /\ t \in Seq(LogBatches) => spool' \in [LogVersions -> Seq(LogBatches)]
<1>1. spool \in [LogVersions -> Seq(LogBatches)]
  BY Zenon DEF LogType
<1> QED
  BY Zenon, <1>1

\* Death and failure withdraw the last batch, write it anew or leave it; Gitea
\* has not received it.
LEMMA TrimmedMaps ==
    ASSUME LogIInv, log.version > 0, NEW t, Trimmed(t),
           spool' = [spool EXCEPT ![log.version] = t], UNCHANGED <<issued, remote>>
    PROVE  [Abstract!Proceed]_(Abstract!deliveryVars)
<1> DEFINE v == log.version
           s == spool[v]
<1>1. /\ v \in LogVersions /\ s \in Seq(LogBatches) /\ Len(s) \in Nat /\ log.size \in Nat
      /\ Len(remote[v]) \in Nat
      /\ spool'[v] = t /\ spool' = [spool EXCEPT ![v] = spool'[v]]
      /\ t = spool[v] => spool' = spool
  BY Zenon, SpoolFacts, OpenLog, Replaced DEF LogIInv
<1>2. CASE t = s
  BY Zenon, <1>1, <1>2 DEF Abstract!deliveryVars
<1>3. CASE /\ Len(s) = log.size + 1
           /\ t = Abstract!Settled(s) \/ t = Append(Abstract!Settled(s), Torn)
  <2>1. Len(remote[v]) < Len(s)
    <3>1. CASE Received(v)
      BY SMTT(60), <1>1, <1>3, <3>1, SpoolFacts DEF Received, LogIInv
    <3>2. CASE Pruned(v)
      BY <1>1, <1>3, <3>2 DEF Pruned
    <3> QED
      BY Zenon, <1>1, <3>1, <3>2 DEF LogIInv, AllReceived
  <2>2. CASE t = Abstract!Settled(s)
    <3>1. Abstract!Withdraw(v)
      BY Zenon, <1>1, <2>1, <2>2 DEF Abstract!Withdraw
    <3> QED
      BY Zenon, <1>1, <3>1 DEF Abstract!Proceed
  <2>3. CASE t = Append(Abstract!Settled(s), Torn)
    <3>a. s # << >>
      BY <1>1, <1>3
    <3>b. Abstract!Settled(s) \in Seq(LogBatches)
      BY Zenon, <1>1, <3>a, SpoolSeq DEF Abstract!Settled
    <3>c. t # << >> /\ Abstract!Settled(t) = Abstract!Settled(s)
      <4> DEFINE f == Abstract!Settled(s)
      <4>1. f \in Seq(LogBatches) /\ t = Append(f, Torn)
        BY Zenon, <2>3, <3>b
      <4> HIDE DEF f
      <4>2. t # << >> /\ Len(t) = Len(f) + 1 /\ SubSeq(t, 1, Len(f)) = f /\ Len(f) \in Nat
        BY Zenon, <4>1, TornBatch, SpoolAppend
      <4>3. Len(t) - 1 = Len(f)
        BY <4>2
      <4> QED
        BY Zenon, <4>2, <4>3 DEF Abstract!Settled, f
    <3>d. SpoolFits(t)
      BY Zenon, TrimmedFacts
    <3>1. Abstract!Rewrite(v)
      BY Zenon, <1>1, <2>1, <3>c, <3>d DEF Abstract!Rewrite
    <3> QED
      BY Zenon, <1>1, <3>1 DEF Abstract!Proceed
  <2> QED
    BY Zenon, <1>3, <2>2, <2>3
<1> QED
  BY Zenon, <1>2, <1>3 DEF Trimmed

\* AgentDies leaves such a spool.
LEMMA DeathTrims ==
    ASSUME LogIInv, AgentDies
    PROVE  \E t : Trimmed(t) /\ spool' = [spool EXCEPT ![log.version] = t]
<1> DEFINE s == spool[log.version]
           d == SubSeq(s, 1, IF writing = Torn THEN log.size ELSE Len(s) - 1)
<1>a. log.version > 0
  BY Zenon DEF AgentDies
<1>1. /\ s \in Seq(LogBatches) /\ Len(s) \in Nat /\ log.size \in Nat
      /\ Len(s) = log.size \/ Len(s) = log.size + 1
      /\ writing # Torn => Len(s) = log.size + 1
  BY Zenon, <1>a, SpoolFacts, OpenLog DEF LogIInv, OneBeyond
<1>2. PICK left \in {d, s} \cup (IF writing = Torn THEN {} ELSE {Append(d, Torn)}) :
         spool' = [spool EXCEPT ![log.version] = left]
  BY Zenon DEF AgentDies
<1>3. SubSeq(s, 1, Len(s)) = s
  BY <1>1
<1>4. CASE Len(s) = log.size
  <2>1. d = s /\ writing = Torn
    BY <1>1, <1>3, <1>4
  <2> QED
    BY Zenon, <1>2, <2>1 DEF Trimmed
<1>5. CASE Len(s) = log.size + 1
  <2>1. Len(s) - 1 = log.size
    BY <1>1, <1>5
  <2>2. d = Abstract!Settled(s)
    BY Zenon, <2>1 DEF Abstract!Settled
  <2> QED
    BY Zenon, <1>2, <1>5, <2>2 DEF Trimmed
<1> QED
  BY Zenon, <1>1, <1>4, <1>5

\* So does AppendFails.
LEMMA FailureTrims ==
    ASSUME LogIInv, AppendFails
    PROVE  /\ \E t : Trimmed(t) /\ spool' = [spool EXCEPT ![log.version] = t]
           /\ log.version > 0
<1> DEFINE s == spool[log.version]
<1>a. log.version > 0 /\ log.version \in LogVersions
  BY OpenLog DEF AppendFails, LogIInv, Operations, LogType
<1>1. /\ s \in Seq(LogBatches) /\ Len(s) \in Nat /\ log.size \in Nat
      /\ Len(s) = log.size + 1 /\ s[Len(s)] = writing
  BY Zenon, <1>a, SpoolFacts DEF LogIInv, OneBeyond, AppendFails
<1>2. Len(s) - 1 = log.size /\ s # << >>
  BY <1>1
<1>3. SubSeq(s, 1, log.size) = Abstract!Settled(s)
  BY Zenon, <1>2 DEF Abstract!Settled
<1>4. Append(Abstract!Settled(s), writing) = s
  BY Zenon, <1>1, <1>2, SpoolSeq DEF Abstract!Settled
<1>5. \/ spool' = [spool EXCEPT ![log.version] = Append(Abstract!Settled(s), writing)]
      \/ spool' = [spool EXCEPT ![log.version] = Append(Abstract!Settled(s), Torn)]
      \/ spool' = [spool EXCEPT ![log.version] = Abstract!Settled(s)]
  BY Zenon, <1>a, <1>3 DEF AppendFails, Put
<1> QED
  BY Zenon, <1>a, <1>1, <1>4, <1>5 DEF Trimmed
-----------------------------------------------------------------------------
\* The steps keep the invariant.

\* A step that changes nothing keeps the invariant.
LEMMA LogStutter == LogIInv /\ UNCHANGED logVars => LogIInv'
<1> SUFFICES ASSUME LogIInv, UNCHANGED logVars PROVE LogIInv'
  OBVIOUS
<1>1. UNCHANGED <<issued, remote, net, spool, ckpt, finished, log, out, writing, flush, made>>
  BY Zenon DEF logVars, logGitea, logFiles, logProcess
<1>2. LogType' /\ Operations' /\ OneBeyond' /\ AllFit'
  BY Zenon, <1>1 DEF LogIInv, LogType, Operations, OneBeyond, AllFit
<1>3. AllReceived'
  BY Zenon, <1>1 DEF LogIInv, AllReceived, Received, Pruned, Visible
<1>4. Requests'
  BY Zenon, <1>1 DEF LogIInv, Requests, EndsAt, Visible
<1>5. Checkpoints'
  BY Zenon, <1>1 DEF LogIInv, Checkpoints, EndsAt, Visible
<1> QED
  BY Zenon, <1>2, <1>3, <1>4, <1>5 DEF LogIInv

\* Issue: nothing is there yet for the new operation.
LEMMA IssueKeeps == LogIInv /\ Issue => LogIInv'
<1> SUFFICES ASSUME LogIInv, Issue PROVE LogIInv'
  OBVIOUS
<1>1. /\ issued' = issued + 1 /\ issued < LastLog
      /\ UNCHANGED <<remote, net, spool, ckpt, finished, log, out, writing, flush, made>>
  BY Zenon DEF Issue, logFiles, logProcess
<1>2. /\ issued \in Nat /\ issued' \in 0 .. LastLog /\ log.version \in Nat /\ finished \in Nat
      /\ LastLog \in Nat
  BY <1>1, LogNumbers DEF LogIInv
<1>3. LogType'
  BY Zenon, <1>1, <1>2 DEF LogIInv, LogType
<1>4. Operations'
  BY <1>1, <1>2 DEF LogIInv, Operations
<1>5. OneBeyond' /\ AllFit'
  BY Zenon, <1>1 DEF LogIInv, OneBeyond, AllFit
<1>6. AllReceived'
  <2> SUFFICES ASSUME NEW v \in LogVersions PROVE Received(v)' \/ Pruned(v)'
    BY Zenon DEF AllReceived
  <2>1. v \in Nat
    BY Zenon, SpoolFacts DEF LogIInv
  <2>2. Received(v) \/ Pruned(v)
    BY Zenon DEF LogIInv, AllReceived
  <2>3. Received(v) => Received(v)'
    BY Zenon, <1>1 DEF Received, Visible
  <2>4. Pruned(v) => Pruned(v)'
    BY <1>1, <1>2, <2>1 DEF Pruned
  <2> QED
    BY Zenon, <2>2, <2>3, <2>4
<1>7. Requests'
  <2>1. \A r \in net : r.version \in Nat /\ r.version <= issued
    <3>1. \A r \in net : r.version \in LogVersions /\ r.version <= issued
      BY Zenon DEF LogIInv, LogType, Requests
    <3> QED
      BY <3>1, <1>2 DEF LogVersions
  <2>2. \A r \in net : r.version <= issued' /\ r.version # issued'
    BY <1>1, <1>2, <2>1
  <2> QED
    BY Zenon, <1>1, <2>2 DEF Requests
<1>8. Checkpoints'
  <2>1. log.version <= issued /\ finished <= issued /\ issued' \in LogVersions
    BY SMTT(60), <1>1, <1>2 DEF LogIInv, Operations, LogVersions
  <2>2. ~ckpt[issued'].exists /\ \A v \in LogVersions : v > issued' => ~ckpt[v].exists
    BY <1>1, <1>2, <2>1 DEF LogIInv, Checkpoints, LogVersions
  <2>3. log.version # issued' /\ finished # issued'
    BY <1>1, <1>2, <2>1
  <2> QED
    BY Zenon, <1>1, <2>2, <2>3 DEF LogIInv, Checkpoints
<1> QED
  BY Zenon, <1>3, <1>4, <1>5, <1>6, <1>7, <1>8 DEF LogIInv

\* Steps that leave what Flush may read, and what it does, alone.
LEMMA OutputKeeps ==
    ASSUME LogIInv, LogType', Operations', OneBeyond', finished <= finished',
           finished' = finished \/ finished' = log.version,
           log.version > 0, log'.version = log.version, log'.size = log.size,
           log'.pos = log.pos, log'.off = log.off, log'.closed = log.closed,
           UNCHANGED <<issued, remote, net, spool, ckpt, flush>>
    PROVE  LogIInv'
<1>2. finished \in Nat /\ finished' \in Nat
  BY LogNumbers DEF LogIInv
<1>3. \A v \in LogVersions : Settling(v)
  BY Zenon, <1>2, SameSettled
<1>4. AllReceived' /\ Requests' /\ AllFit'
  BY Zenon, <1>3, StillReceived, StillRequested DEF LogIInv, AllFit
<1>5. Checkpoints'
  <2>1. \A p, off : EndsAt(p, off)' = EndsAt(p, off)
    BY Zenon DEF EndsAt, Visible
  <2> HIDE DEF EndsAt
  <2> QED
    BY Zenon, <2>1 DEF LogIInv, Checkpoints
<1> QED
  BY Zenon, <1>4, <1>5 DEF LogIInv

\* WriteLine, DiscardLines and EndOutput keep the invariant.
LEMMA WriteLineKeeps == LogIInv /\ WriteLine => LogIInv'
<1> SUFFICES ASSUME LogIInv, WriteLine PROVE LogIInv'
  OBVIOUS
<1>1. /\ UNCHANGED <<issued, remote, net, spool, ckpt, finished, log, writing, flush>>
      /\ log.version > finished /\ log.version > 0
      /\ ~out.lines /\ ~out.err /\ made' = made + 1
      /\ out' = [out EXCEPT !.lines = TRUE, !.started = TRUE]
  BY Zenon DEF WriteLine, Executing, logGitea, logFiles
<1>2. made \in Nat /\ finished \in Nat /\ log.version \in Nat /\ DOMAIN out = OutFields
  BY Zenon, LogNumbers DEF LogIInv, LogType
<1>3. made' \in Nat /\ DOMAIN out' = OutFields /\ out'.err = out.err /\ out'.lines = TRUE
  BY <1>1, <1>2 DEF OutFields
<1>4. LogType'
  BY Zenon, <1>1, <1>3 DEF LogIInv, LogType
<1>5. Operations' /\ finished <= finished'
  BY <1>1, <1>2, <1>3 DEF LogIInv, Operations
<1>6. OneBeyond'
  BY Zenon, <1>1, <1>3 DEF LogIInv, OneBeyond
<1> QED
  BY Zenon, <1>1, <1>4, <1>5, <1>6, OutputKeeps

\* DiscardLines.
LEMMA DiscardKeeps == LogIInv /\ DiscardLines => LogIInv'
<1> SUFFICES ASSUME LogIInv, DiscardLines PROVE LogIInv'
  OBVIOUS
<1>1. /\ UNCHANGED <<issued, remote, net, spool, ckpt, finished, writing, flush, made>>
      /\ out.lines /\ writing = Torn
      /\ \/ out' = [out EXCEPT !.lines = FALSE] /\ log' = log
         \/ /\ out' = [out EXCEPT !.lines = FALSE, !.truncated = TRUE]
            /\ log' = [log EXCEPT !.full = TRUE]
  BY Zenon DEF DiscardLines, logGitea, logFiles
<1>2. finished \in Nat /\ log.version \in Nat /\ DOMAIN out = OutFields /\ DOMAIN log = LogFields
  BY Zenon, LogNumbers DEF LogIInv, LogType
<1>3. DOMAIN out' = OutFields /\ out'.err = out.err /\ out'.lines = FALSE
  BY Zenon, <1>1, <1>2 DEF OutFields
<1>4. /\ DOMAIN log' = LogFields /\ log'.version = log.version /\ log'.size = log.size
      /\ log'.pos = log.pos /\ log'.off = log.off /\ log'.closed = log.closed
  BY Zenon, <1>1, <1>2 DEF LogFields
<1>5. LogType'
  BY Zenon, <1>1, <1>3, <1>4 DEF LogIInv, LogType
<1>6. Operations' /\ finished <= finished' /\ log.version > 0
  BY <1>1, <1>2, <1>3, <1>4 DEF LogIInv, Operations
<1>7. OneBeyond'
  BY Zenon, <1>1, <1>3, <1>4 DEF LogIInv, OneBeyond
<1> QED
  BY Zenon, <1>1, <1>4, <1>5, <1>6, <1>7, OutputKeeps

\* EndOutput: what is finished has its log open, so its checkpoint exists.
LEMMA EndOutputKeeps == LogIInv /\ EndOutput => LogIInv'
<1> SUFFICES ASSUME LogIInv, EndOutput PROVE LogIInv'
  OBVIOUS
<1>1. /\ UNCHANGED <<issued, remote, net, spool, ckpt, log, out, writing, flush, made>>
      /\ log.version > finished /\ log.version > 0 /\ ~out.lines
      /\ finished' = log.version
  BY Zenon DEF EndOutput, Executing, logGitea, logProcess
<1>2. finished \in Nat /\ log.version \in Nat /\ log.version \in 0 .. LastLog
  BY OperationLogConstants DEF LogIInv, LogType
<1>3. LogType'
  BY Zenon, <1>1, <1>2 DEF LogIInv, LogType
<1>4. Operations' /\ finished <= finished'
  BY <1>1, <1>2 DEF LogIInv, Operations
<1>5. OneBeyond'
  BY Zenon, <1>1 DEF LogIInv, OneBeyond
<1> QED
  BY Zenon, <1>1, <1>3, <1>4, <1>5, OutputKeeps

\* Steps that change the spool or its size.
LEMMA SpoolKeeps ==
    ASSUME LogIInv, LogType', Operations', OneBeyond', AllFit',
           UNCHANGED <<issued, remote, net, ckpt, finished>>,
           \A v \in LogVersions : Settling(v),
           \/ /\ log'.version = log.version /\ log.size <= log'.size /\ log'.pos = log.pos
              /\ log'.off = log.off /\ log'.closed = log.closed /\ UNCHANGED flush
           \/ log'.version = 0 /\ flush'.phase = "idle"
    PROVE  LogIInv'
<1>1. AllReceived' /\ Requests'
  BY Zenon, StillReceived, StillRequested
<1>2. Checkpoints'
  <2>1. /\ log.pos \in Nat /\ log.size \in Nat /\ log'.size \in Nat /\ log.pos + 1 \in Nat
        /\ issued \in Nat
        /\ issued > 0 => issued \in LogVersions
    <3>1. /\ issued \in 0 .. LastLog /\ LastLog \in Nat /\ log.pos \in Nat /\ log.size \in Nat
          /\ log'.size \in Nat
      BY Zenon, OperationLogConstants DEF LogIInv, LogType
    <3> QED
      BY <3>1 DEF LogVersions
  <2>2. \A off : \A p \in Nat : issued > 0 /\ EndsAt(p, off) => EndsAt(p, off)'
    BY Zenon, <2>1, StillAt
  <2>3. issued > 0 => ckpt[issued].pos \in Nat
    BY Zenon, <2>1 DEF LogIInv, LogType
  <2>4. CASE log'.version = 0 /\ flush'.phase = "idle"
    BY <2>1, <2>2, <2>3, <2>4 DEF LogIInv, Checkpoints
  <2>5. CASE /\ log'.version = log.version /\ log.size <= log'.size /\ log'.pos = log.pos
             /\ log'.off = log.off /\ log'.closed = log.closed /\ UNCHANGED flush
    <3>1. flush'.phase # "idle" => log'.version > 0 /\ ~log'.closed /\ log'.pos < log'.size
      BY <2>1, <2>5 DEF LogIInv, Checkpoints
    <3> HIDE DEF EndsAt
    <3> QED
      BY Zenon, <2>1, <2>2, <2>3, <2>5, <3>1 DEF LogIInv, Checkpoints
  <2> QED
    BY Zenon, <2>4, <2>5
<1> QED
  BY Zenon, <1>1, <1>2 DEF LogIInv

\* Death and failure change nothing that Flush may read.
LEMMA TrimmedSettles ==
    ASSUME LogIInv, LogType', log.version > 0, NEW t, Trimmed(t),
           spool' = [spool EXCEPT ![log.version] = t], UNCHANGED <<issued, finished>>,
           \/ log'.version = 0
           \/ log'.version = log.version /\ log'.size = log.size,
           NEW v \in LogVersions
    PROVE  Settling(v)
<1>1. /\ log.version \in LogVersions /\ log.size \in Nat /\ spool'[log.version] = t
      /\ \A w \in LogVersions : w # log.version => spool'[w] = spool[w]
      /\ t \in Seq(LogBatches) /\ log.size <= Len(t) /\ Len(t) <= log.size + 1
      /\ \A i \in 1 .. log.size : t[i] = spool[log.version][i]
  BY Zenon, OpenLog, Replaced, TrimmedFacts, SpoolFacts DEF LogIInv
<1>2. Len(t) \in Nat /\ v \in Nat /\ v > 0 /\ Visible(v) \in Nat
  BY <1>1, SpoolFacts DEF LogIInv, LogVersions
<1>3. CASE v # log.version
  <2>1. spool'[v] = spool[v] /\ Visible(v)' = Visible(v)
    BY <1>1, <1>2, <1>3 DEF Visible
  <2> QED
    BY <2>1, <1>2, <1>3 DEF Settling, Pruned, Longer
<1>4. CASE v = log.version
  <2>1. Visible(v) = log.size /\ (Visible(v)' = log.size \/ Visible(v)' = Len(t))
    BY <1>1, <1>2, <1>4 DEF Visible
  <2>2. Longer(v)
    BY <1>1, <1>2, <1>4, <2>1 DEF Longer
  <2>3. Pruned(v) => Pruned(v)'
    <3> SUFFICES ASSUME Pruned(v) PROVE Pruned(v)'
      OBVIOUS
    <3>1. Len(spool[v]) = 0 /\ log.size <= Len(spool[v])
      BY Zenon, <1>4, SpoolFacts DEF Pruned, LogIInv
    <3>2. Len(spool[v]) # log.size + 1
      BY <1>1, <3>1
    <3>3. t = spool[v]
      BY Zenon, <1>4, <3>2 DEF Trimmed
    <3> QED
      BY Zenon, <1>1, <1>4, <3>3 DEF Pruned
  <2> QED
    BY Zenon, <2>2, <2>3 DEF Settling
<1> QED
  BY Zenon, <1>3, <1>4

\* Nor do they make a spool larger.
LEMMA TrimmedFits ==
    ASSUME LogIInv, log.version > 0, NEW t, Trimmed(t),
           spool' = [spool EXCEPT ![log.version] = t]
    PROVE  /\ spool' \in [LogVersions -> Seq(LogBatches)] /\ AllFit'
           /\ spool'[log.version] = t
<1>1. /\ log.version \in LogVersions /\ spool'[log.version] = t
      /\ \A w \in LogVersions : w # log.version => spool'[w] = spool[w]
      /\ SpoolFits(t) /\ spool' \in [LogVersions -> Seq(LogBatches)]
  BY Zenon, OpenLog, Replaced, TrimmedFacts DEF LogIInv
<1> QED
  BY Zenon, <1>1 DEF LogIInv, AllFit

\* AgentDies keeps the invariant.
LEMMA AgentDiesKeeps == LogIInv /\ AgentDies => LogIInv'
<1> SUFFICES ASSUME LogIInv, AgentDies PROVE LogIInv'
  OBVIOUS
<1>1. PICK t : Trimmed(t) /\ spool' = [spool EXCEPT ![log.version] = t]
  BY Zenon, DeathTrims
<1>2. /\ log.version > 0 /\ log' = NoLog /\ out' = NoOut /\ writing' = Torn /\ flush' = NoFlush
      /\ UNCHANGED <<issued, remote, net, ckpt, finished, made>>
  BY Zenon DEF AgentDies, logGitea
<1>3. spool' \in [LogVersions -> Seq(LogBatches)] /\ AllFit'
  BY Zenon, <1>1, <1>2, TrimmedFits
<1>4. /\ log'.version = 0 /\ flush'.phase = "idle" /\ DOMAIN log' = LogFields
      /\ log'.pos \in Nat /\ log'.off \in Nat /\ log'.size \in Nat /\ DOMAIN out' = OutFields
      /\ DOMAIN flush' = {"phase", "next", "closed"} /\ flush'.next \in Nat
      /\ log'.version \in 0 .. LastLog /\ ~out'.lines /\ issued \in Nat /\ writing' \in LogBatches
  BY <1>2, TornBatch, OperationLogConstants
  DEF NoLog, NoFlush, NoOut, LogFields, OutFields, LogIInv, LogType
<1>5. LogType'
  BY Zenon, <1>2, <1>3, <1>4 DEF LogIInv, LogType
<1>6. Operations' /\ OneBeyond'
  BY <1>2, <1>4 DEF LogIInv, Operations, OneBeyond
<1>7. \A v \in LogVersions : Settling(v)
  BY Zenon, <1>1, <1>2, <1>4, <1>5, TrimmedSettles
<1> QED
  BY Zenon, <1>2, <1>3, <1>4, <1>5, <1>6, <1>7, SpoolKeeps

\* AppendFails keeps it: after it nothing is appended.
LEMMA AppendFailsKeeps == LogIInv /\ AppendFails => LogIInv'
<1> SUFFICES ASSUME LogIInv, AppendFails PROVE LogIInv'
  OBVIOUS
<1>1. PICK t : Trimmed(t) /\ spool' = [spool EXCEPT ![log.version] = t]
  BY Zenon, FailureTrims
<1>2. /\ log.version > 0 /\ writing' = Torn /\ out' = [out EXCEPT !.lines = FALSE, !.err = TRUE]
      /\ UNCHANGED <<issued, remote, net, ckpt, finished, log, flush, made>>
  BY Zenon, FailureTrims DEF AppendFails, logGitea
<1>3. spool' \in [LogVersions -> Seq(LogBatches)] /\ AllFit' /\ spool'[log.version] = t
  BY Zenon, <1>1, <1>2, TrimmedFits
<1>4. /\ DOMAIN out' = OutFields /\ ~out'.lines /\ out'.err /\ writing' \in LogBatches
  BY Zenon, <1>2, TornBatch DEF OutFields, LogIInv, LogType
<1>5. LogType'
  BY Zenon, <1>2, <1>3, <1>4 DEF LogIInv, LogType
<1>6. Operations'
  BY Zenon, <1>2, <1>4 DEF LogIInv, Operations
<1>7. OneBeyond'
  <2>1. /\ log.size <= Len(t) /\ Len(t) <= log.size + 1 /\ t \in Seq(LogBatches)
        /\ log.size \in Nat
    BY Zenon, <1>1, <1>2, TrimmedFacts DEF LogIInv, LogType
  <2>2. Len(t) = log.size \/ Len(t) = log.size + 1
    BY <2>1
  <2> QED
    BY Zenon, <1>2, <1>3, <1>4, <2>2 DEF OneBeyond
<1>8. \A v \in LogVersions : Settling(v)
  BY Zenon, <1>1, <1>2, <1>5, TrimmedSettles
<1>9. log.size <= log'.size
  BY <1>2 DEF LogIInv, LogType
<1> QED
  BY Zenon, <1>2, <1>3, <1>5, <1>6, <1>7, <1>8, <1>9, SpoolKeeps

\* Append writes at the end of a spool that is synced throughout, and there is room.
LEMMA AppendBatchFacts ==
    ASSUME LogIInv, AppendBatch
    PROVE  LET s == spool[log.version]
               b == writing'
           IN  /\ log.version > 0 /\ log.version \in LogVersions /\ finished < log.version
               /\ Len(s) = log.size /\ s \in Seq(LogBatches) /\ log.size \in Nat
               /\ b \in LogBatches /\ b # Torn /\ SpoolFits(Append(s, b))
               /\ spool' = [spool EXCEPT ![log.version] = Append(s, b)]
<1> DEFINE s == spool[log.version]
           b == writing'
<1>1. /\ out.lines /\ writing = Torn /\ (LinesFit \/ MarkerFits)
      /\ b = [id |-> made, marker |-> ~LinesFit] /\ spool' = Put(b)
  BY Zenon DEF AppendBatch
<1>2. /\ finished < log.version /\ ~out.err /\ made > 0 /\ made \in Nat
      /\ finished \in Nat /\ log.version \in Nat /\ log.version > 0
  BY <1>1, LogNumbers DEF LogIInv, Operations
<1>3. log.version \in LogVersions
  BY Zenon, <1>2, OpenLog DEF LogIInv
<1>4. /\ Len(s) = log.size /\ s \in Seq(LogBatches) /\ log.size \in Nat /\ FileSize(s) <= MaxFile
  BY Zenon, <1>1, <1>2, <1>3, SpoolFacts DEF LogIInv, OneBeyond, AllFit, SpoolFits
<1>5. SubSeq(s, 1, log.size) = s
  BY <1>4
<1>6. b \in LogBatches /\ b # Torn
  <2>1. (~LinesFit) \in BOOLEAN
    BY Zenon
  <2>2. b \in LogBatches
    BY Zenon, <1>1, <1>2, <2>1 DEF LogBatches
  <2>3. b.id = made /\ Torn.id = 0
    BY Zenon, <1>1 DEF Torn
  <2> QED
    BY <1>2, <2>2, <2>3
<1>7. spool' = [spool EXCEPT ![log.version] = Append(s, b)]
  BY Zenon, <1>1, <1>3, <1>5 DEF Put, LogIInv, LogType
<1>8. SpoolFits(Append(s, b))
  <2>1. FileSize(s) \in Nat /\ FileSize(Append(s, b)) = FileSize(s) + Cost(b)
    BY Zenon, <1>4, <1>6, FileSizeAppend
  <2>2. Used = FileSize(s)
    BY Zenon, <1>5 DEF Used
  <2>3. BatchSize \in Nat /\ Reserve \in Nat /\ MaxFile \in Nat /\ Reserve < MaxFile
    BY Zenon, OperationLogConstants
  <2>4. CASE LinesFit
    <3>1. Cost(b) = BatchSize
      BY Zenon, <1>1, <2>4 DEF Cost
    <3> QED
      BY SMTT(60), <2>1, <2>2, <2>3, <2>4, <3>1 DEF LinesFit, SpoolFits
  <2>5. CASE ~LinesFit
    <3>1. Cost(b) = 1
      BY Zenon, <1>1, <2>5 DEF Cost
    <3> QED
      BY Zenon, <1>1, <2>1, <2>2, <2>3, <2>5, <3>1 DEF MarkerFits, SpoolFits
  <2> QED
    BY Zenon, <2>4, <2>5
<1> QED
  BY Zenon, <1>2, <1>3, <1>4, <1>6, <1>7, <1>8

\* AppendBatch: one batch is beyond what is synced.
LEMMA AppendBatchKeeps == LogIInv /\ AppendBatch => LogIInv'
<1> SUFFICES ASSUME LogIInv, AppendBatch PROVE LogIInv'
  OBVIOUS
<1> DEFINE s == spool[log.version]
           b == writing'
           t == Append(s, b)
<1>1. /\ log.version > 0 /\ log.version \in LogVersions /\ finished < log.version
      /\ Len(s) = log.size /\ s \in Seq(LogBatches) /\ log.size \in Nat
      /\ b \in LogBatches /\ b # Torn /\ SpoolFits(t)
      /\ spool' = [spool EXCEPT ![log.version] = t]
  BY Zenon, AppendBatchFacts
<1>2. /\ UNCHANGED <<issued, remote, net, ckpt, finished, out, flush, made>>
      /\ out.lines /\ log' = [log EXCEPT !.full = ~LinesFit]
  BY Zenon DEF AppendBatch, logGitea
<1>3. /\ t \in Seq(LogBatches) /\ Len(t) = log.size + 1 /\ t[Len(t)] = b
      /\ \A i \in 1 .. log.size : t[i] = s[i]
  BY <1>1, SpoolAppend
<1> HIDE DEF t
<1>4. /\ spool'[log.version] = t /\ spool' \in [LogVersions -> Seq(LogBatches)]
      /\ \A w \in LogVersions : w # log.version => spool'[w] = spool[w]
  BY Zenon, <1>1, <1>3, Replaced DEF LogIInv
<1>5. /\ DOMAIN log' = LogFields /\ log'.version = log.version /\ log'.size = log.size
      /\ log'.pos = log.pos /\ log'.off = log.off /\ log'.closed = log.closed
  BY Zenon, <1>2 DEF LogFields, LogIInv, LogType
<1>6. LogType'
  BY Zenon, <1>1, <1>2, <1>4, <1>5 DEF LogIInv, LogType
<1>7. Operations'
  BY Zenon, <1>2, <1>5 DEF LogIInv, Operations
<1>8. OneBeyond'
  BY Zenon, <1>1, <1>3, <1>4, <1>5 DEF OneBeyond
<1>9. AllFit'
  BY Zenon, <1>1, <1>4 DEF LogIInv, AllFit
<1>10. ASSUME NEW v \in LogVersions PROVE Settling(v)
  <2>1. Visible(v) \in Nat /\ v \in Nat /\ log.version \in Nat /\ finished \in Nat
    <3>1. finished \in Nat
      BY LogNumbers DEF LogIInv
    <3> QED
      BY Zenon, <3>1, SpoolFacts DEF LogIInv
  <2>2. CASE v # log.version
    <3>1. spool'[v] = spool[v] /\ Visible(v)' = Visible(v)
      BY Zenon, <1>4, <1>5, <2>2 DEF Visible
    <3> QED
      BY SMTT(60), <1>2, <1>5, <2>1, <2>2, <3>1 DEF Settling, Longer, Pruned
  <2>3. CASE v = log.version
    <3>1. Visible(v)' = log.size /\ Visible(v) = log.size
      BY Zenon, <1>5, <2>3 DEF Visible
    <3>2. Longer(v)
      BY SMTT(60), <1>1, <1>3, <1>4, <2>3, <3>1 DEF Longer
    <3>3. ~Pruned(v)
      BY SMTT(60), <1>1, <2>1, <2>3 DEF Pruned
    <3> QED
      BY Zenon, <3>2, <3>3 DEF Settling
  <2> QED
    BY Zenon, <2>2, <2>3
<1>11. log.size <= log'.size
  BY <1>1, <1>5
<1> QED
  BY Zenon, <1>2, <1>5, <1>6, <1>7, <1>8, <1>9, <1>10, <1>11, SpoolKeeps

\* AppendSynced: no batch is.
LEMMA AppendSyncedKeeps == LogIInv /\ AppendSynced => LogIInv'
<1> SUFFICES ASSUME LogIInv, AppendSynced PROVE LogIInv'
  OBVIOUS
<1> DEFINE s == spool[log.version]
<1>1. /\ UNCHANGED <<issued, remote, net, spool, ckpt, finished, flush, made>>
      /\ writing # Torn /\ writing' = Torn /\ log' = [log EXCEPT !.size = Len(s)]
      /\ out' = [out EXCEPT !.lines = FALSE, !.truncated = log.full]
  BY Zenon DEF AppendSynced, logGitea, logFiles
<1>2. /\ out.lines /\ finished < log.version /\ finished \in Nat /\ log.version \in Nat
      /\ log.version > 0
  BY <1>1, LogNumbers DEF LogIInv, Operations
<1>3. /\ log.version \in LogVersions /\ s \in Seq(LogBatches) /\ log.size \in Nat
      /\ Len(s) = log.size + 1
  BY Zenon, <1>1, <1>2, OpenLog, SpoolFacts DEF LogIInv, OneBeyond
<1>4. /\ DOMAIN log' = LogFields /\ log'.version = log.version /\ log'.size = Len(s)
      /\ log'.pos = log.pos /\ log'.off = log.off /\ log'.closed = log.closed
      /\ log'.size \in Nat /\ log.size <= log'.size
  BY <1>1, <1>3 DEF LogFields, LogIInv, LogType
<1>5. DOMAIN out' = OutFields /\ ~out'.lines /\ out'.err = out.err /\ writing' \in LogBatches
  BY Zenon, <1>1, TornBatch DEF OutFields, LogIInv, LogType
<1>6. LogType'
  BY Zenon, <1>1, <1>4, <1>5 DEF LogIInv, LogType
<1>7. Operations' /\ OneBeyond' /\ AllFit'
  BY Zenon, <1>1, <1>4, <1>5 DEF LogIInv, Operations, OneBeyond, AllFit
<1>8. ASSUME NEW v \in LogVersions PROVE Settling(v)
  <2>1. /\ Visible(v) \in Nat /\ v \in Nat /\ Visible(v) <= Len(spool[v])
        /\ Len(spool[v]) \in Nat
    BY Zenon, SpoolFacts DEF LogIInv
  <2>2. Visible(v)' = IF log.version = v THEN Len(spool[v]) ELSE Visible(v)
    BY Zenon, <1>1, <1>4 DEF Visible
  <2> QED
    BY <1>1, <1>4, <2>1, <2>2 DEF Settling, Longer, Pruned
<1> QED
  BY Zenon, <1>1, <1>4, <1>6, <1>7, <1>8, SpoolKeeps

\* Steps of Flush: they change neither a spool nor what is visible of it.
LEMMA FlushKeeps ==
    ASSUME LogIInv, LogType', Checkpoints', Requests',
           UNCHANGED <<issued, remote, spool, finished, out, writing, made>>,
           log'.version = log.version, log'.size = log.size
    PROVE  LogIInv'
<1>1. finished \in Nat
  BY LogNumbers DEF LogIInv
<1>2. \A v \in LogVersions : Settling(v)
  BY <1>1, SameSettled
<1>3. Operations' /\ OneBeyond' /\ AllFit'
  BY Zenon DEF LogIInv, Operations, OneBeyond, AllFit
<1>4. AllReceived'
  BY Zenon, <1>2, <1>3, StillReceived
<1> QED
  BY Zenon, <1>3, <1>4 DEF LogIInv

\* Positions and their offsets depend on the spool and on what is synced only.
LEMMA SameEnds ==
    ASSUME UNCHANGED <<issued, spool>>, log'.version = log.version, log'.size = log.size
    PROVE  \A p, off : EndsAt(p, off)' = EndsAt(p, off)
  BY Zenon DEF EndsAt, Visible

\* FlushSend: the request carries the batch at the checkpoint.
LEMMA FlushSendKeeps == LogIInv /\ FlushSend => LogIInv'
<1> SUFFICES ASSUME LogIInv, FlushSend PROVE LogIInv'
  OBVIOUS
<1>1. /\ UNCHANGED <<issued, remote, spool, ckpt, finished, log, out, writing, made>>
      /\ log.version > 0 /\ ~log.closed /\ log.pos < log.size
      /\ net' = net \cup {NextBatch} /\ flush' = [NoFlush EXCEPT !.phase = "sent"]
  BY Zenon DEF FlushSend, logFiles
<1>2. /\ log.version \in LogVersions /\ log.version \in Nat /\ issued \in Nat
      /\ log.pos \in Nat /\ log.size \in Nat /\ log.off \in Nat
      /\ log.version <= issued
      /\ spool[log.version] \in Seq(LogBatches) /\ log.size <= Len(spool[log.version])
  BY Zenon, <1>1, OpenLog, SpoolFacts DEF LogIInv, LogType, Operations
<1>3. /\ NextBatch.version = log.version /\ NextBatch.off = log.off
      /\ NextBatch.batch = spool[log.version][log.pos + 1]
      /\ NextBatch.batch \in LogBatches /\ DOMAIN NextBatch = {"version", "off", "batch"}
  BY <1>1, <1>2 DEF NextBatch
<1>4. /\ DOMAIN flush' = {"phase", "next", "closed"} /\ flush'.next \in Nat
      /\ flush'.phase = "sent"
  BY Zenon, <1>1 DEF NoFlush
<1>5. LogType'
  BY Zenon, <1>1, <1>2, <1>3, <1>4 DEF LogIInv, LogType
<1>6. \A p, off : EndsAt(p, off)' = EndsAt(p, off)
  BY Zenon, <1>1, SameEnds
<1>7. Checkpoints'
  <2> HIDE DEF EndsAt
  <2>1. flush'.phase # "acked"
    BY Zenon, <1>4
  <2> QED
    BY Zenon, <1>1, <1>6, <2>1 DEF LogIInv, Checkpoints
<1>8. Requests'
  <2> SUFFICES ASSUME NEW r \in net'
               PROVE  /\ r.version <= issued
                      /\ r.version = issued =>
                           \E p \in 0 .. Visible(issued)' - 1 :
                             r.batch = spool'[issued][p + 1] /\ EndsAt(p, r.off)'
    BY Zenon, <1>1 DEF Requests
  <2>1. Visible(issued)' = Visible(issued)
    BY Zenon, <1>1 DEF Visible
  <2>2. CASE r \in net
    <3> HIDE DEF EndsAt
    <3> QED
      BY Zenon, <1>1, <1>6, <2>1, <2>2 DEF LogIInv, Requests
  <2>3. CASE r = NextBatch
    <3> SUFFICES ASSUME log.version = issued
                 PROVE  \E p \in 0 .. Visible(issued)' - 1 :
                          r.batch = spool'[issued][p + 1] /\ EndsAt(p, r.off)'
      BY Zenon, <1>2, <1>3, <2>3
    <3>1. Visible(issued) = log.size /\ issued > 0
      BY Zenon, <1>1 DEF Visible
    <3>2. log.pos \in 0 .. Visible(issued)' - 1
      BY <1>1, <1>2, <2>1, <3>1
    <3>3. EndsAt(log.pos, log.off)
      BY Zenon, <1>1, <3>1 DEF LogIInv, Checkpoints
    <3> HIDE DEF EndsAt
    <3> QED
      BY Zenon, <1>1, <1>3, <1>6, <2>3, <3>2, <3>3
  <2> QED
    BY Zenon, <1>1, <2>2, <2>3
<1> QED
  BY Zenon, <1>1, <1>5, <1>7, <1>8, FlushKeeps

\* FlushFails keeps the invariant.
LEMMA FlushFailsKeeps == LogIInv /\ FlushFails => LogIInv'
<1> SUFFICES ASSUME LogIInv, FlushFails PROVE LogIInv'
  OBVIOUS
<1>1. /\ UNCHANGED <<issued, remote, net, spool, ckpt, finished, log, out, writing, made>>
      /\ flush' = NoFlush
  BY Zenon DEF FlushFails, logFiles, logGitea
<1>2. /\ DOMAIN flush' = {"phase", "next", "closed"} /\ flush'.next \in Nat
      /\ flush'.phase = "idle"
  BY Zenon, <1>1 DEF NoFlush
<1>3. LogType'
  BY Zenon, <1>1, <1>2 DEF LogIInv, LogType
<1>4. \A p, off : EndsAt(p, off)' = EndsAt(p, off)
  BY Zenon, <1>1, SameEnds
<1> HIDE DEF EndsAt
<1>5. Checkpoints'
  <2>1. flush'.phase # "acked" /\ ~(flush'.phase # "idle")
    BY Zenon, <1>2
  <2> QED
    BY Zenon, <1>1, <1>4, <2>1 DEF LogIInv, Checkpoints
<1>6. Requests'
  BY Zenon, <1>1, <1>4 DEF LogIInv, Requests, Visible
<1> QED
  BY Zenon, <1>1, <1>3, <1>5, <1>6, FlushKeeps

\* The next checkpoint is one batch further, at the offset where that one ends.
LEMMA NextCheckpointFacts ==
    ASSUME LogIInv, flush.phase = "acked"
    PROVE  /\ log.version \in LogVersions /\ log.version > 0
           /\ DOMAIN NextCheckpoint = CkptFields /\ NextCheckpoint.exists
           /\ NextCheckpoint.pos \in Nat /\ NextCheckpoint.off \in Nat
           /\ log.version = issued /\ ~NextCheckpoint.closed =>
                EndsAt(NextCheckpoint.pos, NextCheckpoint.off)
<1>1. log.version > 0 /\ log.version \in LogVersions
  BY Zenon, OpenLog DEF LogIInv, Checkpoints
<1>2. /\ DOMAIN NextCheckpoint = CkptFields /\ NextCheckpoint.exists
      /\ NextCheckpoint.pos = log.pos + 1 /\ NextCheckpoint.off = flush.next
      /\ NextCheckpoint.closed = flush.closed
  BY Zenon DEF NextCheckpoint, CkptFields
<1>3. log.pos \in Nat /\ flush.next \in Nat
  BY Zenon DEF LogIInv, LogType
<1>4. log.version = issued /\ ~flush.closed => EndsAt(log.pos + 1, flush.next)
  BY Zenon, <1>1 DEF LogIInv, Checkpoints
<1> QED
  BY SMTT(60), <1>1, <1>2, <1>3, <1>4

\* A checkpoint that is written.
LEMMA CheckpointKeeps ==
    ASSUME LogIInv, flush.phase = "acked", flush' = NoFlush,
           ckpt' = [ckpt EXCEPT ![log.version] = NextCheckpoint],
           UNCHANGED <<issued, remote, net, spool, finished, out, writing, made>>,
           DOMAIN log' = LogFields, log'.version = log.version, log'.size = log.size,
           \/ UNCHANGED log
           \/ /\ log'.pos = NextCheckpoint.pos /\ log'.off = NextCheckpoint.off
              /\ log'.closed = NextCheckpoint.closed
    PROVE  LogIInv'
<1>1. /\ DOMAIN flush' = {"phase", "next", "closed"} /\ flush'.next \in Nat
      /\ flush'.phase = "idle"
  BY Zenon DEF NoFlush
<1>2. /\ log.version \in LogVersions /\ log.version > 0
      /\ DOMAIN NextCheckpoint = CkptFields /\ NextCheckpoint.exists
      /\ NextCheckpoint.pos \in Nat /\ NextCheckpoint.off \in Nat
      /\ log.version = issued /\ ~NextCheckpoint.closed =>
           EndsAt(NextCheckpoint.pos, NextCheckpoint.off)
  BY Zenon, NextCheckpointFacts
<1>3. /\ ckpt'[log.version] = NextCheckpoint /\ DOMAIN ckpt' = LogVersions
      /\ \A v \in LogVersions : v # log.version => ckpt'[v] = ckpt[v]
  BY Zenon, <1>2 DEF LogIInv, LogType
<1>4. log'.pos \in Nat /\ log'.off \in Nat
  BY Zenon, <1>2 DEF LogIInv, LogType
<1>5. LogType'
  BY Zenon, <1>1, <1>2, <1>3, <1>4 DEF LogIInv, LogType
<1>6. \A p, off : EndsAt(p, off)' = EndsAt(p, off)
  BY Zenon, SameEnds
<1> HIDE DEF EndsAt
<1>7. Requests'
  BY Zenon, <1>6 DEF LogIInv, Requests, Visible
<1>8. Checkpoints'
  <2>1. flush'.phase # "acked" /\ ~(flush'.phase # "idle")
    BY Zenon, <1>1
  <2>2. /\ issued \in Nat /\ log.version <= issued /\ log.version \in Nat
        /\ issued > 0 => issued \in LogVersions
    <3>1. issued \in 0 .. LastLog /\ LastLog \in Nat /\ log.version \in 0 .. LastLog
          /\ log.version <= issued
      BY Zenon, OperationLogConstants DEF LogIInv, LogType, Operations
    <3> QED
      BY <3>1 DEF LogVersions
  <2>3. \A v \in LogVersions : v > issued => ~ckpt'[v].exists
    <3>1. \A v \in LogVersions : v > issued => v # log.version
      BY <2>2 DEF LogVersions
    <3> QED
      BY Zenon, <1>3, <3>1 DEF LogIInv, Checkpoints
  <2>4. issued > 0 /\ (finished = issued \/ log.version = issued) => ckpt'[issued].exists
    BY Zenon, <1>2, <1>3, <2>2 DEF LogIInv, Checkpoints
  <2>5. issued > 0 /\ ckpt'[issued].exists /\ ~ckpt'[issued].closed =>
          EndsAt(ckpt'[issued].pos, ckpt'[issued].off)
    BY Zenon, <1>2, <1>3, <2>2 DEF LogIInv, Checkpoints
  <2>6. issued > 0 /\ log.version = issued /\ ~log'.closed => EndsAt(log'.pos, log'.off)
    BY Zenon, <1>2, <2>2 DEF LogIInv, Checkpoints
  <2> QED
    BY Zenon, <1>6, <2>1, <2>3, <2>4, <2>5, <2>6 DEF Checkpoints
<1> QED
  BY Zenon, <1>5, <1>7, <1>8, FlushKeeps

\* FlushAcked keeps the invariant.
LEMMA FlushAckedKeeps == LogIInv /\ FlushAcked => LogIInv'
<1> SUFFICES ASSUME LogIInv, FlushAcked PROVE LogIInv'
  OBVIOUS
<1>1. /\ flush.phase = "acked" /\ flush' = NoFlush
      /\ ckpt' = [ckpt EXCEPT ![log.version] = NextCheckpoint]
      /\ log' = [log EXCEPT !.pos = NextCheckpoint.pos, !.off = NextCheckpoint.off,
                            !.closed = NextCheckpoint.closed]
      /\ UNCHANGED <<issued, remote, net, spool, finished, out, writing, made>>
  BY Zenon DEF FlushAcked, logGitea
<1>2. /\ DOMAIN log' = LogFields /\ log'.version = log.version /\ log'.size = log.size
      /\ log'.pos = NextCheckpoint.pos /\ log'.off = NextCheckpoint.off
      /\ log'.closed = NextCheckpoint.closed
  BY Zenon, <1>1 DEF LogIInv, LogType, LogFields
<1> QED
  BY Zenon, <1>1, <1>2, CheckpointKeeps

\* CheckpointFails keeps it, whichever of the two files is there.
LEMMA CheckpointFailsKeeps == LogIInv /\ CheckpointFails => LogIInv'
<1> SUFFICES ASSUME LogIInv, CheckpointFails PROVE LogIInv'
  OBVIOUS
<1>1. /\ flush.phase = "acked" /\ flush' = NoFlush
      /\ \/ ckpt' = [ckpt EXCEPT ![log.version] = NextCheckpoint]
         \/ ckpt' = [ckpt EXCEPT ![log.version] = ckpt[log.version]]
      /\ UNCHANGED <<issued, remote, net, spool, finished, log, out, writing, made>>
  BY Zenon DEF CheckpointFails, logGitea
<1>2. DOMAIN log' = LogFields
  BY Zenon, <1>1 DEF LogIInv, LogType
<1>3. CASE ckpt' = [ckpt EXCEPT ![log.version] = NextCheckpoint]
  BY Zenon, <1>1, <1>2, <1>3, CheckpointKeeps
<1>4. CASE ckpt' = [ckpt EXCEPT ![log.version] = ckpt[log.version]]
  <2>1. /\ DOMAIN flush' = {"phase", "next", "closed"} /\ flush'.next \in Nat
        /\ flush'.phase = "idle"
    BY Zenon, <1>1 DEF NoFlush
  <2>2. DOMAIN ckpt' = LogVersions /\ \A v \in LogVersions : ckpt'[v] = ckpt[v]
    BY Zenon, <1>4 DEF LogIInv, LogType
  <2>3. LogType'
    BY Zenon, <1>1, <2>1, <2>2 DEF LogIInv, LogType
  <2>4. \A p, off : EndsAt(p, off)' = EndsAt(p, off)
    BY Zenon, <1>1, SameEnds
  <2> HIDE DEF EndsAt
  <2>5. Requests'
    BY Zenon, <1>1, <2>4 DEF LogIInv, Requests, Visible
  <2>6. Checkpoints'
    <3>1. flush'.phase # "acked" /\ ~(flush'.phase # "idle")
      BY Zenon, <2>1
    <3>2. issued > 0 => issued \in LogVersions
      BY LogNumbers DEF LogIInv, LogVersions
    <3> QED
      BY Zenon, <1>1, <2>2, <2>4, <3>1, <3>2 DEF LogIInv, Checkpoints
  <2> QED
    BY Zenon, <1>1, <2>3, <2>5, <2>6, FlushKeeps
<1> QED
  BY Zenon, <1>1, <1>3, <1>4
-----------------------------------------------------------------------------
\* UploadLogs: what is appended is the next batch of the spool.

\* Reply appends at most the batch of the request, at the end of the log, and only
\* while its operation is the current one.
LEMMA ReplyCases ==
    ASSUME NEW r
    PROVE  LET s == remote[r.version]
           IN  /\ r.version # issued => Reply(r).kind = "closed"
               /\ \/ Reply(r).log = s
                  \/ /\ r.version = issued /\ Reply(r).log = Append(s, r.batch)
                     /\ \E k \in 0 .. Len(s) : Offset(s, k) = r.off /\ ~(k < Len(s))
<1> DEFINE s == remote[r.version]
           k == CHOOSE k \in 0 .. Len(s) : Offset(s, k) = r.off
<1>1. CASE r.version # issued
  BY Zenon, <1>1 DEF Reply
<1>2. CASE r.version = issued /\ \A i \in 0 .. Len(s) : Offset(s, i) # r.off
  BY Zenon, <1>2 DEF Reply
<1>3. CASE r.version = issued /\ \E i \in 0 .. Len(s) : Offset(s, i) = r.off
  <2>1. k \in 0 .. Len(s) /\ Offset(s, k) = r.off
    BY Zenon, <1>3
  <2>2. Reply(r) = IF k < Len(s)
                   THEN [kind |-> IF s[k + 1] = r.batch THEN "ok" ELSE "refused", log |-> s]
                   ELSE IF Len(s) >= MaxRemote THEN [kind |-> "closed", log |-> s]
                   ELSE [kind |-> "ok", log |-> Append(s, r.batch)]
    BY Zenon, <1>3 DEF Reply
  <2> HIDE DEF k
  <2>3. CASE k < Len(s)
    BY SMTT(60), <1>3, <2>2, <2>3
  <2>4. CASE ~(k < Len(s)) /\ Len(s) >= MaxRemote
    BY SMTT(60), <1>3, <2>2, <2>4
  <2>5. CASE ~(k < Len(s)) /\ ~(Len(s) >= MaxRemote)
    BY <1>3, <2>1, <2>2, <2>5
  <2> QED
    BY Zenon, <2>3, <2>4, <2>5
<1> QED
  BY Zenon, <1>1, <1>2, <1>3

\* A request for the end of Gitea's log carries the batch of the spool at that
\* position: it begins at the same offset, and no other position does.
LEMMA AppendedIsNext ==
    ASSUME LogIInv, NEW r \in net, r.version = issued,
           NEW k \in 0 .. Len(remote[issued]), Offset(remote[issued], k) = r.off,
           ~(k < Len(remote[issued]))
    PROVE  /\ Len(remote[issued]) < Visible(issued)
           /\ r.batch = spool[issued][Len(remote[issued]) + 1]
<1> DEFINE n == Len(remote[issued])
<1>1. issued \in LogVersions
  BY Zenon DEF LogIInv, LogType
<1>2. /\ n \in Nat /\ issued \in Nat /\ Visible(issued) \in Nat
      /\ Visible(issued) <= Len(spool[issued]) /\ Len(spool[issued]) \in Nat
  BY Zenon, <1>1, SpoolFacts DEF LogIInv
<1>3. k = n
  BY <1>2
<1>4. Received(issued)
  BY SMTT(60), <1>1, <1>2 DEF LogIInv, AllReceived, Pruned
<1>5. Offset(spool[issued], n) = r.off
  <2>1. \A i \in 1 .. n : spool[issued][i] = remote[issued][i]
    BY Zenon, <1>4 DEF Received
  <2> HIDE DEF n
  <2>2. Offset(spool[issued], n) = Offset(remote[issued], n)
    BY <1>2, <2>1, OffsetAgree
  <2> QED
    BY <1>3, <2>2
<1>6. PICK p \in 0 .. Visible(issued) - 1 :
        r.batch = spool[issued][p + 1] /\ EndsAt(p, r.off)
  BY Zenon DEF LogIInv, Requests
<1>7. p \in Nat /\ Offset(spool[issued], p) = r.off /\ p < Visible(issued)
  BY <1>2, <1>6 DEF EndsAt
<1>8. Offset(spool[issued], n) \in Nat
  BY Zenon, <1>2, OffsetCount
<1>9. ~(p < n) /\ ~(n < p)
  BY SMTT(60), <1>2, <1>5, <1>7, <1>8, OffsetGrows
<1>10. p = n
  BY <1>2, <1>7, <1>9
<1> QED
  BY Zenon, <1>6, <1>7, <1>10

\* So UploadLogs adds the next batch of the spool, or nothing.
LEMMA UploadMaps ==
    ASSUME LogIInv, NEW r \in net, UploadLogs(r)
    PROVE  \/ remote' = remote
           \/ /\ issued \in LogVersions /\ Len(remote[issued]) < Visible(issued)
              /\ remote' = [remote EXCEPT
                   ![issued] = Append(@, spool[issued][Len(@) + 1])]
<1>1. /\ r.version \in LogVersions /\ remote' = [remote EXCEPT ![r.version] = Reply(r).log]
      /\ remote \in [LogVersions -> Seq(LogBatches)]
  BY Zenon DEF UploadLogs, LogIInv, LogType
<1>2. CASE Reply(r).log = remote[r.version]
  BY Zenon, <1>1, <1>2
<1>3. CASE /\ r.version = issued /\ Reply(r).log = Append(remote[r.version], r.batch)
           /\ \E k \in 0 .. Len(remote[r.version]) :
                Offset(remote[r.version], k) = r.off /\ ~(k < Len(remote[r.version]))
  <2>1. /\ Len(remote[issued]) < Visible(issued)
        /\ r.batch = spool[issued][Len(remote[issued]) + 1]
    BY Zenon, <1>3, AppendedIsNext
  <2> QED
    BY Zenon, <1>1, <1>3, <2>1
<1> QED
  BY Zenon, <1>2, <1>3, ReplyCases

\* UploadLogs keeps the invariant.
LEMMA UploadKeeps ==
    ASSUME LogIInv, NEW r \in net, UploadLogs(r)
    PROVE  LogIInv'
<1>1. /\ UNCHANGED <<issued, spool, ckpt, finished, log, out, writing, made>>
      /\ net' \subseteq net
  BY Zenon DEF UploadLogs, logFiles
<1>2. finished \in Nat
  BY LogNumbers DEF LogIInv
<1>3. /\ DOMAIN r = {"version", "off", "batch"} /\ r.version \in LogVersions
      /\ r.off \in Nat /\ r.batch \in LogBatches /\ Bytes(r.batch) \in Nat
  <2>1. /\ DOMAIN r = {"version", "off", "batch"} /\ r.version \in LogVersions
        /\ r.off \in Nat /\ r.batch \in LogBatches
    BY Zenon DEF LogIInv, LogType
  <2> QED
    BY <2>1, BatchBytes
<1>4. \/ flush' = flush \/ flush' = NoFlush
      \/ /\ flush.phase = "sent" /\ r = NextBatch
         /\ \/ /\ Reply(r).kind = "ok"
               /\ flush' = [phase |-> "acked", next |-> r.off + Bytes(r.batch),
                            closed |-> FALSE]
            \/ flush' = [phase |-> "acked", next |-> r.off, closed |-> TRUE]
  BY Zenon DEF UploadLogs
<1>5. DOMAIN flush' = {"phase", "next", "closed"} /\ flush'.next \in Nat
  BY <1>3, <1>4 DEF NoFlush, LogIInv, LogType
<1>6. remote' \in [LogVersions -> Seq(LogBatches)]
  <2>1. remote[r.version] \in Seq(LogBatches) /\ remote \in [LogVersions -> Seq(LogBatches)]
    BY Zenon, <1>3 DEF LogIInv, LogType
  <2>2. Append(remote[r.version], r.batch) \in Seq(LogBatches)
    BY <1>3, <2>1
  <2>3. Reply(r).log \in Seq(LogBatches)
    BY Zenon, <2>1, <2>2, ReplyCases
  <2> QED
    BY Zenon, <2>1, <2>3 DEF UploadLogs
<1>7. LogType'
  BY Zenon, <1>1, <1>5, <1>6 DEF LogIInv, LogType
<1>8. Operations' /\ OneBeyond' /\ AllFit'
  BY Zenon, <1>1 DEF LogIInv, Operations, OneBeyond, AllFit
<1>9. \A v \in LogVersions : Settling(v)
  BY <1>1, <1>2, SameSettled
<1>10. Requests'
  BY Zenon, <1>1, <1>7, <1>9, StillRequested
<1>11. \A p, off : EndsAt(p, off)' = EndsAt(p, off)
  BY Zenon, <1>1, SameEnds
<1>12. AllReceived'
  <2> SUFFICES ASSUME NEW v \in LogVersions PROVE Received(v)' \/ Pruned(v)'
    BY Zenon DEF AllReceived
  <2>1. Received(v) \/ Pruned(v)
    BY Zenon DEF LogIInv, AllReceived
  <2>2. Visible(v)' = Visible(v) /\ Pruned(v)' = Pruned(v)
    BY Zenon, <1>1 DEF Visible, Pruned
  <2>3. CASE Pruned(v)
    BY Zenon, <2>2, <2>3
  <2>4. CASE Received(v) /\ remote'[v] = remote[v]
    BY ZenonT(60), <1>1, <2>2, <2>4 DEF Received
  <2>5. CASE Received(v) /\ remote'[v] # remote[v]
    <3>1. v = issued /\ Len(remote[v]) < Visible(v)
          /\ remote'[v] = Append(remote[v], spool[v][Len(remote[v]) + 1])
      BY Zenon, <2>5, UploadMaps DEF LogIInv, LogType
    <3>2. /\ remote[v] \in Seq(LogBatches) /\ Len(remote[v]) \in Nat /\ Visible(v) \in Nat
          /\ spool[v] \in Seq(LogBatches) /\ Visible(v) <= Len(spool[v]) /\ Len(spool[v]) \in Nat
      BY Zenon, SpoolFacts DEF LogIInv
    <3>3. spool[v][Len(remote[v]) + 1] \in LogBatches
      BY SMTT(60), <3>1, <3>2
    <3>4. /\ Len(remote'[v]) = Len(remote[v]) + 1
          /\ \A i \in 1 .. Len(remote[v]) : remote'[v][i] = remote[v][i]
          /\ remote'[v][Len(remote[v]) + 1] = spool[v][Len(remote[v]) + 1]
      BY SMTT(60), <3>1, <3>2, <3>3, SpoolAppend
    <3> QED
      BY SMTT(60), <1>1, <2>2, <2>5, <3>1, <3>2, <3>4 DEF Received
  <2> QED
    BY Zenon, <2>1, <2>3, <2>4, <2>5
<1>13. Checkpoints'
  <2>1. flush'.phase # "idle" =>
          /\ flush.phase # "idle"
          /\ flush'.phase = "acked" /\ ~flush'.closed /\ flush' # flush =>
               /\ flush.phase = "sent" /\ r = NextBatch
               /\ flush'.next = r.off + Bytes(r.batch) /\ Reply(r).kind = "ok"
    BY <1>4 DEF NoFlush
  <2>2. ASSUME issued > 0, log.version = issued, flush'.phase = "acked", ~flush'.closed
        PROVE  EndsAt(log.pos + 1, flush'.next)
    <3>1. CASE flush' = flush
      BY Zenon, <2>2, <3>1 DEF LogIInv, Checkpoints
    <3>2. CASE flush' # flush
      <4>1. /\ flush.phase = "sent" /\ r = NextBatch /\ flush'.next = r.off + Bytes(r.batch)
        BY Zenon, <2>1, <2>2, <3>2
      <4>2. /\ log.pos < log.size /\ ~log.closed /\ EndsAt(log.pos, log.off)
        BY Zenon, <2>2, <4>1 DEF LogIInv, Checkpoints
      <4>3. /\ r.off = log.off /\ r.batch = spool[issued][log.pos + 1] /\ log.pos \in Nat
        BY Zenon, <2>2, <4>1 DEF NextBatch, LogIInv, LogType
      <4>4. /\ issued \in LogVersions /\ Visible(issued) = log.size /\ log.size \in Nat
            /\ spool[issued] \in Seq(LogBatches) /\ log.size <= Len(spool[issued])
            /\ Len(spool[issued]) \in Nat
        BY ZenonT(60), <2>2, OpenLog, SpoolFacts DEF LogIInv
      <4>5. Offset(spool[issued], log.pos + 1) = Offset(spool[issued], log.pos) + Bytes(r.batch)
        BY SMTT(60), <4>2, <4>3, <4>4, OffsetStep
      <4>6. log.pos + 1 <= Visible(issued)
        BY SMTT(60), <4>2, <4>3, <4>4
      <4> QED
        BY Zenon, <4>1, <4>2, <4>3, <4>5, <4>6 DEF EndsAt
    <3> QED
      BY Zenon, <3>1, <3>2
  <2> HIDE DEF EndsAt
  <2> QED
    BY ZenonT(60), <1>1, <1>11, <2>1, <2>2 DEF LogIInv, Checkpoints
<1> QED
  BY Zenon, <1>7, <1>8, <1>10, <1>12, <1>13 DEF LogIInv
-----------------------------------------------------------------------------
\* OpenOperationLog.

\* OpenOperationLog opens the current operation, or the one that is finished.
LEMMA Opening ==
    ASSUME LogIInv, OpenOperationLog
    PROVE  /\ NextLog \in LogVersions /\ NextLog <= issued /\ log.version < NextLog
           /\ NextLog < issued => finished = NextLog
           /\ LogOffset = 0 => Initial = 0 \/ finished = NextLog
           /\ LogOffset \in {0, Initial}
<1>1. /\ issued \in 0 .. LastLog /\ finished \in 0 .. LastLog /\ log.version \in 0 .. LastLog
      /\ LastLog \in Nat /\ finished <= issued /\ log.version < NextLog /\ Initial \in Nat
  BY Zenon, OperationLogConstants DEF LogIInv, LogType, Operations, OpenOperationLog
<1> QED
  BY <1>1 DEF NextLog, LogVersions, LogOffset

\* OpenOperationLog: the logs it prunes are of operations that are over, and the
\* position it starts from is that of the checkpoint.
LEMMA OpenKeeps == LogIInv /\ OpenOperationLog => LogIInv'
<1> SUFFICES ASSUME LogIInv, OpenOperationLog PROVE LogIInv'
  OBVIOUS
<1> DEFINE v == NextLog
           c == IF ckpt[v].exists THEN ckpt[v]
                ELSE [NoCkpt EXCEPT !.off = LogOffset, !.exists = TRUE]
<1>1. /\ UNCHANGED <<issued, remote, net, finished, writing, made>>
      /\ writing = Torn /\ ~out.lines /\ out' = NoOut /\ flush' = NoFlush
      /\ spool' = PruneLogs(spool, v, << >>)
      /\ ckpt' = [PruneLogs(ckpt, v, NoCkpt) EXCEPT ![v] = c]
      /\ log' = [version |-> v, pos |-> c.pos, off |-> c.off,
                 closed |-> c.closed, size |-> Len(spool[v]), full |-> FALSE]
  BY Zenon DEF OpenOperationLog, logGitea
<1>2. /\ v \in LogVersions /\ v <= issued /\ log.version < v
      /\ v < issued => finished = v
      /\ LogOffset = 0 => Initial = 0 \/ finished = v
      /\ LogOffset \in {0, Initial}
  BY Zenon, Opening
<1>3. /\ v \in Nat /\ v > 0 /\ v \in 0 .. LastLog /\ issued \in Nat /\ finished \in Nat
      /\ log.version \in Nat /\ issued \in LogVersions /\ issued > 0 /\ Initial \in Nat
  <2>1. issued \in 0 .. LastLog /\ finished \in 0 .. LastLog /\ log.version \in 0 .. LastLog
        /\ LastLog \in Nat /\ Initial \in Nat
    BY Zenon, OperationLogConstants DEF LogIInv, LogType
  <2> QED
    BY <1>2, <2>1 DEF LogVersions
<1>4. /\ DOMAIN c = CkptFields /\ c.pos \in Nat /\ c.off \in Nat /\ c.exists
      /\ ckpt[v].exists => c = ckpt[v]
      /\ ~ckpt[v].exists => c.pos = 0 /\ c.off = LogOffset
  <2> DEFINE new == [NoCkpt EXCEPT !.off = LogOffset, !.exists = TRUE]
  <2>1. DOMAIN ckpt[v] = CkptFields /\ ckpt[v].pos \in Nat /\ ckpt[v].off \in Nat
    BY Zenon, <1>2 DEF LogIInv, LogType
  <2>2. DOMAIN new = CkptFields /\ new.pos = 0 /\ new.off = LogOffset /\ new.exists
    BY Zenon DEF NoCkpt, CkptFields
  <2>3. LogOffset \in Nat
    BY <1>2, <1>3
  <2> HIDE DEF new
  <2>4. c = IF ckpt[v].exists THEN ckpt[v] ELSE new
    BY Zenon DEF new
  <2> HIDE DEF c, v
  <2> QED
    BY SMTT(60), <2>1, <2>2, <2>3, <2>4
<1> HIDE DEF c
<1>5. /\ DOMAIN log' = LogFields /\ log'.version = v /\ log'.pos = c.pos /\ log'.off = c.off
      /\ log'.closed = c.closed /\ log'.size = Len(spool[v])
  BY Zenon, <1>1 DEF LogFields
<1>6. spool[v] \in Seq(LogBatches) /\ Len(spool[v]) \in Nat
  BY Zenon, <1>2, SpoolFacts DEF LogIInv
<1>7. /\ \A w \in LogVersions : spool'[w] = IF w < v THEN << >> ELSE spool[w]
      /\ spool' \in [LogVersions -> Seq(LogBatches)]
  <2>1. spool \in [LogVersions -> Seq(LogBatches)] /\ << >> \in Seq(LogBatches)
    BY DEF LogIInv, LogType
  <2> HIDE DEF v
  <2> QED
    BY Zenon, <1>1, <2>1 DEF PruneLogs
<1>8. /\ \A w \in LogVersions :
           ckpt'[w] = IF w = v THEN c ELSE IF w < v THEN NoCkpt ELSE ckpt[w]
      /\ DOMAIN ckpt' = LogVersions
  <2> HIDE DEF v
  <2> QED
    BY Zenon, <1>1, <1>2 DEF PruneLogs
<1> HIDE DEF v
<1>9. /\ DOMAIN out' = OutFields /\ ~out'.lines /\ DOMAIN flush' = {"phase", "next", "closed"}
      /\ flush'.next \in Nat /\ flush'.phase = "idle"
  BY Zenon, <1>1 DEF NoOut, NoFlush, OutFields
<1>10. LogType'
  <2>1. ASSUME NEW w \in LogVersions
        PROVE  DOMAIN ckpt'[w] = CkptFields /\ ckpt'[w].pos \in Nat /\ ckpt'[w].off \in Nat
    <3>1. DOMAIN ckpt[w] = CkptFields /\ ckpt[w].pos \in Nat /\ ckpt[w].off \in Nat
      BY Zenon DEF LogIInv, LogType
    <3>2. DOMAIN NoCkpt = CkptFields /\ NoCkpt.pos \in Nat /\ NoCkpt.off \in Nat
      BY Zenon DEF NoCkpt, CkptFields
    <3> QED
      BY Zenon, <1>4, <1>8, <3>1, <3>2
  <2> QED
    BY ZenonT(60), <1>1, <1>3, <1>4, <1>5, <1>6, <1>7, <1>8, <1>9, <2>1 DEF LogIInv, LogType
<1>11. Operations'
  BY Zenon, <1>1, <1>2, <1>3, <1>5, <1>9 DEF LogIInv, Operations
<1>12. spool'[v] = spool[v]
  BY <1>2, <1>3, <1>7
<1>13. OneBeyond'
  BY Zenon, <1>1, <1>5, <1>12 DEF OneBeyond
<1>14. AllFit'
  <2>1. SpoolFits(<< >>)
    <3>1. {i \in DOMAIN << >> : << >>[i].marker} = {} /\ DOMAIN << >> \ {} = {}
      OBVIOUS
    <3> QED
      BY SMTT(60), <3>1, FS_EmptySet, OperationLogConstants DEF SpoolFits, FileSize
  <2> QED
    BY Zenon, <1>7, <2>1 DEF LogIInv, AllFit
<1>15. ASSUME NEW w \in LogVersions PROVE Settling(w)
  <2>1. w \in Nat /\ Visible(w) \in Nat
    BY ZenonT(60), SpoolFacts DEF LogIInv
  <2>2. CASE w < v
    BY SMTT(60), <1>1, <1>2, <1>3, <1>5, <1>7, <2>1, <2>2 DEF Settling, Pruned
  <2>3. CASE ~(w < v)
    <3>1. spool'[w] = spool[w] /\ log.version # w
      BY Zenon, <1>2, <1>3, <1>7, <2>1, <2>3
    <3>2. Visible(w)' = Visible(w)
      BY ZenonT(60), <1>5, <3>1 DEF Visible
    <3>3. Pruned(w) => Pruned(w)'
      BY SMTT(60), <1>1, <1>2, <1>3, <1>5, <2>1, <3>1 DEF Pruned
    <3> QED
      BY SMTT(60), <2>1, <3>1, <3>2, <3>3 DEF Settling, Longer
  <2> QED
    BY Zenon, <2>2, <2>3
<1>16. AllReceived' /\ Requests'
  BY Zenon, <1>1, <1>10, <1>13, <1>15, StillReceived, StillRequested
<1>17. Checkpoints'
  <2>1. \A w \in LogVersions : w > issued => ~ckpt'[w].exists
    <3>1. \A w \in LogVersions : w > issued => w # v /\ ~(w < v)
      BY SMTT(60), <1>2, <1>3 DEF LogVersions
    <3> QED
      BY Zenon, <1>8, <3>1 DEF LogIInv, Checkpoints
  <2>2. ckpt'[issued] = IF issued = v THEN c ELSE ckpt[issued]
    BY SMTT(60), <1>2, <1>3, <1>8
  <2>3. finished = issued \/ v = issued => ckpt'[issued].exists
    BY ZenonT(60), <1>3, <1>4, <2>2 DEF LogIInv, Checkpoints
  <2>4. ckpt'[issued].exists /\ ~ckpt'[issued].closed =>
          EndsAt(ckpt'[issued].pos, ckpt'[issued].off)
    <3>0. Visible(issued) \in Nat /\ 0 <= Visible(issued)
      BY SMTT(60), <1>3, SpoolFacts DEF LogIInv
    <3>1. CASE issued # v \/ ckpt[issued].exists
      BY ZenonT(60), <1>3, <1>4, <2>2, <3>1 DEF LogIInv, Checkpoints
    <3>2. CASE issued = v /\ ~ckpt[issued].exists
      <4>1. finished # issued
        BY Zenon, <1>3, <3>2 DEF LogIInv, Checkpoints
      <4>2. c.pos = 0 /\ c.off = Initial
        BY Zenon, <1>2, <1>4, <3>2, <4>1
      <4> QED
        BY ZenonT(60), <2>2, <3>0, <3>2, <4>2, OffsetZero DEF EndsAt
    <3> QED
      BY Zenon, <3>1, <3>2
  <2>5. ckpt'[issued].pos \in Nat
    BY Zenon, <1>1, <1>3, <1>10 DEF LogType
  <2>6. ckpt'[issued].exists /\ ~ckpt'[issued].closed =>
          EndsAt(ckpt[issued].pos, ckpt[issued].off)'
    <3>1. \A off : \A p \in Nat : EndsAt(p, off) => EndsAt(p, off)'
      BY Zenon, <1>1, <1>3, <1>10, <1>15, StillAt
    <3> HIDE DEF EndsAt
    <3> QED
      BY Zenon, <1>1, <2>4, <2>5, <3>1
  <2>7. log'.version = issued => /\ log'.pos = ckpt'[issued].pos
                                 /\ log'.off = ckpt'[issued].off
                                 /\ log'.closed = ckpt'[issued].closed
    BY Zenon, <1>5, <2>2
  <2>8. flush'.phase # "acked" /\ ~(flush'.phase # "idle")
    BY Zenon, <1>9
  <2> HIDE DEF EndsAt
  <2> QED
    BY ZenonT(60), <1>1, <1>5, <2>1, <2>3, <2>6, <2>7, <2>8 DEF Checkpoints
<1> QED
  BY Zenon, <1>10, <1>11, <1>13, <1>14, <1>16, <1>17 DEF LogIInv
-----------------------------------------------------------------------------
\* Every step of the Agent, of Gitea and of the network is one of the abstract
\* specification, or none.

\* No step breaks the invariant.
LEMMA LogStepKeeps == LogIInv /\ [LogNext]_logVars => LogIInv'
  BY ZenonT(60), LogStutter, IssueKeeps, OpenKeeps, AgentDiesKeeps, WriteLineKeeps, DiscardKeeps,
     AppendBatchKeeps, AppendSyncedKeeps, AppendFailsKeeps, EndOutputKeeps, FlushSendKeeps,
     UploadKeeps, FlushFailsKeeps, FlushAckedKeeps, CheckpointFailsKeeps DEF LogNext

\* Issue begins the next operation.
LEMMA IssueMaps == LogIInv /\ Issue => Abstract!NextOperation
  BY Zenon DEF Issue, Abstract!NextOperation, logFiles

\* PruneLogs forgets operations that are over.
LEMMA OpenMaps ==
    ASSUME LogIInv, OpenOperationLog
    PROVE  \E v \in LogVersions : Abstract!Forget(v)
<1>1. NextLog \in LogVersions /\ NextLog <= issued
  BY Zenon, Opening
<1>2. UNCHANGED <<issued, remote>> /\ spool' = PruneLogs(spool, NextLog, << >>)
  BY Zenon DEF OpenOperationLog, logGitea
<1>3. Abstract!Forget(NextLog)
  BY Zenon, <1>1, <1>2 DEF Abstract!Forget, PruneLogs
<1> QED
  BY Zenon, <1>1, <1>3

\* AppendBatch accepts a record.
LEMMA AppendMaps ==
    ASSUME LogIInv, AppendBatch
    PROVE  \E v \in LogVersions : Abstract!Accept(v)
<1> DEFINE v == log.version
           s == spool[v]
           t == Append(s, writing')
<1>1. /\ v \in LogVersions /\ s \in Seq(LogBatches) /\ writing' \in LogBatches
      /\ SpoolFits(t) /\ spool' = [spool EXCEPT ![v] = t]
  BY Zenon, AppendBatchFacts
<1>2. spool'[v] = t /\ spool' = [spool EXCEPT ![v] = spool'[v]]
  BY Zenon, <1>1, Replaced DEF LogIInv
<1>3. Abstract!Settled(t) = s
  <2>1. Len(t) = Len(s) + 1 /\ Len(s) \in Nat /\ SubSeq(t, 1, Len(s)) = s
    BY Zenon, <1>1, SpoolAppend
  <2> HIDE DEF t
  <2>2. Len(t) - 1 = Len(s)
    BY <2>1
  <2> QED
    BY Zenon, <2>1, <2>2 DEF Abstract!Settled
<1>4. UNCHANGED <<issued, remote>>
  BY Zenon DEF AppendBatch, logGitea
<1> HIDE DEF t
<1>5. Abstract!Accept(v)
  BY Zenon, <1>1, <1>2, <1>3, <1>4 DEF Abstract!Accept
<1> QED
  BY Zenon, <1>1, <1>5

\* UploadLogs receives the next record, or changes nothing.
LEMMA UploadReceives ==
    ASSUME LogIInv, NEW r \in net, UploadLogs(r)
    PROVE  Abstract!Receive \/ UNCHANGED <<issued, spool, remote>>
<1>1. UNCHANGED <<issued, spool>>
  BY Zenon DEF UploadLogs, logFiles
<1>2. CASE remote' = remote
  BY Zenon, <1>1, <1>2
<1>3. CASE /\ issued \in LogVersions /\ Len(remote[issued]) < Visible(issued)
           /\ remote' = [remote EXCEPT ![issued] = Append(@, spool[issued][Len(@) + 1])]
  <2>1. Len(remote[issued]) < Len(spool[issued])
    BY <1>3, SpoolFacts DEF LogIInv
  <2> QED
    BY Zenon, <1>1, <1>3, <2>1 DEF Abstract!Receive
<1> QED
  BY Zenon, <1>2, <1>3, UploadMaps

\* Every step is a step of the abstract specification, or changes none of its
\* variables.
LEMMA LogStepMaps ==
    LogIInv /\ [LogNext]_logVars => [Abstract!Proceed]_(Abstract!deliveryVars)
<1> SUFFICES ASSUME LogIInv, [LogNext]_logVars
             PROVE  Abstract!Proceed \/ UNCHANGED Abstract!deliveryVars
  OBVIOUS
<1>1. CASE \/ UNCHANGED logVars \/ WriteLine \/ DiscardLines \/ AppendSynced \/ EndOutput
           \/ FlushSend \/ FlushFails \/ FlushAcked \/ CheckpointFails
  <2>1. UNCHANGED <<issued, spool, remote>>
    BY Zenon, <1>1
    DEF logVars, WriteLine, DiscardLines, AppendSynced, EndOutput, FlushSend, FlushFails,
        FlushAcked, CheckpointFails, logGitea, logFiles
  <2> QED
    BY Zenon, <2>1 DEF Abstract!deliveryVars
<1>2. CASE Issue
  BY Zenon, <1>2, IssueMaps DEF Abstract!Proceed
<1>3. CASE OpenOperationLog
  BY Zenon, <1>3, OpenMaps DEF Abstract!Proceed
<1>4. CASE AppendBatch
  BY Zenon, <1>4, AppendMaps DEF Abstract!Proceed
<1>5. CASE AgentDies
  <2>1. log.version > 0 /\ UNCHANGED <<issued, remote>>
    BY Zenon, <1>5 DEF AgentDies, logGitea
  <2> QED
    BY Zenon, <1>5, <2>1, DeathTrims, TrimmedMaps
<1>6. CASE AppendFails
  <2>1. UNCHANGED <<issued, remote>>
    BY Zenon, <1>6 DEF AppendFails, logGitea
  <2> QED
    BY Zenon, <1>6, <2>1, FailureTrims, TrimmedMaps
<1>7. CASE \E r \in net : UploadLogs(r)
  BY Zenon, <1>7, UploadReceives DEF Abstract!Proceed, Abstract!deliveryVars
<1> QED
  BY ZenonT(60), <1>1, <1>2, <1>3, <1>4, <1>5, <1>6, <1>7 DEF LogNext

\* The invariant is inductive.
THEOREM LogInvariance == LogSpec => []LogIInv
  BY LogInitial, LogStepKeeps, PTL DEF LogSpec

\* Append, Flush, UploadLogs and PruneLogs implement the delivery of LogDelivery:
\* Gitea's log receives what the spool holds, in order, each batch once, and what
\* it received is never rewritten, whatever dies, fails or is sent twice.
THEOREM LogIsDelivered == LogSpec => ImplementsDelivery
<1>1. LogInit => Abstract!Start
  BY Zenon DEF LogInit, Abstract!Start
<1> QED
  BY <1>1, LogStepMaps, LogInvariance, PTL DEF LogSpec, ImplementsDelivery, Abstract!Delivery

\* Append: no spool ever exceeds the limit that OpenOperationLog enforces, so a
\* restarted Agent is not locked out by its own log.
THEOREM SpoolsFit == LogSpec => []AllFit
<1>1. LogIInv => AllFit
  BY Zenon DEF LogIInv
<1> QED
  BY <1>1, LogInvariance, PTL

-----------------------------------------------------------------------------
(***************************************************************************)
(* Features: FeatureIInv.                                                  *)
(*                                                                         *)
(* The order so far has no feature twice and each after its dependencies,  *)
(* and every dependency of what was resolved is resolved or waits to be.   *)
(* When a round finds no candidate, each feature that is left depends on   *)
(* another that is left; as they are finitely many, one of them needs      *)
(* itself. A reference in the lockfile is resolved to what the lockfile    *)
(* says, so writing it again changes nothing.                              *)
(***************************************************************************)
FeatureType ==
  /\ pending \in Seq(References) /\ ordered \in Seq(Digests)
  /\ DOMAIN naming \subseteq Digests /\ \A f \in DOMAIN naming : naming[f] \in References
  /\ \A r \in DOMAIN resolved : resolved[r] \in DOMAIN naming
  /\ \A r \in DOMAIN lockfile : lockfile[r] \in Digests
  /\ phase # "unknown" =>
       /\ asked \subseteq References
       /\ dependsOn \in [Digests -> SUBSET References]
       /\ published \in [References -> Digests]

(* What a feature depends on is resolved or will be.                         *)
Has(seq, r) == \E i \in 1 .. Len(seq) : seq[i] = r
Ahead(f, seq, done) == \A r \in dependsOn[f] : r \in done \/ Has(seq, r)
Complete ==
  /\ \A f \in DOMAIN naming : Ahead(f, pending, DOMAIN resolved)
  /\ phase = "order" => pending = <<>>
  /\ phase = "unknown" => DOMAIN naming = {} /\ DOMAIN resolved = {}

(* What the lockfile says is what is installed.                              *)
Pinned ==
  phase \in {"resolve", "order"} =>
    \A r \in DOMAIN resolved \cap DOMAIN lockfile : resolved[r] = lockfile[r]

(* The order so far: no feature twice, and each after its dependencies.      *)
Before(i) == {ordered[j] : j \in 1 .. i - 1}
OrderedSoFar ==
  /\ phase \in {"unknown", "idle", "resolve"} => ordered = <<>>
  /\ \A i, j \in 1 .. Len(ordered) : ordered[i] = ordered[j] => i = j
  /\ \A i \in 1 .. Len(ordered) : ordered[i] \in Features /\ Dependencies(ordered[i]) \subseteq Before(i)

Finished ==
  /\ phase = "installed" => Installed = Features
  /\ phase = "cycle" => \E f \in Features : f \in Needs(f)

FeatureIInv == FeatureType /\ Complete /\ Pinned /\ OrderedSoFar /\ Finished

(* The graph is that of what was resolved.                                   *)
LEMMA GraphStays ==
  ASSUME UNCHANGED <<resolved, naming, dependsOn, installsAfter>>
  PROVE  Features' = Features /\ \A f : Dependencies(f)' = Dependencies(f) /\ Needs(f)' = Needs(f)
<1>1. Features' = Features
  BY Zenon DEF Features
<1>a. \A r : findFeatureMatches(r)' = findFeatureMatches(r)
  BY Zenon, <1>1 DEF findFeatureMatches
<1>b. \A f : SoftDependencies(f)' = SoftDependencies(f)
  BY Zenon, <1>a DEF SoftDependencies
<1>c. \A f : HardDependencies(f)' = HardDependencies(f)
  BY Zenon DEF HardDependencies
<1>2. \A f : Dependencies(f)' = Dependencies(f)
  BY <1>b, <1>c, Zenon DEF Dependencies
<1>3. \A f : Needs(f)' = Needs(f)
  BY <1>1, <1>2, Zenon DEF Needs, Closed
<1> QED
  BY Zenon, <1>1, <1>2, <1>3

(* What a feature of a finished order needs is installed before it: the      *)
(* features before it are a set that has its dependencies and all of theirs. *)
LEMMA NeededBefore ==
  ASSUME FeatureType, OrderedSoFar, NEW i \in 1 .. Len(ordered)
  PROVE  Needs(ordered[i]) \subseteq Before(i)
<1>0. Len(ordered) \in Nat
  BY DEF FeatureType
<1>1. Dependencies(ordered[i]) \subseteq Before(i)
  BY Zenon DEF OrderedSoFar
<1>2. Before(i) \in SUBSET Features
  BY <1>0 DEF Before, OrderedSoFar
<1>3. Closed(Before(i))
  <2> SUFFICES ASSUME NEW j \in 1 .. i - 1, NEW g \in Dependencies(ordered[j])
               PROVE  g \in Before(i)
      BY Zenon DEF Closed, Before
  <2>1. g \in Before(j)
    BY <1>0 DEF OrderedSoFar
  <2> QED
    BY <2>1, <1>0 DEF Before
<1> QED
  BY Zenon, <1>1, <1>2, <1>3 DEF Needs

(* A feature of a dependency is needed too.                                  *)
LEMMA NeedsGrow ==
  ASSUME NEW f \in Features, \A h \in Features : Dependencies(h) \subseteq Features,
         NEW g \in Dependencies(f)
  PROVE  Needs(g) \subseteq Needs(f) /\ g \in Needs(f)
<1>1. g \in Features /\ g \in Needs(f)
  BY Zenon DEF Needs
<1>2. ASSUME NEW h \in Needs(g) PROVE h \in Needs(f)
  <2>1. h \in Features
    BY Zenon, <1>1, <1>2 DEF Needs
  <2>2. ASSUME NEW S \in SUBSET Features, Dependencies(f) \subseteq S, Closed(S) PROVE h \in S
    <3>1. Dependencies(g) \subseteq S
      BY Zenon, <2>2 DEF Closed
    <3> QED
      BY Zenon, <3>1, <1>2, <2>2 DEF Needs
  <2> QED
    BY Zenon, <2>1, <2>2 DEF Needs
<1> QED
  BY Zenon, <1>1, <1>2

(* If of some features each depends on another of them, one needs itself.    *)
LEMMA CycleFound ==
  ASSUME IsFiniteSet(Features), \A h \in Features : Dependencies(h) \subseteq Features,
         NEW U \in SUBSET Features, U # {}, \A f \in U : \E g \in U : g \in Dependencies(f)
  PROVE  \E f \in Features : f \in Needs(f)
<1> SUFFICES ASSUME \A f \in Features : f \notin Needs(f) PROVE FALSE
    OBVIOUS
<1> DEFINE W == {Needs(f) : f \in U}
           R == StrictSubsetOrdering(Features)
           F == FiniteSubsetsOf(Features)
<1>1. \A f \in Features : Needs(f) \in SUBSET Features
  BY Zenon DEF Needs
<1>2. \A f \in Features : Needs(f) \in F
  BY Zenon, <1>1, FS_Subset DEF FiniteSubsetsOf
<1>3. W \subseteq F /\ W # {}
  BY Zenon, <1>2
<1>4. IsWellFoundedOn(R, F)
  BY Zenon, FS_StrictSubsetOrderingWellFounded
<1>5. \E x \in W : \A y \in W : <<y, x>> \notin R
  <2> HIDE DEF W, R, F
  <2> QED
    BY Zenon, <1>3, <1>4, WFMin
<1>6. PICK f \in U : \A y \in W : <<y, Needs(f)>> \notin R
  BY Zenon, <1>5
<1>7. PICK g \in U : g \in Dependencies(f)
  OBVIOUS
<1>8. Needs(g) \subseteq Needs(f) /\ Needs(g) # Needs(f)
  BY Zenon, <1>7, NeedsGrow
<1>9. <<Needs(g), Needs(f)>> \in R
  BY Zenon, <1>1, <1>8 DEF StrictSubsetOrdering
<1> QED
  BY Zenon, <1>6, <1>9

(* Soft dependencies are features; hard ones are once all is resolved.       *)
LEMMA DependenciesAreFeatures ==
  ASSUME FeatureType, Complete, phase = "order", NEW f \in Features
  PROVE  Dependencies(f) \subseteq Features
<1>1. SoftDependencies(f) \subseteq Features
  BY Zenon DEF SoftDependencies, findFeatureMatches
<1>2. dependsOn[f] \subseteq DOMAIN resolved
  BY DEF Complete, Ahead, Has, Features
<1>3. HardDependencies(f) \subseteq Features
  BY Zenon, <1>2 DEF HardDependencies, FeatureType, Features
<1> QED
  BY Zenon, <1>1, <1>3 DEF Dependencies

(* The invariant where nothing was resolved or ordered in the step.          *)
LEMMA GraphKept ==
  ASSUME FeatureIInv, UNCHANGED <<pending, resolved, naming, dependsOn, installsAfter, ordered>>,
         phase' = phase \/ phase' \in {"refused", "installed", "order"},
         phase' = "installed" => phase = "installed" \/ Installed = Features,
         phase' = "order" => phase = "order" \/ (phase = "resolve" /\ pending = <<>>)
  PROVE  Complete' /\ OrderedSoFar' /\ Finished'
<1>1. Features' = Features /\ \A f : Dependencies(f)' = Dependencies(f) /\ Needs(f)' = Needs(f)
  BY Zenon, GraphStays
<1>2. Complete'
  BY Zenon DEF FeatureIInv, Complete, Ahead
<1>3. OrderedSoFar'
  BY <1>1 DEF FeatureIInv, OrderedSoFar, Before
<1>4. Installed' = Installed
  BY Zenon DEF Installed
<1>5. Finished'
  BY Zenon, <1>1, <1>4 DEF FeatureIInv, Finished
<1> QED
  BY Zenon, <1>2, <1>3, <1>5

\* Configuration: a configuration is read, and nothing is resolved yet.
LEMMA ConfigurationStep ==
  ASSUME FeatureIInv, Configuration
  PROVE  FeatureIInv'
<1>1. /\ phase = "unknown" /\ phase' = "idle" /\ UNCHANGED <<lockfile, pending, resolved, naming, ordered>>
      /\ DOMAIN naming = {} /\ DOMAIN resolved = {} /\ ordered = <<>>
  BY Zenon DEF Configuration, FeatureIInv, Complete, OrderedSoFar
<1>2. FeatureType'
  BY Zenon, <1>1, FeatureAssumption DEF Configuration, FeatureIInv, FeatureType
<1>3. Complete' /\ Pinned' /\ Finished'
  BY Zenon, <1>1 DEF Complete, Pinned, Finished
<1>4. OrderedSoFar'
  BY <1>1 DEF OrderedSoFar
<1> QED
  BY <1>2, <1>3, <1>4, Zenon DEF FeatureIInv

\* Republish: the registry moves a reference.
LEMMA RepublishStep ==
  ASSUME FeatureIInv, NEW r \in References, NEW d \in Digests, Republish(r, d)
  PROVE  FeatureIInv'
<1>1. /\ phase # "unknown" /\ published' = [published EXCEPT ![r] = d]
      /\ UNCHANGED <<asked, dependsOn, installsAfter, lockfile, phase, pending, resolved, naming, ordered>>
  BY Zenon DEF Republish, configured
<1>2. FeatureType'
  BY Zenon, <1>1 DEF FeatureIInv, FeatureType
<1>3. Complete' /\ OrderedSoFar' /\ Finished'
  BY Zenon, <1>1, GraphKept DEF FeatureIInv, Finished
<1>4. Pinned'
  BY <1>1, Zenon DEF FeatureIInv, Pinned
<1> QED
  BY <1>2, <1>3, <1>4, Zenon DEF FeatureIInv

(* A sequence of references in order is a sequence of them.                  *)
LEMMA InOrderFacts ==
  ASSUME NEW refs \in SUBSET References, NEW s \in InOrder(refs)
  PROVE  /\ s \in Seq(References)
         /\ \A r \in refs : Has(s, r)
<1>1. Cardinality(refs) \in Nat
  BY Zenon, FeatureAssumption, FS_Subset, FS_CardinalityType
<1>2. s \in [1 .. Cardinality(refs) -> refs] /\ Range(s) = refs
  BY Zenon DEF InOrder
<1>3. s \in Seq(refs) /\ Len(s) = Cardinality(refs)
  BY <1>1, <1>2
<1> QED
  BY <1>2, <1>3 DEF Range, Has

\* BeginFeatures: the references of the configuration are to be resolved.
LEMMA BeginStep ==
  ASSUME FeatureIInv, BeginFeatures
  PROVE  FeatureIInv'
<1>1. /\ phase # "unknown" /\ phase' \in {"refused", "resolve"}
      /\ pending' = <<>> \/ pending' \in InOrder(asked)
      /\ resolved' = Nothing /\ naming' = Nothing /\ ordered' = <<>>
      /\ UNCHANGED <<asked, dependsOn, published, lockfile>>
  BY Zenon DEF BeginFeatures, configured
<1>a. asked \in SUBSET References
  BY Zenon, <1>1 DEF FeatureIInv, FeatureType
<1>2. pending' \in Seq(References)
  <2>1. CASE pending' = <<>>
    BY <2>1
  <2>2. CASE pending' \in InOrder(asked)
    BY Zenon, <2>2, <1>a, InOrderFacts
  <2> QED
    BY Zenon, <1>1, <2>1, <2>2
<1>3. DOMAIN naming' = {} /\ DOMAIN resolved' = {}
  BY Zenon, <1>1 DEF Nothing
<1>4. FeatureType'
  BY SMTT(60), <1>1, <1>2, <1>3 DEF FeatureIInv, FeatureType
<1>5. Complete' /\ Pinned' /\ Finished'
  BY Zenon, <1>1, <1>3 DEF Complete, Pinned, Finished
<1>6. OrderedSoFar'
  BY <1>1 DEF OrderedSoFar
<1> QED
  BY <1>4, <1>5, <1>6, Zenon DEF FeatureIInv

(* What is in a sequence is its head or in its tail, and stays in a longer one. *)
LEMMA HeadOrTail ==
  ASSUME NEW S, NEW seq \in Seq(S), seq # <<>>, NEW s \in Seq(S)
  PROVE  /\ Tail(seq) \in Seq(S) /\ s \o Tail(seq) \in Seq(S)
         /\ \A r : Has(seq, r) => r = Head(seq) \/ (Has(Tail(seq), r) /\ Has(s \o Tail(seq), r))
         /\ \A r : Has(s, r) => Has(s \o Tail(seq), r)
<1>1. Tail(seq) \in Seq(S) /\ s \o Tail(seq) \in Seq(S)
  OBVIOUS
<1>2. Len(Tail(seq)) = Len(seq) - 1 /\ Len(s \o Tail(seq)) = Len(s) + Len(seq) - 1 /\ Len(s) \in Nat
  OBVIOUS
<1>3. ASSUME NEW i \in 1 .. Len(seq), i # 1
      PROVE  /\ i - 1 \in 1 .. Len(Tail(seq)) /\ Tail(seq)[i - 1] = seq[i]
             /\ Len(s) + i - 1 \in 1 .. Len(s \o Tail(seq))
             /\ (s \o Tail(seq))[Len(s) + i - 1] = seq[i]
  BY <1>2, <1>3
<1>4. ASSUME NEW i \in 1 .. Len(s)
      PROVE  i \in 1 .. Len(s \o Tail(seq)) /\ (s \o Tail(seq))[i] = s[i]
  BY <1>2
<1>5. Head(seq) = seq[1]
  OBVIOUS
<1>6. ASSUME NEW r, Has(seq, r), r # Head(seq)
      PROVE  Has(Tail(seq), r) /\ Has(s \o Tail(seq), r)
  <2>1. PICK i \in 1 .. Len(seq) : seq[i] = r
    BY Zenon, <1>6 DEF Has
  <2>2. i # 1
    BY Zenon, <2>1, <1>5, <1>6
  <2> QED
    BY Zenon, <2>1, <2>2, <1>3 DEF Has
<1>7. ASSUME NEW r, Has(s, r) PROVE Has(s \o Tail(seq), r)
  BY Zenon, <1>4, <1>7 DEF Has
<1> QED
  BY Zenon, <1>1, <1>6, <1>7

(* What a step of the resolution keeps of the order: there is none yet.      *)
LEMMA NoOrderYet ==
  ASSUME FeatureIInv, phase = "resolve", UNCHANGED <<phase, ordered>>
  PROVE  OrderedSoFar' /\ Finished'
BY DEF FeatureIInv, OrderedSoFar, Finished

\* resolveFeature: a reference is resolved to what the lockfile or the registry
\* says, and what that feature depends on is to be resolved next.
LEMMA ResolveStep ==
  ASSUME FeatureIInv, resolveFeature
  PROVE  FeatureIInv'
<1> DEFINE r == Head(pending)
           d == fetchFeature(r)
<1>0. /\ phase = "resolve" /\ pending # <<>> /\ pending \in Seq(References) /\ r \in References
      /\ UNCHANGED <<asked, dependsOn, installsAfter, published, lockfile, phase, ordered>>
  BY DEF resolveFeature, configured, FeatureIInv, FeatureType
<1>1. d \in Digests
  BY Zenon, <1>0 DEF fetchFeature, FeatureIInv, FeatureType
<1>d. r \in DOMAIN lockfile => d = lockfile[r]
  BY Zenon DEF fetchFeature
<1>2. OrderedSoFar' /\ Finished'
  BY Zenon, <1>0, NoOrderYet
<1> USE <1>0
<1> HIDE DEF d
<1>3. CASE r \in DOMAIN resolved
  <2>1. pending' = Tail(pending) /\ UNCHANGED <<resolved, naming>>
    BY Zenon, <1>3 DEF resolveFeature
  <2>2. FeatureType' /\ Pinned'
    BY Zenon, <2>1, HeadOrTail DEF FeatureIInv, FeatureType, Pinned
  <2>3. Complete'
    <3>1. \A q : Has(pending, q) => q = r \/ Has(pending', q)
      BY Zenon, <2>1, HeadOrTail
    <3>2. \A f \in DOMAIN naming' : Ahead(f, pending, DOMAIN resolved)'
      BY Zenon, <3>1, <2>1, <1>3 DEF FeatureIInv, Complete, Ahead, Has
    <3> QED
      BY Zenon, <3>2 DEF Complete
  <2> QED
    BY <2>2, <2>3, <1>2, Zenon DEF FeatureIInv
<1>4. CASE r \notin DOMAIN resolved
  <2>1. resolved' = [x \in DOMAIN resolved \cup {r} |-> IF x = r THEN d ELSE resolved[x]]
    BY Zenon, <1>4 DEF resolveFeature, d
  <2>2. /\ DOMAIN resolved' = DOMAIN resolved \cup {r} /\ resolved'[r] = d
        /\ \A x \in DOMAIN resolved : resolved'[x] = resolved[x]
    BY Zenon, <2>1, <1>4
  <2>3. Pinned'
    BY Zenon, <2>2, <1>d DEF FeatureIInv, Pinned
  <2>4. CASE d \in DOMAIN naming
    <3>1. pending' = Tail(pending) /\ UNCHANGED naming
      BY Zenon, <1>4, <2>4 DEF resolveFeature, d
    <3>2. FeatureType'
      BY Zenon, <3>1, <2>2, <2>4, HeadOrTail DEF FeatureIInv, FeatureType
    <3>3. Complete'
      <4>1. \A q : Has(pending, q) => q = r \/ Has(pending', q)
        BY Zenon, <3>1, HeadOrTail
      <4>2. \A f \in DOMAIN naming' : Ahead(f, pending, DOMAIN resolved)'
        BY Zenon, <4>1, <3>1, <2>2 DEF FeatureIInv, Complete, Ahead, Has
      <4> QED
        BY Zenon, <4>2 DEF Complete
    <3> QED
      BY <3>2, <3>3, <2>3, <1>2, Zenon DEF FeatureIInv
  <2>5. CASE d \notin DOMAIN naming
    <3>1. PICK s \in InOrder(dependsOn[d]) : pending' = s \o Tail(pending)
      BY Zenon, <1>4, <2>5 DEF resolveFeature, d
    <3>2. naming' = [x \in DOMAIN naming \cup {d} |-> IF x = d THEN r ELSE naming[x]]
      BY Zenon, <1>4, <2>5 DEF resolveFeature, d
    <3>3. /\ DOMAIN naming' = DOMAIN naming \cup {d} /\ naming'[d] = r
          /\ \A x \in DOMAIN naming : naming'[x] = naming[x]
      BY Zenon, <3>2, <2>5
    <3>4. dependsOn[d] \in SUBSET References
      BY Zenon, <1>1 DEF FeatureIInv, FeatureType
    <3>5. s \in Seq(References) /\ \A q \in dependsOn[d] : Has(s, q)
      BY Zenon, <3>4, InOrderFacts
    <3>6. FeatureType'
      BY ZenonT(60), <3>1, <3>3, <3>5, <2>2, <1>1, HeadOrTail DEF FeatureIInv, FeatureType
    <3>7. ASSUME NEW f \in DOMAIN naming' PROVE Ahead(f, pending, DOMAIN resolved)'
      <4> SUFFICES ASSUME NEW q \in dependsOn[f], q \notin DOMAIN resolved'
                   PROVE  Has(pending', q)
          BY Zenon DEF Ahead, Has
      <4>1. CASE f = d
        BY Zenon, <4>1, <3>1, <3>5, HeadOrTail
      <4>2. CASE f \in DOMAIN naming
        <5>1. Has(pending, q)
          BY Zenon, <4>2, <2>2 DEF FeatureIInv, Complete, Ahead
        <5> QED
          BY Zenon, <5>1, <3>1, <3>5, <2>2, HeadOrTail
      <4> QED
        BY Zenon, <4>1, <4>2, <3>3
    <3>8. Complete'
      BY Zenon, <3>7 DEF Complete
    <3> QED
      BY <3>6, <3>8, <2>3, <1>2, Zenon DEF FeatureIInv
  <2> QED
    BY Zenon, <2>4, <2>5
<1> QED
  BY Zenon, <1>3, <1>4

\* A fetch fails, the order begins, or a frozen lockfile is compared.
LEMMA FetchFailsStep ==
  ASSUME FeatureIInv, FetchFails \/ BeginOrder \/ Freeze
  PROVE  FeatureIInv'
<1>1. /\ UNCHANGED <<asked, dependsOn, installsAfter, published, lockfile, pending, resolved, naming, ordered>>
      /\ phase # "unknown"
      /\ \/ phase' = phase /\ phase = "installed"
         \/ phase' = "refused"
         \/ phase' = "order" /\ phase = "resolve" /\ pending = <<>>
  BY Zenon DEF FetchFails, BeginOrder, Freeze, configured
<1>2. FeatureType'
  BY Zenon, <1>1 DEF FeatureIInv, FeatureType
<1>3. Complete' /\ OrderedSoFar' /\ Finished'
  BY Zenon, <1>1, GraphKept DEF FeatureIInv, Finished
<1>4. Pinned'
  BY Zenon, <1>1 DEF FeatureIInv, Pinned
<1> QED
  BY <1>2, <1>3, <1>4, Zenon DEF FeatureIInv

(* The lockfile gets what was resolved.                                      *)
LEMMA WriteLockfileStep ==
  ASSUME FeatureIInv, WriteLockfile
  PROVE  FeatureIInv'
<1>1. /\ UNCHANGED <<asked, dependsOn, installsAfter, published, pending, resolved, naming, ordered>>
      /\ phase = "order" /\ Installed = Features /\ phase' \in {"refused", "installed"}
      /\ lockfile' = lockfile \/ lockfile' = Lockable
  BY Zenon DEF WriteLockfile, configured
<1>2. \A r \in DOMAIN lockfile' : lockfile'[r] \in Digests
  BY Zenon, <1>1 DEF FeatureIInv, FeatureType, Lockable
<1>3. FeatureType'
  BY Zenon, <1>1, <1>2 DEF FeatureIInv, FeatureType
<1>4. Complete' /\ OrderedSoFar' /\ Finished'
  BY Zenon, <1>1, GraphKept
<1>5. Pinned'
  BY Zenon, <1>1 DEF Pinned
<1> QED
  BY <1>3, <1>4, <1>5, Zenon DEF FeatureIInv

(* If nothing is left that may be installed, what is left depends on itself. *)
LEMMA RefusedForACycle ==
  ASSUME FeatureIInv, phase = "order", Installed # Features, \A f \in Features : ~Candidate(f)
  PROVE  \E f \in Features : f \in Needs(f)
<1> DEFINE U == Features \ Installed
<1>1. IsFiniteSet(Features)
  BY Zenon, FeatureAssumption, FS_Subset DEF FeatureIInv, FeatureType, Features
<1>2. \A h \in Features : Dependencies(h) \subseteq Features
  BY Zenon, DependenciesAreFeatures DEF FeatureIInv
<1>3. Installed \subseteq Features
  BY DEF FeatureIInv, FeatureType, OrderedSoFar, Installed, Range
<1>4. U \in SUBSET Features /\ U # {}
  BY Zenon, <1>3
<1>5. \A f \in U : \E g \in U : g \in Dependencies(f)
  BY Zenon, <1>2 DEF Candidate
<1> QED
  BY Zenon, <1>1, <1>2, <1>4, <1>5, CycleFound

(* Features in the order of their references: each of them once.             *)
LEMMA ByReferenceFacts ==
  ASSUME FeatureType, NEW features \in SUBSET Features, NEW s \in ByReference(features)
  PROVE  /\ s \in Seq(Digests) /\ \A i \in 1 .. Len(s) : s[i] \in features
         /\ \A i, j \in 1 .. Len(s) : s[i] = s[j] => i = j
<1>0. features \in SUBSET Digests
  BY Zenon DEF FeatureType, Features
<1>1. Cardinality(features) \in Nat
  BY Zenon, <1>0, FeatureAssumption, FS_Subset, FS_CardinalityType
<1>2. /\ s \in [1 .. Cardinality(features) -> features]
      /\ \A i, j \in DOMAIN s : i < j => naming[s[i]] < naming[s[j]]
  BY Zenon DEF ByReference
<1>3. s \in Seq(features) /\ Len(s) = Cardinality(features) /\ DOMAIN s = 1 .. Len(s)
  BY <1>1, <1>2
<1>4. \A f \in features : naming[f] \in Nat
  BY Zenon, FeatureAssumption DEF FeatureType, Features
<1>5. ASSUME NEW i \in 1 .. Len(s), NEW j \in 1 .. Len(s), s[i] = s[j] PROVE i = j
  <2>1. ~(naming[s[i]] < naming[s[j]]) /\ ~(naming[s[j]] < naming[s[i]])
    BY SMTT(60), <1>3, <1>4, <1>5
  <2>2. ~(i < j) /\ ~(j < i)
    BY Zenon, <2>1, <1>2, <1>3
  <2> QED
    BY SMTT(60), <2>2, <1>1, <1>3
<1> QED
  BY SMTT(60), <1>0, <1>3, <1>5

(* A round appends features that are not installed yet and whose             *)
(* dependencies are.                                                         *)
LEMMA Appended ==
  ASSUME FeatureType, OrderedSoFar, NEW s \in Seq(Digests),
         \A i \in 1 .. Len(s) : s[i] \in Features /\ Candidate(s[i]),
         \A i, j \in 1 .. Len(s) : s[i] = s[j] => i = j,
         ordered' = ordered \o s, phase = "order", UNCHANGED <<phase, resolved, naming, dependsOn, installsAfter>>
  PROVE  ordered' \in Seq(Digests) /\ OrderedSoFar'
<1> DEFINE n == Len(ordered)
<1>0. ordered \in Seq(Digests) /\ n \in Nat /\ Len(s) \in Nat
  BY DEF FeatureType
<1>1. ordered' \in Seq(Digests) /\ Len(ordered') = n + Len(s)
  BY SMTT(60), <1>0
<1>2. \A i \in 1 .. n : ordered'[i] = ordered[i]
  BY SMTT(60), <1>0
<1>3. ASSUME NEW i \in 1 .. Len(ordered'), i \notin 1 .. n
      PROVE  i - n \in 1 .. Len(s) /\ ordered'[i] = s[i - n]
  BY SMTT(60), <1>0, <1>1, <1>3
<1>4. Features' = Features /\ \A f : Dependencies(f)' = Dependencies(f)
  BY Zenon, GraphStays
<1>5. Installed = {ordered[j] : j \in 1 .. n}
  BY <1>0 DEF Installed, Range
<1>6. ASSUME NEW i \in 1 .. Len(ordered'), NEW j \in 1 .. Len(ordered'), ordered'[i] = ordered'[j]
      PROVE  i = j
  <2>1. CASE i \in 1 .. n /\ j \in 1 .. n
    BY Zenon, <2>1, <1>2, <1>6 DEF OrderedSoFar
  <2>2. CASE i \notin 1 .. n /\ j \notin 1 .. n
    <3>1. i - n = j - n
      BY SMTT(60), <2>2, <1>3, <1>6
    <3> QED
      BY SMTT(60), <3>1, <1>0, <1>1
  <2>3. \A k \in 1 .. n : ordered'[k] \in Installed
    BY Zenon, <1>2, <1>5
  <2>4. \A k \in 1 .. Len(ordered') : k \notin 1 .. n => ordered'[k] \notin Installed
    BY Zenon, <1>3 DEF Candidate
  <2> QED
    BY ZenonT(60), <2>1, <2>2, <2>3, <2>4, <1>6
<1>7. ASSUME NEW i \in 1 .. Len(ordered')
      PROVE  ordered'[i] \in Features /\ Dependencies(ordered'[i]) \subseteq Before(i)'
  <2>1. CASE i \in 1 .. n
    <3>1. Before(i)' = Before(i)
      BY SMTT(60), <2>1, <1>0, <1>2 DEF Before
    <3> QED
      BY ZenonT(60), <3>1, <2>1, <1>2 DEF OrderedSoFar
  <2>2. CASE i \notin 1 .. n
    <3>1. Installed \subseteq Before(i)'
      BY SMTT(60), <2>2, <1>0, <1>1, <1>2, <1>5 DEF Before
    <3>2. ordered'[i] \in Features /\ Candidate(ordered'[i])
      BY Zenon, <2>2, <1>3
    <3> QED
      BY Zenon, <3>1, <3>2 DEF Candidate
  <2> QED
    BY Zenon, <2>1, <2>2
<1> QED
  BY ZenonT(60), <1>1, <1>4, <1>6, <1>7 DEF OrderedSoFar

\* orderFeatures: a round appends features whose dependencies are installed, or
\* there is none and the configuration is refused.
LEMMA OrderStep ==
  ASSUME FeatureIInv, orderFeatures
  PROVE  FeatureIInv'
<1> DEFINE candidates == {f \in Features : Candidate(f)}
           first == {f \in candidates : \A g \in candidates : Priority(g) <= Priority(f)}
<1>0. /\ phase = "order" /\ Installed # Features
      /\ UNCHANGED <<asked, dependsOn, installsAfter, published, lockfile, pending, resolved, naming>>
  BY Zenon DEF orderFeatures, configured
<1>1. CASE candidates = {}
  <2>1. phase' = "cycle" /\ UNCHANGED ordered
    BY Zenon, <1>1 DEF orderFeatures
  <2>2. FeatureType' /\ Complete' /\ Pinned'
    BY Zenon, <1>0, <2>1 DEF FeatureIInv, FeatureType, Complete, Pinned, Ahead
  <2>3. \E f \in Features : f \in Needs(f)
    BY Zenon, <1>0, <1>1, RefusedForACycle
  <2>4. Features' = Features /\ \A f : Dependencies(f)' = Dependencies(f) /\ Needs(f)' = Needs(f)
    BY Zenon, <1>0, GraphStays
  <2>5. Finished'
    BY Zenon, <2>1, <2>3, <2>4 DEF Finished
  <2>6. OrderedSoFar'
    BY <2>1, <2>4 DEF FeatureIInv, OrderedSoFar, Before
  <2> QED
    BY <2>2, <2>5, <2>6, Zenon DEF FeatureIInv
<1>2. CASE candidates # {}
  <2>1. PICK s \in ByReference(first) : ordered' = ordered \o s /\ UNCHANGED phase
    BY Zenon, <1>2 DEF orderFeatures
  <2>2. first \in SUBSET Features /\ \A f \in first : Candidate(f)
    OBVIOUS
  <2> HIDE DEF first
  <2>3. /\ s \in Seq(Digests) /\ \A i \in 1 .. Len(s) : s[i] \in Features /\ Candidate(s[i])
        /\ \A i, j \in 1 .. Len(s) : s[i] = s[j] => i = j
    BY Zenon, <2>2, ByReferenceFacts DEF FeatureIInv
  <2>4. ordered' \in Seq(Digests) /\ OrderedSoFar'
    BY Zenon, <1>0, <2>1, <2>3, Appended DEF FeatureIInv
  <2>5. FeatureType' /\ Complete' /\ Pinned' /\ Finished'
    BY Zenon, <1>0, <2>1, <2>4 DEF FeatureIInv, FeatureType, Complete, Pinned, Finished, Ahead
  <2> QED
    BY <2>4, <2>5, Zenon DEF FeatureIInv
<1> QED
  BY Zenon, <1>1, <1>2

\* Nothing is known, resolved or ordered.
LEMMA FeatureInitIInv == FeatureInit => FeatureIInv
<1> SUFFICES ASSUME FeatureInit PROVE FeatureIInv
    OBVIOUS
<1>1. /\ phase = "unknown" /\ pending = <<>> /\ ordered = <<>>
      /\ DOMAIN naming = {} /\ DOMAIN resolved = {} /\ DOMAIN lockfile = {}
  BY Zenon DEF FeatureInit, Nothing
<1>2. FeatureType /\ Complete /\ Pinned /\ Finished
  BY <1>1 DEF FeatureType, Complete, Pinned, Finished
<1>3. OrderedSoFar
  BY <1>1 DEF OrderedSoFar
<1> QED
  BY <1>2, <1>3, Zenon DEF FeatureIInv

\* Every step of the installation keeps the invariant.
LEMMA FeatureStep == FeatureIInv /\ [FeatureNext]_featureVars => FeatureIInv'
<1> SUFFICES ASSUME FeatureIInv, [FeatureNext]_featureVars PROVE FeatureIInv'
    OBVIOUS
<1>1. CASE UNCHANGED featureVars
  <2>1. UNCHANGED <<asked, dependsOn, installsAfter, published, lockfile, phase, pending, resolved, naming, ordered>>
    BY Zenon, <1>1 DEF featureVars
  <2>2. FeatureType' /\ Pinned'
    BY Zenon, <2>1 DEF FeatureIInv, FeatureType, Pinned
  <2>3. Complete' /\ OrderedSoFar' /\ Finished'
    BY Zenon, <2>1, GraphKept
  <2> QED
    BY <2>2, <2>3, Zenon DEF FeatureIInv
<1> QED
  BY ZenonT(60), <1>1, ConfigurationStep, RepublishStep, BeginStep, ResolveStep, FetchFailsStep, OrderStep,
     WriteLockfileStep, Zenon DEF FeatureNext

\* The invariant always holds.
LEMMA FeatureInvariance == FeatureSpec => []FeatureIInv
BY FeatureInitIInv, FeatureStep, PTL DEF FeatureSpec

(* A complete order has as many entries as there are features: none twice.   *)
LEMMA EveryFeatureOnce ==
  ASSUME FeatureIInv, Installed = Features
  PROVE  Len(ordered) = Cardinality(Features)
<1> DEFINE S == 1 .. Len(ordered)
<1>0. ordered \in Seq(Digests) /\ Len(ordered) \in Nat /\ DOMAIN ordered = S
  BY DEF FeatureIInv, FeatureType
<1>1. Features = {ordered[i] : i \in S}
  BY Zenon, <1>0 DEF Installed, Range
<1>2. ordered \in [S -> Features]
  BY <1>0, <1>1
<1>3. ordered \in Surjection(S, Features)
  BY Zenon, <1>1, <1>2 DEF Surjection
<1>4. ordered \in Injection(S, Features)
  BY Zenon, <1>2 DEF Injection, IsInjective, FeatureIInv, OrderedSoFar
<1>5. IsFiniteSet(S) /\ Cardinality(S) = Len(ordered)
  BY SMTT(60), <1>0, FS_Interval
<1> HIDE DEF S
<1> QED
  BY ZenonT(60), <1>3, <1>4, <1>5, FS_Surjection

\* orderFeatures, findFeatureMatches: for any features, dependencies and override,
\* an install order has each feature once and after all it needs, and a
\* configuration is refused for a cycle only if its graph has one.
THEOREM OrdersAreTopological == FeatureSpec => []OrderIsTopological
<1>1. ASSUME FeatureIInv PROVE OrderIsTopological
  <2>1. phase = "installed" => Len(ordered) = Cardinality(Features) /\ Installed = Features
    BY Zenon, <1>1, EveryFeatureOnce DEF FeatureIInv, Finished
  <2>2. \A i \in 1 .. Len(ordered) : Needs(ordered[i]) \subseteq {ordered[j] : j \in 1 .. i - 1}
    BY Zenon, <1>1, NeededBefore DEF FeatureIInv, Before
  <2>3. phase = "cycle" => \E f \in Features : f \in Needs(f)
    BY Zenon, <1>1 DEF FeatureIInv, Finished
  <2> QED
    BY Zenon, <2>1, <2>2, <2>3 DEF OrderIsTopological
<1> QED
  BY <1>1, FeatureInvariance, PTL

\* fetchFeature, WriteLockfile: no step changes what the lockfile says of a
\* reference that stays in it.
THEOREM LocksHold == FeatureSpec => LockHolds
<1> DEFINE Held == \A r \in DOMAIN lockfile \cap DOMAIN lockfile' : lockfile'[r] = lockfile[r]
<1>1. ASSUME FeatureIInv, [FeatureNext]_featureVars PROVE [Held]_featureVars
  <2> SUFFICES ASSUME FeatureNext PROVE Held
      BY Zenon, <1>1
  <2>1. CASE WriteLockfile
    BY Zenon, <1>1, <2>1 DEF WriteLockfile, Lockable, FeatureIInv, Pinned
  <2>2. CASE UNCHANGED lockfile
    BY Zenon, <2>2
  <2> QED
    BY <2>1, <2>2, Zenon DEF FeatureNext, Configuration, Republish, BeginFeatures, resolveFeature,
       FetchFails, BeginOrder, orderFeatures, Freeze
<1> QED
  BY <1>1, FeatureInvariance, PTL DEF FeatureSpec, LockHolds
=============================================================================
