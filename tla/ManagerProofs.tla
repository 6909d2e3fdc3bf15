---------------------------- MODULE ManagerProofs ---------------------------
(***************************************************************************)
(* Five parts of the Manager, each for every value of its constants: who   *)
(* writes a cache, what a cleanup of the registry removes, what the        *)
(* removal of a site destroys, what an installation trusts, and what       *)
(* concurrent saves of a component keep.                                   *)
(***************************************************************************)
EXTENDS CacheOwner, RegistryCache, SiteLifecycle, InternalIdentity, ComponentController, TLAPS

(***************************************************************************)
(* The owner of a cache: CacheIInv.                                        *)
(*                                                                         *)
(* A cache component has one writer, for any number of processes, any      *)
(* disturbances and any durations with PermitMargin < OwnerTTL.            *)
(*                                                                         *)
(* The chain behind it: an instance's timer runs out no later than the     *)
(* permit of its process, a permit is at least the margin shorter than the *)
(* Lease it was given under, and an answer on its way is as old as the     *)
(* time that has passed since the Lease was renewed for it. While any of   *)
(* these is alive the Lease still names the process, so claimCache admits  *)
(* nobody else and validateResourceDeletion finds the cache in use.        *)
(***************************************************************************)
Answers == {"claimed", "renewed", "granted", "completed"}
Sessions == (Procs \cup {"nobody"}) \X {"new", "old", "gone"}
Streams == [state : {"none", "claiming", "open", "failed"}, revision : Nat,
            enabled : BOOLEAN, ask : Asked \cup Answers \cup {"none"}, age : Nat]
Instances == [state : {"off", "running", "stopping"}, timer : Nat, revision : Nat,
              gc : {"due", "drain", "drained", "prune", "finish", "rest"}]

Leases == [holder : Sessions, left : 0 .. OwnerTTL, revision : Nat]
Grants == [holder : Sessions, left : Nat]
Requests == [kind : Asked \cup {"none"}, session : {"new", "old"}]

CacheType ==
  /\ cache \in [revision : Nat, enabled : BOOLEAN, exists : BOOLEAN]
  /\ deletion \in Int
  /\ owner \in Leases
  /\ grant \in Grants
  /\ conn \in [Procs -> Streams]
  /\ late \in [Procs -> Requests]
  /\ permit \in [Procs -> Nat]
  /\ inst \in [Procs -> Instances]

(* An answer young enough to give a permit came from the Lease now held.    *)
AnswersCovered ==
  \A p \in Procs :
    conn[p].ask \in Answers /\ conn[p].age < OwnerTTL
      => owner.holder[1] = p /\ owner.left + conn[p].age >= OwnerTTL

(* A permit ends before the Lease it was given under.                       *)
PermitsCovered ==
  \A p \in Procs :
    permit[p] > 0 => owner.holder[1] = p /\ owner.left >= permit[p] + PermitMargin

(* An instance is cancelled no later than its process's permit ends.        *)
TimersCovered ==
  \A p \in Procs : Running(p) => inst[p].timer > 0 /\ inst[p].timer <= permit[p]

(* A validated deletion is of a disabled cache whose Lease ran out, and     *)
(* stays so at that revision; a cache that is gone has no Lease.            *)
DeletionSafe ==
  /\ deletion <= cache.revision
  /\ deletion = cache.revision /\ cache.exists => ~cache.enabled /\ owner.left = 0
  /\ ~cache.exists => owner.left = 0

CacheIInv == CacheType /\ AnswersCovered /\ PermitsCovered /\ TimersCovered /\ DeletionSafe

(* The invariant gives the property: two running instances both have        *)
(* permits, so the one Lease names both processes.                          *)
LEMMA CoveredIsSingle == CacheIInv => OneCacheWriter
<1> SUFFICES ASSUME CacheIInv, NEW p \in Procs, Running(p)
             PROVE  cache.exists /\ \A q \in Procs : Running(q) => p = q
    BY Zenon DEF OneCacheWriter
<1>1. ASSUME NEW q \in Procs, Running(q)
      PROVE  owner.holder[1] = q /\ owner.left > 0
  BY <1>1, CacheOwnerConstants
  DEF CacheIInv, CacheType, PermitsCovered, TimersCovered, Instances, Leases
<1>2. cache.exists
  BY <1>1 DEF CacheIInv, DeletionSafe
<1> QED
  BY Zenon, <1>1, <1>2

(* Before the component exists nothing holds a Lease, a permit or a stream. *)
LEMMA CacheInitIInv == CacheInit => CacheIInv
<1> SUFFICES ASSUME CacheInit PROVE CacheIInv
    OBVIOUS
<1>1. CacheType
  BY CacheOwnerConstants
  DEF CacheInit, CacheType, Leases, Grants, Requests, NoOne, NoStream, NoLate, NoInstance,
      Sessions, Streams,
         Instances, Asked, Answers
<1>2. AnswersCovered /\ PermitsCovered /\ TimersCovered
  BY DEF CacheInit, AnswersCovered, PermitsCovered, TimersCovered, Running, NoStream, NoInstance,
         Answers
<1>3. DeletionSafe
  BY DEF CacheInit, DeletionSafe
<1> QED
  BY Zenon, <1>1, <1>2, <1>3 DEF CacheIInv

(***************************************************************************)
(* What a process's step does to the Lease, and to the process.            *)
(***************************************************************************)

LeaseStays == owner'.holder[1] = owner.holder[1] /\ owner'.left = owner.left

Taken(o, p) ==
  /\ Serves /\ (owner.left = 0 \/ owner.holder[1] = p)
  /\ o.holder[1] = p /\ o.left = OwnerTTL

StepOf(p) ==
  /\ UNCHANGED <<cache, deletion>>
  /\ \A q \in Procs : q # p => conn'[q] = conn[q] /\ permit'[q] = permit[q] /\ inst'[q] = inst[q]
  /\ LeaseStays \/ Taken(owner', p)
  /\ conn'[p].ask \in Answers
       => Taken(owner', p) \/ (conn[p].ask \in Answers /\ conn'[p].age = conn[p].age)
  /\ \/ permit'[p] <= permit[p]
     \/ LeaseStays /\ conn[p].ask \in Answers /\ permit'[p] = PermitFrom(conn[p].age)
  /\ Running(p)' => inst'[p].timer > 0 /\ inst'[p].timer <= permit'[p]

(* Manager takes the Lease for a session only if it is over or the          *)
(* process's own, and then for its whole term; otherwise the Lease stays    *)
(* and the stream is broken.                                                *)
LEMMA HandledDoes ==
  ASSUME CacheType, NEW p \in Procs, NEW age \in {"new", "old"}, NEW kind \in Asked
  PROVE  /\ Handled(kind, <<p, age>>).owner \in Leases
         /\ Handled(kind, <<p, age>>).grant \in Grants
         /\ Handled(kind, <<p, age>>).answer \in Answers \cup {"broken"}
         /\ \/ /\ Handled(kind, <<p, age>>).owner = owner
               /\ Handled(kind, <<p, age>>).answer = "broken"
            \/ Taken(Handled(kind, <<p, age>>).owner, p)
<1> DEFINE asker == <<p, age>>
<1>1. asker \in Sessions /\ asker[1] = p
  BY Zenon DEF Sessions
<1>2. NoOne \in Sessions
  BY Zenon DEF Sessions, NoOne
<1>3. Held(asker) \in Leases /\ Held(asker).holder = asker /\ Held(asker).left = OwnerTTL
  <2> HIDE DEF asker
  <2> QED
    BY <1>1, CacheOwnerConstants DEF Held, Leases, CacheType
<1>4. owner \in Leases /\ grant \in Grants
  BY Zenon DEF CacheType
<1>5. [holder |-> asker, left |-> GCTTL] \in Grants /\ [holder |-> NoOne, left |-> 0] \in Grants
  <2> HIDE DEF asker
  <2> QED
    BY Zenon, <1>1, <1>2, CacheOwnerConstants DEF Grants
<1> SUFFICES /\ Handled(kind, asker).owner \in Leases
             /\ Handled(kind, asker).grant \in Grants
             /\ Handled(kind, asker).answer \in Answers \cup {"broken"}
             /\ \/ Handled(kind, asker).owner = owner /\ Handled(kind, asker).answer = "broken"
                \/ Taken(Handled(kind, asker).owner, p)
    OBVIOUS
<1> HIDE DEF asker
<1>6. CASE kind = "claim"
  BY Zenon, <1>1, <1>3, <1>4, <1>6 DEF Handled, claimCache, Claimable, Result, Taken, Answers
<1>7. CASE kind # "claim" /\ ~renewCache(asker)
  BY Zenon, <1>4, <1>7 DEF Handled, Result
<1>8. CASE kind # "claim" /\ renewCache(asker)
  <2>1. Taken(Held(asker), p)
    BY Zenon, <1>1, <1>3, <1>8 DEF Taken, renewCache
  <2>2. CASE kind = "beat"
    BY Zenon, <1>3, <1>4, <1>8, <2>1, <2>2 DEF Handled, Result, Answers
  <2>3. CASE kind = "begin"
    BY Zenon, <1>3, <1>4, <1>5, <1>8, <2>1, <2>3 DEF Handled, beginCacheGC, Result, Answers
  <2>4. CASE kind = "complete"
    BY Zenon, <1>3, <1>4, <1>5, <1>8, <2>1, <2>4 DEF Handled, completeCacheGC, Result, Answers
  <2> QED
    BY Zenon, <1>8, <2>2, <2>3, <2>4 DEF Asked
<1> QED
  BY Zenon, <1>6, <1>7, <1>8

(* A step of this shape keeps everything covered.                           *)
LEMMA StepCovered ==
  ASSUME CacheIInv, NEW p \in Procs, StepOf(p), CacheType'
  PROVE  CacheIInv'
<1> USE CacheOwnerConstants
<1>1. Nat \subseteq Int /\ OwnerTTL \in Nat /\ PermitMargin \in Nat /\ PermitMargin > 0
  OBVIOUS
<1>2. /\ owner.left \in 0 .. OwnerTTL
      /\ owner'.left \in 0 .. OwnerTTL
      /\ \A q \in Procs : permit[q] \in Nat /\ permit'[q] \in Nat
      /\ \A q \in Procs : conn[q].age \in Nat /\ conn'[q].age \in Nat
  BY Zenon DEF CacheIInv, CacheType, Leases, Streams
<1>3. AnswersCovered'
  <2> SUFFICES ASSUME NEW q \in Procs, conn'[q].ask \in Answers, conn'[q].age < OwnerTTL
               PROVE  owner'.holder[1] = q /\ owner'.left + conn'[q].age >= OwnerTTL
      BY Zenon DEF AnswersCovered
  <2>1. CASE q = p
    BY SMTT(60), <1>1, <1>2, <2>1 DEF CacheIInv, AnswersCovered, StepOf, Taken, LeaseStays
  <2>2. CASE q # p
    BY <1>1, <1>2, <2>2 DEF CacheIInv, AnswersCovered, StepOf, Taken, LeaseStays
  <2> QED
    BY Zenon, <2>1, <2>2
<1>4. PermitsCovered'
  <2> SUFFICES ASSUME NEW q \in Procs, permit'[q] > 0
               PROVE  owner'.holder[1] = q /\ owner'.left >= permit'[q] + PermitMargin
      BY Zenon DEF PermitsCovered
  <2>1. CASE q = p
    <3>1. CASE permit'[p] <= permit[p]
      BY SMTT(60), <1>1, <1>2, <2>1, <3>1 DEF CacheIInv, PermitsCovered, StepOf, Taken, LeaseStays
    <3>2. CASE LeaseStays /\ conn[p].ask \in Answers /\ permit'[p] = PermitFrom(conn[p].age)
      BY SMTT(60), <1>1, <1>2, <2>1, <3>2 DEF CacheIInv, AnswersCovered, LeaseStays, PermitFrom
    <3> QED
      BY Zenon, <3>1, <3>2 DEF StepOf
  <2>2. CASE q # p
    BY <1>1, <1>2, <2>2 DEF CacheIInv, PermitsCovered, StepOf, Taken, LeaseStays
  <2> QED
    BY Zenon, <2>1, <2>2
<1>5. TimersCovered'
  BY Zenon DEF CacheIInv, TimersCovered, StepOf, Running
<1>6. DeletionSafe'
  BY Zenon, <1>2 DEF CacheIInv, DeletionSafe, StepOf, Taken, LeaseStays, Serves
<1> QED
  BY Zenon, <1>3, <1>4, <1>5, <1>6 DEF CacheIInv

(***************************************************************************)
(* The steps of a process and of Manager on its stream.                    *)
(***************************************************************************)

(* A stream given up leaves no answer to wait for; its request may still be *)
(* handled.                                                                 *)
LEMMA StreamFacts ==
  ASSUME CacheType, NEW p \in Procs
  PROVE  /\ NoStream \in Streams /\ NoStream.ask = "none"
         /\ FailedStream \in Streams /\ FailedStream.ask = "none"
         /\ NoInstance \in Instances /\ NoInstance.state = "off"
         /\ NoLate \in Requests /\ Abandoned(p) \in Requests
         /\ conn[p] \in Streams /\ inst[p] \in Instances /\ late[p] \in Requests
         /\ permit[p] \in Nat
<1>1. NoStream \in Streams /\ NoStream.ask = "none"
  BY Zenon DEF NoStream, Streams
<1>2. FailedStream \in Streams /\ FailedStream.ask = "none"
  BY Zenon DEF NoStream, FailedStream, Streams
<1>3. NoInstance \in Instances /\ NoInstance.state = "off"
  BY Zenon DEF NoInstance, Instances
<1>4. NoLate \in Requests /\ Abandoned(p) \in Requests
  BY Zenon DEF CacheType, NoLate, Abandoned, Requests, Asked
<1> QED
  BY Zenon, <1>1, <1>2, <1>3, <1>4 DEF CacheType

(* The age of the session a Lease names changes, never its process.         *)
LEMMA AgedFacts ==
  ASSUME NEW h \in Sessions, NEW p \in Procs
  PROVE  Aged(h, p) \in Sessions /\ Aged(h, p)[1] = h[1]
BY Zenon DEF Aged, Older, Sessions

(* A new stream has a new session: the Leases name an older one from then.  *)
LEMMA StartDoes ==
  ASSUME CacheIInv, NEW p \in Procs, StartStream(p)
  PROVE  StepOf(p) /\ CacheType'
<1>1. CacheType
  BY Zenon DEF CacheIInv
<1>2. [NoStream EXCEPT !.state = "claiming", !.ask = "claim"] \in Streams
  BY Zenon DEF NoStream, Streams, Asked
<1>3. owner' \in Leases /\ LeaseStays
  <2>1. owner.holder \in Sessions /\ owner' = [owner EXCEPT !.holder = Aged(owner.holder, p)]
    BY Zenon, <1>1 DEF CacheType, Leases, StartStream
  <2> QED
    BY Zenon, <1>1, <2>1, AgedFacts DEF CacheType, Leases, LeaseStays
<1>4. grant' \in Grants
  <2>1. grant.holder \in Sessions /\ grant' = [grant EXCEPT !.holder = Aged(grant.holder, p)]
    BY Zenon, <1>1 DEF CacheType, Grants, StartStream
  <2> QED
    BY Zenon, <1>1, <2>1, AgedFacts DEF CacheType, Grants
<1>5. late' \in [Procs -> Requests]
  BY SMTT(60), <1>1, StreamFacts DEF CacheType, StartStream, Requests
<1>6. conn' \in [Procs -> Streams] /\ conn'[p].ask = "claim"
  BY Zenon, <1>1, <1>2 DEF CacheType, StartStream, NoStream
<1>7. CacheType'
  BY Zenon, <1>1, <1>3, <1>4, <1>5, <1>6 DEF CacheType, StartStream
<1>8. StepOf(p)
  BY <1>1, <1>3, <1>6 DEF StepOf, StartStream, CacheType, CacheIInv, TimersCovered, Running, Answers
<1> QED
  BY Zenon, <1>7, <1>8

(* Giving up a stream takes nothing from and adds nothing to the permit.    *)
LEMMA FailDoes ==
  ASSUME CacheIInv, NEW p \in Procs, failLocked(p),
         UNCHANGED <<cache, deletion, owner, grant, permit, inst>>
  PROVE  StepOf(p) /\ CacheType'
<1>1. CacheType
  BY Zenon DEF CacheIInv
<1>2. conn'[p].ask = "none"
  BY Zenon, <1>1, StreamFacts DEF CacheType, failLocked
<1>3. CacheType'
  BY Zenon, <1>1, StreamFacts DEF CacheType, failLocked
<1>4. StepOf(p)
  BY <1>1, <1>2 DEF StepOf, LeaseStays, failLocked, CacheType, CacheIInv, TimersCovered, Running, Answers
<1> QED
  BY Zenon, <1>3, <1>4

(* An accepted answer extends the permit to what its request was sent for,  *)
(* and a heartbeat's sets the instance's timer to the permit.               *)
LEMMA ReceiveDoes ==
  ASSUME CacheIInv, NEW p \in Procs, Receive(p)
  PROVE  StepOf(p) /\ CacheType'
<1>1. CacheType
  BY Zenon DEF CacheIInv
<1>2. CASE PermitFrom(conn[p].age) > 0
  <2> DEFINE until == Longer(permit[p], PermitFrom(conn[p].age))
  <2>1. /\ until \in Nat /\ until > 0 /\ until >= permit[p]
        /\ until = permit[p] \/ until = PermitFrom(conn[p].age)
    BY <1>1, <1>2, StreamFacts, CacheOwnerConstants DEF Longer, PermitFrom, Streams
  <2>2. /\ permit' = [permit EXCEPT ![p] = until]
        /\ conn' = [conn EXCEPT ![p] = [@ EXCEPT !.state = "open", !.ask = "none", !.age = 0]]
        /\ UNCHANGED <<cache, deletion, owner, grant, late>>
        /\ conn[p].ask \in Answers
    BY Zenon, <1>2 DEF Receive, Accepted, Answers
  <2> DEFINE i == CASE conn[p].ask = "renewed" /\ Running(p) -> [inst[p] EXCEPT !.timer = until]
                    [] conn[p].ask = "granted" /\ Running(p) ->
                         [inst[p] EXCEPT !.gc = IF grant.left - GCMargin <= 1 THEN "finish" ELSE "drain"]
                    [] conn[p].ask = "completed" -> [inst[p] EXCEPT !.gc = "rest"]
                    [] OTHER -> inst[p]
  <2>3. inst' = [inst EXCEPT ![p] = i]
    BY Zenon, <1>1, <1>2 DEF Receive, Accepted, CacheType
  <2>4. i \in Instances /\ i.state = inst[p].state /\ i.timer \in {inst[p].timer, until}
    <3> HIDE DEF until
    <3>1. inst[p] \in Instances
      BY Zenon, <1>1, StreamFacts
    <3> QED
      BY Zenon, <2>1, <3>1 DEF Instances
  <2> HIDE DEF until, i
  <2>5. conn' \in [Procs -> Streams] /\ conn'[p].ask = "none"
    BY ZenonT(60), <1>1, <2>2, StreamFacts DEF CacheType, Streams
  <2>6. CacheType'
    BY Zenon, <1>1, <2>1, <2>2, <2>3, <2>4, <2>5 DEF CacheType
  <2>7. Running(p)' => inst'[p].timer > 0 /\ inst'[p].timer <= permit'[p]
    <3>1. inst'[p] = i /\ permit'[p] = until
      BY Zenon, <1>1, <2>2, <2>3 DEF CacheType
    <3>2. Running(p)' => inst[p].timer > 0 /\ inst[p].timer <= permit[p]
      BY Zenon, <2>4, <3>1 DEF Running, CacheIInv, TimersCovered
    <3>3. permit[p] \in Nat /\ inst[p].timer \in Nat
      BY Zenon, <1>1 DEF CacheType, Instances
    <3> QED
      BY <2>1, <2>4, <3>1, <3>2, <3>3
  <2>8. StepOf(p)
    BY Zenon, <1>1, <2>1, <2>2, <2>3, <2>5, <2>7 DEF StepOf, LeaseStays, CacheType, Answers
  <2> QED
    BY Zenon, <2>6, <2>8
<1>3. CASE ~(PermitFrom(conn[p].age) > 0)
  BY Zenon, <1>3, FailDoes DEF Receive
<1> QED
  BY Zenon, <1>2, <1>3

(* A maintenance request that timed out is dropped; any other timeout gives *)
(* up the stream.                                                           *)
LEMMA TimeoutDoes ==
  ASSUME CacheIInv, NEW p \in Procs, AskTimeout(p)
  PROVE  StepOf(p) /\ CacheType'
<1>1. CacheType
  BY Zenon DEF CacheIInv
<1>2. CASE conn[p].ask \in {"begin", "complete", "granted", "completed"}
  <2>1. /\ conn' = [conn EXCEPT ![p] = [@ EXCEPT !.ask = "none", !.age = 0]]
        /\ late' = [late EXCEPT ![p] = Abandoned(p)]
        /\ inst' = [inst EXCEPT ![p].gc = IF conn[p].ask \in {"begin", "granted"} THEN "due" ELSE "rest"]
        /\ UNCHANGED <<cache, deletion, owner, grant, permit>>
    BY Zenon, <1>2 DEF AskTimeout
  <2>2. conn' \in [Procs -> Streams] /\ conn'[p].ask = "none"
    BY ZenonT(60), <1>1, <2>1, StreamFacts DEF CacheType, Streams
  <2>3. /\ inst' \in [Procs -> Instances]
        /\ inst'[p].state = inst[p].state /\ inst'[p].timer = inst[p].timer
    BY <1>1, <2>1, StreamFacts DEF CacheType, Instances
  <2>4. CacheType'
    BY Zenon, <1>1, <2>1, <2>2, <2>3, StreamFacts DEF CacheType
  <2>5. StepOf(p)
    BY <1>1, <2>1, <2>2, <2>3
    DEF StepOf, LeaseStays, CacheType, CacheIInv, TimersCovered, Running, Answers
  <2> QED
    BY Zenon, <2>4, <2>5
<1>3. CASE conn[p].ask \notin {"begin", "complete", "granted", "completed"}
  BY Zenon, <1>3, FailDoes DEF AskTimeout
<1> QED
  BY Zenon, <1>2, <1>3

(* A request sent has no answer yet.                                        *)
LEMMA AskDoes ==
  ASSUME CacheIInv, NEW p \in Procs, NEW kind \in Asked, Ask(p, kind), UNCHANGED inst
  PROVE  StepOf(p) /\ CacheType'
<1>1. CacheType
  BY Zenon DEF CacheIInv
<1>2. conn' \in [Procs -> Streams] /\ conn'[p].ask = kind
  BY ZenonT(60), <1>1, StreamFacts DEF CacheType, Streams, Ask
<1>3. CacheType'
  BY Zenon, <1>1, <1>2 DEF CacheType, Ask
<1>4. StepOf(p)
  BY <1>1, <1>2
  DEF StepOf, LeaseStays, CacheType, CacheIInv, TimersCovered, Running, Answers, Asked, Ask
<1> QED
  BY Zenon, <1>3, <1>4

(* An instance starts with its timer at the permit, and its cleanup, or its *)
(* end, never moves the timer.                                              *)
LEMMA InstanceDoes ==
  ASSUME CacheIInv, NEW p \in Procs,
         RunInstance(p) \/ StopInstance(p) \/ Prune(p) \/ Pruned(p) \/ CleanupDue(p)
  PROVE  StepOf(p) /\ CacheType'
<1>1. CacheType
  BY Zenon DEF CacheIInv
<1>2. /\ UNCHANGED <<cache, deletion, owner, grant, conn, late, permit>>
      /\ \A q \in Procs : q # p => inst'[q] = inst[q]
  BY Zenon, <1>1 DEF CacheType, RunInstance, StopInstance, Prune, Pruned, CleanupDue
<1>3. /\ inst' \in [Procs -> Instances]
      /\ Running(p)' => inst'[p].timer > 0 /\ inst'[p].timer <= permit'[p]
  <2>1. CASE RunInstance(p)
    <3>1. permit[p] \in Nat /\ permit[p] > 0 /\ conn[p].revision \in Nat
      BY Zenon, <1>1, <2>1 DEF CacheType, Streams, RunInstance, Runnable, Permitted
    <3> DEFINE i == [NoInstance EXCEPT !.state = "running", !.timer = permit[p],
                                       !.revision = conn[p].revision]
    <3>2. i \in Instances /\ i.timer = permit[p]
      BY Zenon, <3>1 DEF NoInstance, Instances
    <3>3. inst' = [inst EXCEPT ![p] = i]
      BY Zenon, <2>1 DEF RunInstance
    <3> HIDE DEF i
    <3> QED
      BY <1>1, <1>2, <3>1, <3>2, <3>3 DEF CacheType
  <2>2. CASE StopInstance(p)
    BY ZenonT(60), <1>1, <2>2, StreamFacts DEF CacheType, StopInstance, Stopped, Instances, Running
  <2>3. CASE Prune(p) \/ Pruned(p) \/ CleanupDue(p)
    <3>1. /\ inst' \in [Procs -> Instances]
          /\ inst'[p].state = inst[p].state /\ inst'[p].timer = inst[p].timer
      BY SMTT(60), <1>1, <2>3, StreamFacts DEF CacheType, Prune, Pruned, CleanupDue, Instances
    <3> QED
      BY Zenon, <1>2, <3>1 DEF CacheIInv, TimersCovered, Running
  <2> QED
    BY Zenon, <2>1, <2>2, <2>3
<1>4. CacheType'
  BY Zenon, <1>1, <1>2, <1>3 DEF CacheType
<1>5. StepOf(p)
  BY <1>1, <1>2, <1>3 DEF StepOf, LeaseStays, CacheType
<1> QED
  BY Zenon, <1>4, <1>5

(* A process that released its stream, or crashed, runs no instance.        *)
LEMMA EndDoes ==
  ASSUME CacheIInv, NEW p \in Procs, ReleaseCache(p) \/ Crash(p)
  PROVE  StepOf(p) /\ CacheType'
<1>1. CacheType
  BY Zenon DEF CacheIInv
<1>2. /\ UNCHANGED <<cache, deletion, owner, grant>>
      /\ conn' = [conn EXCEPT ![p] = NoStream]
      /\ late' = [late EXCEPT ![p] = Abandoned(p)]
      /\ inst' = [inst EXCEPT ![p] = NoInstance]
      /\ permit' \in [Procs -> Nat] /\ permit'[p] <= permit[p]
      /\ \A q \in Procs : q # p => permit'[q] = permit[q]
  BY <1>1 DEF CacheType, ReleaseCache, Crash
<1>3. CacheType'
  BY Zenon, <1>1, <1>2, StreamFacts DEF CacheType
<1>4. conn'[p].ask = "none" /\ inst'[p].state = "off"
  BY Zenon, <1>1, <1>2, StreamFacts DEF CacheType
<1>5. StepOf(p)
  BY Zenon, <1>1, <1>2, <1>4 DEF StepOf, LeaseStays, CacheType, Running, Answers
<1> QED
  BY Zenon, <1>3, <1>5

(* An answer is given only with the Lease taken or renewed.                 *)
LEMMA ControlDoes ==
  ASSUME CacheIInv, NEW p \in Procs, CacheControl(p)
  PROVE  StepOf(p) /\ CacheType'
<1>1. CacheType
  BY Zenon DEF CacheIInv
<1> DEFINE r == Handled(conn[p].ask, <<p, "new">>)
<1>2. /\ owner' = r.owner /\ grant' = r.grant
      /\ conn' = [conn EXCEPT ![p] = Answered(conn[p], r.answer)]
      /\ UNCHANGED <<cache, deletion, late, permit, inst>>
      /\ conn[p].ask \in Asked
  BY Zenon, <1>1 DEF CacheControl, Current, CacheType
<1>3. /\ r.owner \in Leases /\ r.grant \in Grants /\ r.answer \in Answers \cup {"broken"}
      /\ (r.owner = owner /\ r.answer = "broken") \/ Taken(r.owner, p)
  BY Zenon, <1>1, <1>2, HandledDoes
<1> HIDE DEF r
<1>4. /\ Answered(conn[p], r.answer) \in Streams
      /\ r.answer = "broken" => Answered(conn[p], r.answer).ask = "none"
  <2>1. CASE r.answer = "broken"
    BY Zenon, <1>1, <2>1, StreamFacts DEF Answered
  <2>2. CASE r.answer = "claimed"
    <3>1. cache.revision \in Nat /\ cache.enabled \in BOOLEAN
      BY Zenon, <1>1 DEF CacheType
    <3> QED
      BY ZenonT(60), <1>1, <2>2, <3>1, StreamFacts DEF Answered, Streams, Answers
  <2>3. CASE r.answer \in Answers \ {"claimed"}
    BY <1>1, <2>3, StreamFacts DEF Answered, Streams, Answers
  <2> QED
    BY Zenon, <1>3, <2>1, <2>2, <2>3
<1>5. CacheType'
  BY ZenonT(60), <1>1, <1>2, <1>3, <1>4 DEF CacheType
<1>6. StepOf(p)
  <2>1. conn'[p] = Answered(conn[p], r.answer) /\ \A q \in Procs : q # p => conn'[q] = conn[q]
    BY Zenon, <1>1, <1>2 DEF CacheType
  <2>2. LeaseStays \/ Taken(owner', p)
    BY Zenon, <1>2, <1>3 DEF LeaseStays
  <2>3. conn'[p].ask \in Answers => Taken(owner', p)
    BY Zenon, <1>2, <1>3, <1>4, <2>1 DEF Answers
  <2> QED
    BY <1>1, <1>2, <2>1, <2>2, <2>3 DEF StepOf, CacheType, CacheIInv, TimersCovered, Running
<1> QED
  BY Zenon, <1>5, <1>6

(* A request whose sender gave up takes the Lease like any other, and gives *)
(* no answer.                                                               *)
LEMMA LateDoes ==
  ASSUME CacheIInv, NEW p \in Procs, LateRequest(p)
  PROVE  StepOf(p) /\ CacheType'
<1>1. CacheType
  BY Zenon DEF CacheIInv
<1> DEFINE r == Handled(late[p].kind, <<p, late[p].session>>)
<1>2. late[p].kind \in Asked /\ late[p].session \in {"new", "old"}
  BY Zenon, <1>1 DEF LateRequest, CacheType, Requests
<1>3. /\ r.owner \in Leases /\ r.grant \in Grants
      /\ r.owner = owner \/ Taken(r.owner, p)
  BY Zenon, <1>1, <1>2, HandledDoes
<1>4. /\ (owner' = r.owner /\ grant' = r.grant) \/ UNCHANGED <<owner, grant>>
      /\ conn' = conn \/ conn' = [conn EXCEPT ![p] = FailedStream]
      /\ late' = [late EXCEPT ![p] = NoLate]
      /\ UNCHANGED <<cache, deletion, permit, inst>>
  <2>1. conn = [conn EXCEPT ![p] = conn[p]]
    BY Zenon, <1>1 DEF CacheType
  <2> QED
    BY Zenon, <2>1 DEF LateRequest
<1> HIDE DEF r
<1>5. /\ conn' \in [Procs -> Streams]
      /\ conn'[p] = conn[p] \/ conn'[p].ask = "none"
      /\ \A q \in Procs : q # p => conn'[q] = conn[q]
  BY <1>1, <1>4, StreamFacts DEF CacheType
<1>6. CacheType'
  BY Zenon, <1>1, <1>3, <1>4, <1>5, StreamFacts DEF CacheType
<1>7. LeaseStays \/ Taken(owner', p)
  BY ZenonT(60), <1>3, <1>4 DEF LeaseStays
<1>8. StepOf(p)
  BY <1>1, <1>4, <1>5, <1>7 DEF StepOf, CacheType, CacheIInv, TimersCovered, Running, Answers
<1> QED
  BY Zenon, <1>6, <1>8

(* A pushed configuration leaves the exchange on the stream as it is.       *)
LEMMA ConfigDoes ==
  ASSUME CacheIInv, NEW p \in Procs, SendConfig(p)
  PROVE  StepOf(p) /\ CacheType'
<1>1. CacheType
  BY Zenon DEF CacheIInv
<1>2. CASE cache.exists
  <2>1. cache.revision \in Nat /\ cache.enabled \in BOOLEAN
    BY Zenon, <1>1 DEF CacheType
  <2>2. /\ conn' = [conn EXCEPT ![p] = [@ EXCEPT !.revision = cache.revision, !.enabled = cache.enabled]]
        /\ UNCHANGED <<cache, deletion, owner, grant, late, permit, inst>>
    BY Zenon, <1>2 DEF SendConfig
  <2>3. conn' \in [Procs -> Streams] /\ conn'[p].ask = conn[p].ask /\ conn'[p].age = conn[p].age
    BY ZenonT(60), <1>1, <2>1, <2>2, StreamFacts DEF CacheType, Streams
  <2>4. CacheType'
    BY Zenon, <1>1, <2>2, <2>3 DEF CacheType
  <2>5. StepOf(p)
    BY <1>1, <2>2, <2>3 DEF StepOf, LeaseStays, CacheType, CacheIInv, TimersCovered, Running
  <2> QED
    BY Zenon, <2>4, <2>5
<1>3. CASE ~cache.exists
  BY Zenon, <1>3, FailDoes DEF SendConfig, failLocked
<1> QED
  BY Zenon, <1>2, <1>3

(* Every step of a process, and of Manager for it, keeps all covered.       *)
LEMMA ProcessStep ==
  ASSUME CacheIInv, NEW p \in Procs, CacheStep(p)
  PROVE  CacheIInv'
<1>1. CASE StartStream(p)
  BY Zenon, <1>1, StartDoes, StepCovered
<1>2. CASE Receive(p)
  BY Zenon, <1>2, ReceiveDoes, StepCovered
<1>3. CASE AskTimeout(p)
  BY Zenon, <1>3, TimeoutDoes, StepCovered
<1>4. CASE PermitOver(p)
  BY Zenon, <1>4, FailDoes, StepCovered DEF PermitOver
<1>5. CASE Disconnect(p)
  BY Zenon, <1>5, FailDoes, StepCovered DEF Disconnect
<1>6. CASE HeartbeatCache(p) \/ BeginCacheGC(p) \/ CompleteCacheGC(p)
  BY Zenon, <1>6, AskDoes, StepCovered DEF HeartbeatCache, BeginCacheGC, CompleteCacheGC, Asked
<1>7. CASE RunInstance(p) \/ StopInstance(p) \/ Prune(p) \/ Pruned(p) \/ CleanupDue(p)
  BY Zenon, <1>7, InstanceDoes, StepCovered
<1>8. CASE ReleaseCache(p) \/ Crash(p)
  BY Zenon, <1>8, EndDoes, StepCovered
<1>9. CASE CacheControl(p)
  BY Zenon, <1>9, ControlDoes, StepCovered
<1>10. CASE LateRequest(p)
  BY Zenon, <1>10, LateDoes, StepCovered
<1>11. CASE SendConfig(p)
  BY Zenon, <1>11, ConfigDoes, StepCovered
<1> QED
  BY Zenon, <1>1, <1>2, <1>3, <1>4, <1>5, <1>6, <1>7, <1>8, <1>9, <1>10, <1>11 DEF CacheStep

(***************************************************************************)
(* The administrator and time.                                             *)
(***************************************************************************)

(* A new revision undoes a validated deletion, and a deletion goes through  *)
(* only at the revision it was validated for.                               *)
LEMMA CacheAdminStep ==
  ASSUME CacheIInv, CreateCache \/ Configure \/ validateResourceDeletion \/ DeleteComponent
  PROVE  CacheIInv'
<1>1. CacheType
  BY Zenon DEF CacheIInv
<1>2. cache.revision + 1 \in Nat
  BY <1>1 DEF CacheType
<1>3. UNCHANGED <<owner, grant, conn, late, permit, inst>>
  BY Zenon DEF CreateCache, Configure, validateResourceDeletion, DeleteComponent
<1>4. /\ cache' \in [revision : Nat, enabled : BOOLEAN, exists : BOOLEAN]
      /\ deletion' \in Int /\ DeletionSafe'
  <2>1. CASE CreateCache
    BY <1>1, <2>1 DEF CreateCache, CacheType, CacheIInv, DeletionSafe
  <2>2. CASE Configure
    <3>1. PICK on \in BOOLEAN : cache' = [cache EXCEPT !.revision = cache.revision + 1, !.enabled = on]
      BY Zenon, <2>2 DEF Configure
    <3>2. cache' \in [revision : Nat, enabled : BOOLEAN, exists : BOOLEAN]
      BY <1>1, <1>2, <3>1, Zenon DEF CacheType
    <3>3. cache'.revision = cache.revision + 1 /\ cache.revision \in Nat
      BY Zenon, <1>1, <3>1 DEF CacheType
    <3>4. cache.exists /\ cache'.exists
      BY Zenon, <1>1, <2>2, <3>1 DEF CacheType, Configure
    <3>5. deletion' = deletion /\ deletion \in Int
      BY Zenon, <1>1, <2>2 DEF CacheType, Configure
    <3>6. DeletionSafe'
      BY SMTT(60), <3>3, <3>4, <3>5 DEF CacheIInv, DeletionSafe
    <3> QED
      BY Zenon, <3>2, <3>5, <3>6
  <2>3. CASE validateResourceDeletion
    BY <1>1, <2>3 DEF validateResourceDeletion, Deletable, CacheType, CacheIInv, DeletionSafe
  <2>4. CASE DeleteComponent
    <3>1. cache' = [cache EXCEPT !.exists = FALSE, !.revision = cache.revision + 1]
      BY Zenon, <2>4 DEF DeleteComponent
    <3>2. cache' \in [revision : Nat, enabled : BOOLEAN, exists : BOOLEAN]
      BY <1>1, <1>2, <3>1, Zenon DEF CacheType
    <3>3. cache'.revision = cache.revision + 1 /\ cache.revision \in Nat
      BY Zenon, <1>1, <3>1 DEF CacheType
    <3>4. owner' = owner /\ owner.left = 0
      BY Zenon, <2>4 DEF DeleteComponent, CacheIInv, DeletionSafe
    <3>5. deletion' = deletion /\ deletion \in Int
      BY Zenon, <1>1, <2>4 DEF CacheType, DeleteComponent
    <3>6. DeletionSafe'
      BY <3>3, <3>4, <3>5 DEF CacheIInv, DeletionSafe
    <3> QED
      BY Zenon, <3>2, <3>5, <3>6
  <2> QED
    BY ZenonT(60), <2>1, <2>2, <2>3, <2>4
<1>5. CacheType'
  BY Zenon, <1>1, <1>3, <1>4 DEF CacheType
<1>6. AnswersCovered' /\ PermitsCovered' /\ TimersCovered'
  BY Zenon, <1>3 DEF CacheIInv, AnswersCovered, PermitsCovered, TimersCovered, Running
<1> QED
  BY Zenon, <1>4, <1>5, <1>6 DEF CacheIInv

(* Time takes as much off the Lease as off the permits and the timers, and  *)
(* adds as much to the age of an answer.                                    *)
LEMMA CacheTickStep ==
  ASSUME CacheIInv, CacheTick
  PROVE  CacheIInv'
<1>1. CacheType
  BY Zenon DEF CacheIInv
<1>2. /\ UNCHANGED <<cache, deletion, late>>
      /\ owner' = [owner EXCEPT !.left = Less(owner.left)]
      /\ grant' = [grant EXCEPT !.left = Less(grant.left)]
      /\ \A q \in Procs : permit'[q] = Less(permit[q])
      /\ \A q \in Procs : inst'[q] = Elapsed(inst[q])
  BY Zenon, <1>1 DEF CacheTick, CacheType
<1>3. /\ owner' \in Leases /\ owner'.left = Less(owner.left) /\ owner'.holder = owner.holder
      /\ owner.left \in 0 .. OwnerTTL
  BY <1>1, <1>2, CacheOwnerConstants DEF CacheType, Leases, Less
<1>4. grant' \in Grants
  BY <1>1, <1>2 DEF CacheType, Grants, Less
<1>5. permit' \in [Procs -> Nat]
  BY SMTT(60), <1>1 DEF CacheTick, CacheType, Less
<1>6. ASSUME NEW q \in Procs
      PROVE  /\ Elapsed(inst[q]) \in Instances
             /\ Elapsed(inst[q]).state = "running"
                  => /\ inst[q].state = "running"
                     /\ Elapsed(inst[q]).timer > 0 /\ Elapsed(inst[q]).timer = inst[q].timer - 1
  <2>1. inst[q] \in Instances
    BY Zenon, <1>1 DEF CacheType
  <2>2. CASE inst[q].state = "running" /\ inst[q].timer <= 1
    <3>1. Elapsed(inst[q]) = Stopped([inst[q] EXCEPT !.timer = 0])
      BY <2>1, <2>2 DEF Elapsed, Instances
    <3>2. [inst[q] EXCEPT !.timer = 0] \in Instances
      BY Zenon, <2>1 DEF Instances
    <3> QED
      BY Zenon, <3>1, <3>2 DEF Stopped, Instances
  <2>3. CASE inst[q].state = "running" /\ inst[q].timer > 1
    <3> DEFINE g == IF inst[q].gc \in {"drain", "drained", "prune"} /\ grant.left <= GCMargin + 1
                    THEN "finish" ELSE IF inst[q].gc = "drain" THEN "drained" ELSE inst[q].gc
    <3>1. Elapsed(inst[q]) = [inst[q] EXCEPT !.timer = inst[q].timer - 1, !.gc = g]
      BY <2>1, <2>3 DEF Elapsed, Instances
    <3>2. g \in {"due", "drain", "drained", "prune", "finish", "rest"}
      BY Zenon, <2>1 DEF Instances
    <3> DEFINE n == inst[q].timer - 1
    <3>3. n \in Nat /\ n > 0
      BY <2>1, <2>3 DEF Instances
    <3>4. n = inst[q].timer - 1
      OBVIOUS
    <3>5. Elapsed(inst[q]) = [inst[q] EXCEPT !.timer = n, !.gc = g]
      BY Zenon, <3>1
    <3> HIDE DEF g, n
    <3>6. [inst[q] EXCEPT !.timer = n] \in Instances
      BY Zenon, <2>1, <3>3 DEF Instances
    <3>7. Elapsed(inst[q]) \in Instances /\ Elapsed(inst[q]).timer = n
      BY Zenon, <2>1, <3>2, <3>3, <3>5, <3>6 DEF Instances
    <3> QED
      BY Zenon, <2>3, <3>3, <3>4, <3>7
  <2>4. CASE inst[q].state # "running"
    BY Zenon, <2>1, <2>4 DEF Elapsed
  <2> QED
    BY <2>1, <2>2, <2>3, <2>4 DEF Instances
<1>7. inst' \in [Procs -> Instances]
  BY Zenon, <1>6 DEF CacheTick
<1>8. ASSUME NEW q \in Procs
      PROVE  /\ conn'[q] \in Streams
             /\ conn'[q].ask \in Answers
                  => conn[q].ask \in Answers /\ conn'[q].age = conn[q].age + 1
  <2>1. conn[q] \in Streams /\ NoStream \in Streams /\ NoStream.ask = "none"
    BY Zenon, <1>1, StreamFacts
  <2>2. CASE ~Idle(q)
    <3>1. conn'[q] = [conn[q] EXCEPT !.age = conn[q].age + 1]
      BY Zenon, <2>2 DEF CacheTick
    <3> QED
      BY <2>1, <3>1 DEF Streams
  <2>3. CASE Idle(q)
    <3>1. conn'[q] = conn[q] \/ conn'[q] = NoStream
      BY Zenon, <2>3 DEF CacheTick
    <3> QED
      BY Zenon, <2>1, <2>3, <3>1 DEF Idle, Answers
  <2> QED
    BY Zenon, <2>2, <2>3
<1>9. conn' \in [Procs -> Streams]
  BY Zenon, <1>8 DEF CacheTick
<1>10. CacheType'
  BY ZenonT(60), <1>1, <1>2, <1>3, <1>4, <1>5, <1>7, <1>9 DEF CacheType
<1>11. AnswersCovered'
  <2> SUFFICES ASSUME NEW q \in Procs, conn'[q].ask \in Answers, conn'[q].age < OwnerTTL
               PROVE  owner'.holder[1] = q /\ owner'.left + conn'[q].age >= OwnerTTL
      BY Zenon DEF AnswersCovered
  <2>1. conn[q].age \in Nat /\ OwnerTTL \in Nat
    BY Zenon, <1>1, CacheOwnerConstants DEF CacheType, Streams
  <2>2. conn[q].age < OwnerTTL /\ conn[q].ask \in Answers /\ conn'[q].age = conn[q].age + 1
    BY <1>8, <2>1
  <2>3. owner.holder[1] = q /\ owner.left + conn[q].age >= OwnerTTL
    BY Zenon, <2>2 DEF CacheIInv, AnswersCovered
  <2> QED
    BY <1>3, <2>1, <2>2, <2>3 DEF Less
<1>12. PermitsCovered'
  <2> SUFFICES ASSUME NEW q \in Procs, permit'[q] > 0
               PROVE  owner'.holder[1] = q /\ owner'.left >= permit'[q] + PermitMargin
      BY Zenon DEF PermitsCovered
  <2>1. permit[q] \in Nat /\ permit'[q] = Less(permit[q]) /\ PermitMargin \in Nat
    BY <1>1, <1>2, CacheOwnerConstants DEF CacheType
  <2>2. permit[q] > 0
    BY <2>1 DEF Less
  <2>3. owner.holder[1] = q /\ owner.left >= permit[q] + PermitMargin
    BY Zenon, <2>2 DEF CacheIInv, PermitsCovered
  <2> QED
    BY <1>3, <2>1, <2>2, <2>3 DEF Less
<1>13. TimersCovered'
  <2> SUFFICES ASSUME NEW q \in Procs, inst'[q].state = "running"
               PROVE  inst'[q].timer > 0 /\ inst'[q].timer <= permit'[q]
      BY Zenon DEF TimersCovered, Running
  <2>1. /\ inst[q].state = "running"
        /\ inst'[q].timer > 0 /\ inst'[q].timer = inst[q].timer - 1
    BY Zenon, <1>2, <1>6
  <2>2. inst[q].timer > 0 /\ inst[q].timer <= permit[q]
    BY Zenon, <2>1 DEF CacheIInv, TimersCovered, Running
  <2>3. permit[q] \in Nat /\ permit'[q] = Less(permit[q]) /\ inst[q].timer \in Nat
    BY Zenon, <1>1, <1>2 DEF CacheType, Instances
  <2> QED
    BY <2>1, <2>2, <2>3 DEF Less
<1>14. DeletionSafe'
  BY <1>2, <1>3 DEF CacheIInv, DeletionSafe, Less
<1> QED
  BY Zenon, <1>10, <1>11, <1>12, <1>13, <1>14 DEF CacheIInv

(***************************************************************************)
(* The theorems.                                                           *)
(***************************************************************************)

(* The whole chain, from an instance's timer to the Lease, holds in every   *)
(* reachable state of the control protocol.                                 *)
THEOREM LeaseCovers == CacheSpec => []CacheIInv
<1>1. CacheIInv /\ [CacheNext]_cacheVars => CacheIInv'
  <2> SUFFICES ASSUME CacheIInv, [CacheNext]_cacheVars PROVE CacheIInv'
      OBVIOUS
  <2>1. CASE \E p \in Procs : CacheStep(p)
    BY Zenon, <2>1, ProcessStep
  <2>2. CASE CreateCache \/ Configure \/ validateResourceDeletion \/ DeleteComponent
    BY Zenon, <2>2, CacheAdminStep
  <2>3. CASE CacheTick
    BY Zenon, <2>3, CacheTickStep
  <2>4. CASE UNCHANGED cacheVars
    BY Zenon, <2>4
    DEF cacheVars, CacheIInv, CacheType, AnswersCovered, PermitsCovered, TimersCovered, DeletionSafe,
        Running
  <2> QED
    BY Zenon, <2>1, <2>2, <2>3, <2>4 DEF CacheNext
<1> QED
  BY <1>1, CacheInitIInv, PTL DEF CacheSpec

(* A cache's storage has at most one writer, and none once the component is *)
(* deleted, for any number of processes and disturbances and all durations: *)
(* runCacheInstance stops when the permit ends, before claimCache can admit *)
(* another and validateResourceDeletion can let the component go.           *)
THEOREM SingleWriter == CacheSpec => []OneCacheWriter
BY LeaseCovers, CoveredIsSingle, PTL

-----------------------------------------------------------------------------
(***************************************************************************)
(* The registry cache: RegistryIInv.                                       *)
(*                                                                         *)
(* A cleanup of the registry loses no layer a manifest names, and no       *)
(* request is admitted on an expired credential, for any users, images,    *)
(* capacities and lifetimes.                                               *)
(*                                                                         *)
(* Layers: from the moment the maintenance lock is held no request is      *)
(* served, so what was marked is still all that is referenced when it is   *)
(* swept, and the layers a manifest was verified against are still there   *)
(* when it is linked. Credentials: a cached verification never outlives    *)
(* the credential it is of.                                                *)
(***************************************************************************)
(* Nothing is assumed of what a layer, an image or a repository is.         *)
Manifest(m) == DOMAIN m = {"layers", "age"}
Request(r) == DOMAIN r = {"op", "layers", "valid"}
Cleanup(m) == DOMAIN m = {"lock", "todo", "marked"}

RegistryType ==
  /\ DOMAIN manifests = Users /\ manifests = [u \in Users |-> manifests[u]]
  /\ DOMAIN req = Users /\ req = [u \in Users |-> req[u]]
  /\ \A u \in Users : Manifest(manifests[u]) /\ Request(req[u])
  /\ Cleanup(maint)
  /\ token \in [Expiring -> Nat]
  /\ session \in [Expiring -> Nat]

(* A cleanup that has the lock has it alone.                                *)
Exclusive == maint.lock \in {"locked", "marked"} => \A u \in Users : req[u] = NoRequest

(* A manifest being linked was verified against what is still stored.       *)
Verified == \A u \in Users : req[u].op = "link" => req[u].layers \subseteq stored

(* Until the sweep, everything referenced is marked.                        *)
MarkedAll == maint.lock = "marked" => Referenced \subseteq maint.marked

(* A cached verification ends no later than its credential.                 *)
CacheEnds == \A u \in Expiring : session[u] <= token[u]

RegistryIInv ==
  /\ RegistryType /\ Exclusive /\ Verified /\ MarkedAll /\ CacheEnds
  /\ LayersKept /\ ServedOnLiveToken

(* An empty registry without requests.                                      *)
LEMMA RegistryInitIInv == RegistryInit => RegistryIInv
<1> SUFFICES ASSUME RegistryInit PROVE RegistryIInv
    OBVIOUS
<1>1. RegistryType
  BY Zenon, RegistryConstants DEF RegistryInit, RegistryType, Manifest, Request, Cleanup, NoManifest,
         NoRequest, Free
<1>2. Exclusive /\ Verified /\ MarkedAll /\ ServedOnLiveToken
  BY Zenon DEF RegistryInit, Exclusive, Verified, MarkedAll, ServedOnLiveToken, NoRequest, Free
<1>3. CacheEnds
  BY RegistryConstants DEF RegistryInit, CacheEnds
<1>4. LayersKept
  BY Zenon DEF RegistryInit, LayersKept, Referenced, NoManifest
<1> QED
  BY Zenon, <1>1, <1>2, <1>3, <1>4 DEF RegistryIInv

(* verifyToken admits a user whose credential is alive, and caches that no  *)
(* longer than it stays so.                                                 *)
LEMMA VerifiedAlive ==
  ASSUME RegistryType, CacheEnds, NEW u \in Users, verifyToken(u), UNCHANGED token
  PROVE  /\ u \in Expiring => token[u] > 0
         /\ session' \in [Expiring -> Nat] /\ CacheEnds'
<1>1. CASE UNCHANGED session /\ u \notin Expiring
  BY Zenon, <1>1 DEF RegistryType, CacheEnds
<1>2. CASE UNCHANGED session /\ u \in Expiring /\ session[u] > 0
  BY <1>2 DEF RegistryType, CacheEnds
<1>3. CASE u \in Expiring /\ token[u] > 0 /\ session' = [session EXCEPT ![u] = Cached(u)]
  <2>1. Cached(u) \in Nat /\ Cached(u) <= token[u]
    BY <1>3, RegistryConstants DEF RegistryType, Cached, Least
  <2> QED
    BY Zenon, <1>3, <2>1 DEF RegistryType, CacheEnds
<1> QED
  BY Zenon, <1>1, <1>2, <1>3 DEF verifyToken

(* A request is admitted only while no cleanup holds or awaits the lock.    *)
LEMMA ServeStep ==
  ASSUME RegistryIInv, NEW u \in Users, NEW op \in {"upload", "put", "pull"}, NEW layers, Serve(u, op, layers)
  PROVE  RegistryIInv'
<1> DEFINE r == [op |-> op, layers |-> layers, valid |-> u \in Expiring => token[u] > 0]
<1>1. /\ req' = [req EXCEPT ![u] = r] /\ verifyToken(u) /\ maint.lock = "free"
      /\ UNCHANGED <<manifests, stored, sent, maint, token>>
  BY Zenon DEF Serve, Admitted
<1>2. (u \in Expiring => token[u] > 0) /\ session' \in [Expiring -> Nat] /\ CacheEnds'
  BY Zenon, <1>1, VerifiedAlive DEF RegistryIInv
<1>3. r.op # "link" /\ r.valid /\ Request(r)
  BY Zenon, <1>2 DEF Request
<1> HIDE DEF r
<1>4. /\ req'[u] = r /\ \A v \in Users : v # u => req'[v] = req[v]
      /\ DOMAIN req' = Users /\ req' = [v \in Users |-> req'[v]]
  BY Zenon, <1>1 DEF RegistryIInv, RegistryType
<1>5. RegistryType'
  BY Zenon, <1>1, <1>2, <1>3, <1>4 DEF RegistryIInv, RegistryType
<1>6. Exclusive' /\ MarkedAll'
  BY Zenon, <1>1 DEF Exclusive, MarkedAll
<1>7. Verified' /\ ServedOnLiveToken'
  BY Zenon, <1>1, <1>3, <1>4 DEF RegistryIInv, Verified, ServedOnLiveToken
<1>8. LayersKept'
  BY Zenon, <1>1 DEF RegistryIInv, LayersKept, Referenced
<1> QED
  BY Zenon, <1>2, <1>5, <1>6, <1>7, <1>8 DEF RegistryIInv

(* What a finished request leaves behind.                                   *)
LEMMA DoneFacts ==
  ASSUME RegistryType, NEW u \in Users, Done(u)
  PROVE  /\ req'[u] = NoRequest /\ \A v \in Users : v # u => req'[v] = req[v]
         /\ DOMAIN req' = Users /\ req' = [v \in Users |-> req'[v]]
         /\ NoRequest.op = "none" /\ NoRequest.valid /\ Request(NoRequest)
<1>1. NoRequest.op = "none" /\ NoRequest.valid /\ Request(NoRequest)
  BY Zenon DEF NoRequest, Request
<1> QED
  BY Zenon, <1>1 DEF RegistryType, Done

(* A finished push or pull: an upload adds layers, a manifest is linked     *)
(* only with the layers it was verified against.                            *)
LEMMA FinishStep ==
  ASSUME RegistryIInv, NEW u \in Users,
         FinishUpload(u) \/ VerifyManifest(u) \/ LinkManifest(u) \/ FinishPull(u)
  PROVE  RegistryIInv'
<1>1. /\ req[u].op # "none" /\ maint.lock \notin {"locked", "marked"}
      /\ UNCHANGED <<maint, token, session>>
  <2>1. NoRequest.op = "none"
    BY Zenon DEF NoRequest
  <2> QED
    BY Zenon, <2>1 DEF RegistryIInv, Exclusive, FinishUpload, VerifyManifest, LinkManifest, FinishPull
<1>2. Exclusive' /\ MarkedAll' /\ CacheEnds'
  BY Zenon, <1>1 DEF RegistryIInv, Exclusive, MarkedAll, CacheEnds
<1>3. /\ DOMAIN req' = Users /\ req' = [v \in Users |-> req'[v]]
      /\ \A v \in Users : v # u => req'[v] = req[v]
      /\ req'[u].valid /\ Request(req'[u])
      /\ \/ req'[u].op = "none"
         \/ req'[u].op = "link" /\ req'[u].layers \subseteq stored /\ UNCHANGED <<manifests, stored>>
  <2>1. CASE Done(u)
    BY Zenon, <2>1, DoneFacts DEF RegistryIInv
  <2>2. CASE req' = [req EXCEPT ![u].op = "link"] /\ req[u].layers \subseteq stored
             /\ UNCHANGED <<manifests, stored>>
    <3> DEFINE r == [req[u] EXCEPT !.op = "link"]
    <3>1. Request(req[u]) /\ req[u].valid
      BY Zenon DEF RegistryIInv, RegistryType, ServedOnLiveToken
    <3>2. Request(r) /\ r.op = "link" /\ r.valid /\ r.layers = req[u].layers
      BY Zenon, <3>1 DEF Request
    <3>3. req' = [req EXCEPT ![u] = r]
      BY Zenon, <2>2
    <3> HIDE DEF r
    <3> QED
      BY Zenon, <2>2, <3>2, <3>3 DEF RegistryIInv, RegistryType
  <2> QED
    BY Zenon, <2>1, <2>2 DEF FinishUpload, VerifyManifest, LinkManifest, FinishPull
<1>4. /\ stored \subseteq stored'
      /\ manifests' = manifests
           \/ /\ manifests' = [manifests EXCEPT ![u] = [layers |-> req[u].layers, age |-> 0]]
              /\ req[u].op = "link"
  BY Zenon DEF FinishUpload, VerifyManifest, LinkManifest, FinishPull
<1>5. RegistryType'
  BY Zenon, <1>1, <1>3, <1>4 DEF RegistryIInv, RegistryType, Manifest
<1>6. Verified' /\ ServedOnLiveToken'
  BY Zenon, <1>3, <1>4 DEF RegistryIInv, Verified, ServedOnLiveToken
<1>7. LayersKept'
  <2>1. CASE manifests' = manifests
    BY Zenon, <1>4, <2>1 DEF RegistryIInv, LayersKept, Referenced
  <2>2. CASE /\ manifests' = [manifests EXCEPT ![u] = [layers |-> req[u].layers, age |-> 0]]
             /\ req[u].op = "link"
    <3>1. req[u].layers \subseteq stored
      BY Zenon, <2>2 DEF RegistryIInv, Verified
    <3>2. \A v \in Users : manifests[v].layers \subseteq stored
      BY Zenon DEF RegistryIInv, LayersKept, Referenced
    <3>3. \A v \in Users : manifests'[v].layers \subseteq stored
      BY Zenon, <2>2, <3>1, <3>2 DEF RegistryIInv, RegistryType
    <3> QED
      BY Zenon, <1>4, <3>3 DEF LayersKept, Referenced
  <2> QED
    BY Zenon, <1>4, <2>1, <2>2
<1> QED
  BY Zenon, <1>2, <1>5, <1>6, <1>7 DEF RegistryIInv

(* The cleanup up to its marks: the lock is taken when every request is     *)
(* done, and no manifest appears after that.                                *)
LEMMA CleanupStep ==
  ASSUME RegistryIInv,
         LockMaintenance \/ NothingStored \/ Enumerate \/ Keep \/ Mark \/ AbortPrune
  PROVE  RegistryIInv'
<1>1. UNCHANGED <<manifests, stored, req, sent, token, session>>
  BY Zenon DEF LockMaintenance, NothingStored, Enumerate, Keep, Mark, AbortPrune
<1>2. Verified' /\ CacheEnds' /\ LayersKept' /\ ServedOnLiveToken'
  BY Zenon, <1>1 DEF RegistryIInv, Verified, CacheEnds, LayersKept, Referenced, ServedOnLiveToken
<1>3. Exclusive' /\ MarkedAll' /\ Cleanup(maint')
  <2>1. CASE LockMaintenance \/ NothingStored \/ AbortPrune
    <3>1. maint'.lock \notin {"locked", "marked"} /\ Cleanup(maint')
      BY <2>1 DEF RegistryIInv, RegistryType, Cleanup, LockMaintenance, NothingStored, AbortPrune, Free
    <3> QED
      BY Zenon, <3>1 DEF Exclusive, MarkedAll
  <2>2. CASE Enumerate
    <3>1. PICK todo : maint' = [lock |-> "locked", todo |-> todo, marked |-> {}]
      BY Zenon, <2>2 DEF Enumerate
    <3>2. maint'.lock = "locked" /\ Cleanup(maint')
      BY <3>1 DEF Cleanup
    <3>3. \A u \in Users : req'[u] = NoRequest
      BY Zenon, <1>1, <2>2 DEF Enumerate, Acquired
    <3> QED
      BY <3>2, <3>3 DEF Exclusive, MarkedAll
  <2>3. CASE Keep
    <3>1. maint'.lock = "locked" /\ maint.lock = "locked" /\ Cleanup(maint')
      BY Zenon, <2>3 DEF RegistryIInv, RegistryType, Cleanup, Keep
    <3> QED
      BY Zenon, <1>1, <3>1 DEF RegistryIInv, Exclusive, MarkedAll
  <2>4. CASE Mark
    <3>1. maint.lock = "locked" /\ maint'.marked = Referenced /\ Cleanup(maint')
      BY Zenon, <2>4 DEF RegistryIInv, RegistryType, Cleanup, Mark
    <3> QED
      BY Zenon, <1>1, <3>1 DEF RegistryIInv, Exclusive, MarkedAll, Referenced
  <2> QED
    BY Zenon, <2>1, <2>2, <2>3, <2>4
<1>4. RegistryType'
  BY Zenon, <1>1, <1>3 DEF RegistryIInv, RegistryType
<1> QED
  BY Zenon, <1>2, <1>3, <1>4 DEF RegistryIInv

(* deleteCacheRepository marks what the repositories left refer to.         *)
LEMMA DeleteStep ==
  ASSUME RegistryIInv, deleteCacheRepository
  PROVE  RegistryIInv'
<1> DEFINE name == Head(maint.todo)
<1>1. /\ manifests' = [manifests EXCEPT ![name] = NoManifest]
      /\ maint' = [lock |-> "marked", todo |-> Tail(maint.todo), marked |-> Referenced']
      /\ maint.lock = "locked"
      /\ UNCHANGED <<stored, req, sent, token, session>>
  BY Zenon DEF deleteCacheRepository, Referenced
<1> HIDE DEF name
<1>2. RegistryType' /\ \A u \in Users : manifests'[u] = manifests[u] \/ manifests'[u] = NoManifest
  <2>1. Manifest(NoManifest)
    BY Zenon DEF Manifest, NoManifest
  <2>2. Cleanup(maint')
    BY Zenon, <1>1 DEF Cleanup
  <2> QED
    BY Zenon, <1>1, <2>1, <2>2 DEF RegistryIInv, RegistryType
<1>3. Exclusive' /\ MarkedAll'
  BY Zenon, <1>1 DEF RegistryIInv, Exclusive, MarkedAll
<1>4. Verified' /\ CacheEnds' /\ ServedOnLiveToken'
  BY Zenon, <1>1 DEF RegistryIInv, Verified, CacheEnds, ServedOnLiveToken
<1>5. LayersKept'
  <2>1. \A v \in Users : manifests[v].layers \subseteq stored
    BY Zenon DEF RegistryIInv, LayersKept, Referenced
  <2>2. \A v \in Users : manifests'[v].layers \subseteq stored
    BY <1>2, <2>1 DEF NoManifest
  <2> QED
    BY Zenon, <1>1, <2>2 DEF LayersKept, Referenced
<1> QED
  BY Zenon, <1>2, <1>3, <1>4, <1>5 DEF RegistryIInv

(* The sweep removes only what was not marked, hence nothing referenced.    *)
LEMMA SweepStep ==
  ASSUME RegistryIInv, Sweep
  PROVE  RegistryIInv'
<1>1. /\ maint.lock = "marked" /\ stored' = stored \cap maint.marked
      /\ UNCHANGED <<manifests, req, sent, token, session>>
  BY Zenon DEF Sweep, Swept
<1>2. maint'.lock # "marked" /\ Cleanup(maint')
  BY Zenon DEF Sweep, RegistryIInv, RegistryType, Cleanup, Free
<1>3. RegistryType'
  BY Zenon, <1>1, <1>2 DEF RegistryIInv, RegistryType
<1>4. \A u \in Users : req'[u] = NoRequest /\ NoRequest.op = "none"
  BY Zenon, <1>1 DEF RegistryIInv, Exclusive, NoRequest
<1>5. Exclusive' /\ MarkedAll' /\ Verified'
  BY Zenon, <1>2, <1>4 DEF Exclusive, MarkedAll, Verified
<1>6. CacheEnds' /\ ServedOnLiveToken'
  BY Zenon, <1>1 DEF RegistryIInv, CacheEnds, ServedOnLiveToken
<1>7. LayersKept'
  BY Zenon, <1>1 DEF RegistryIInv, LayersKept, MarkedAll, Referenced
<1> QED
  BY Zenon, <1>3, <1>5, <1>6, <1>7 DEF RegistryIInv

(* Time ages a credential and the verification cached for it alike; a new   *)
(* credential starts with none.                                             *)
LEMMA TimeStep ==
  ASSUME RegistryIInv, RegistryTick \/ \E u \in Users : SignCredential(u)
  PROVE  RegistryIInv'
<1>1. /\ UNCHANGED <<stored, req, sent, maint>>
      /\ DOMAIN manifests' = Users /\ manifests' = [u \in Users |-> manifests'[u]]
      /\ \A u \in Users : manifests'[u].layers = manifests[u].layers /\ Manifest(manifests'[u])
  <2>1. CASE RegistryTick
    <3>1. ASSUME NEW u \in Users
          PROVE  manifests'[u].layers = manifests[u].layers /\ Manifest(manifests'[u])
      <4>1. CASE manifests[u] = NoManifest
        BY Zenon, <2>1, <4>1 DEF RegistryTick, NoManifest, Manifest
      <4>2. CASE manifests[u] # NoManifest
        <5>1. manifests'[u] = [manifests[u] EXCEPT !.age = Least(manifests[u].age + 1, MaxAge + 1)]
          BY Zenon, <2>1, <4>2 DEF RegistryTick
        <5>2. Manifest(manifests[u])
          BY Zenon DEF RegistryIInv, RegistryType
        <5> QED
          BY Zenon, <5>1, <5>2 DEF Manifest
      <4> QED
        BY Zenon, <4>1, <4>2
    <3> QED
      BY Zenon, <2>1, <3>1 DEF RegistryTick
  <2>2. CASE \E u \in Users : SignCredential(u)
    BY Zenon, <2>2 DEF SignCredential, RegistryIInv, RegistryType
  <2> QED
    BY Zenon, <2>1, <2>2
<1>2. token' \in [Expiring -> Nat] /\ session' \in [Expiring -> Nat] /\ CacheEnds'
  <2>1. CASE RegistryTick
    BY <2>1 DEF RegistryTick, RegistryIInv, RegistryType, CacheEnds
  <2>2. CASE \E u \in Users : SignCredential(u)
    BY <2>2, RegistryConstants DEF SignCredential, RegistryIInv, RegistryType, CacheEnds
  <2> QED
    BY Zenon, <2>1, <2>2
<1>3. RegistryType'
  BY Zenon, <1>1, <1>2 DEF RegistryIInv, RegistryType
<1>4. Exclusive' /\ Verified' /\ ServedOnLiveToken'
  BY Zenon, <1>1 DEF RegistryIInv, Exclusive, Verified, ServedOnLiveToken
<1>5. Referenced' = Referenced
  BY <1>1 DEF Referenced
<1>6. MarkedAll' /\ LayersKept'
  BY Zenon, <1>1, <1>5 DEF RegistryIInv, MarkedAll, LayersKept
<1> QED
  BY Zenon, <1>2, <1>3, <1>4, <1>6 DEF RegistryIInv

(* In every reachable state the lock is exclusive, marks are complete and   *)
(* cached verifications end with their credentials.                         *)
THEOREM CleanupIsExclusive == RegistrySpec => []RegistryIInv
<1>1. RegistryIInv /\ [RegistryNext]_registryVars => RegistryIInv'
  <2> SUFFICES ASSUME RegistryIInv, [RegistryNext]_registryVars PROVE RegistryIInv'
      OBVIOUS
  <2>1. ASSUME NEW u \in Users, Upload(u) \/ PutManifest(u) \/ Pull(u)
        PROVE  RegistryIInv'
    BY Zenon, <2>1, ServeStep DEF Upload, PutManifest, Pull
  <2>2. ASSUME NEW u \in Users,
               FinishUpload(u) \/ VerifyManifest(u) \/ LinkManifest(u) \/ FinishPull(u)
        PROVE  RegistryIInv'
    BY Zenon, <2>2, FinishStep
  <2>3. CASE LockMaintenance \/ NothingStored \/ Enumerate \/ Keep \/ Mark \/ AbortPrune
    BY Zenon, <2>3, CleanupStep
  <2>4. CASE deleteCacheRepository
    BY Zenon, <2>4, DeleteStep
  <2>5. CASE Sweep
    BY Zenon, <2>5, SweepStep
  <2>6. CASE RegistryTick \/ \E u \in Users : SignCredential(u)
    BY Zenon, <2>6, TimeStep
  <2>7. CASE UNCHANGED registryVars
    BY <2>7
    DEF registryVars, RegistryIInv, RegistryType, Exclusive, Verified, MarkedAll, CacheEnds, LayersKept,
        Referenced, ServedOnLiveToken
  <2> QED
    BY Zenon, <2>1, <2>2, <2>3, <2>4, <2>5, <2>6, <2>7 DEF RegistryNext
<1> QED
  BY <1>1, RegistryInitIInv, PTL DEF RegistrySpec

(* Every manifest finds all its layers in storage, however prune and the    *)
(* pushes of any number of users overlap.                                   *)
THEOREM NoLayerLost == RegistrySpec => []LayersKept
<1>1. RegistryIInv => LayersKept
  BY Zenon DEF RegistryIInv
<1> QED
  BY <1>1, CleanupIsExclusive, PTL

(* No request is admitted on an expired credential (verifyToken), for any   *)
(* lifetimes of credentials and of cached verifications.                    *)
THEOREM TokensAlive == RegistrySpec => []ServedOnLiveToken
<1>1. RegistryIInv => ServedOnLiveToken
  BY Zenon DEF RegistryIInv
<1> QED
  BY <1>1, CleanupIsExclusive, PTL

-----------------------------------------------------------------------------
(***************************************************************************)
(* Sites and their credentials: SiteIInv.                                  *)
(*                                                                         *)
(* Removing a site, and pruning credentials, destroy nothing in use, for   *)
(* any number of edits and faults and any ages with CreateLife < PruneAge. *)
(*                                                                         *)
(* Volumes: the reconciler takes the steps of deleteSite only for a site   *)
(* whose deletion was requested, which happens once; a volume there at     *)
(* that moment is seen by the listing that precedes the namespace's        *)
(* deletion. Credentials: one old enough to prune has no Create on its     *)
(* way, so a site that does not refer to it at the second look never will. *)
(***************************************************************************)
Deleting == {"list", "volumes", "delete", "release"}
Sites == [exists : BOOLEAN, enabled : BOOLEAN, deleting : BOOLEAN, finalizer : BOOLEAN,
          recorded : BOOLEAN, verified : BOOLEAN]

SitePasses == [step : Deleting \cup {"idle", "finalizer", "namespace", "bind", "verified", "unavailable"},
           recorded : BOOLEAN, changed : BOOLEAN]

SiteType ==
  /\ site \in Sites
  /\ cred \in [state : {"none", "pending", "bound", "deleted"}, age : Nat]
  /\ pruning \in [step : {"idle", "listed", "found", "delete"}, used : BOOLEAN]
  /\ ns \in {"none", "live", "terminating"}
  /\ volume \in {"none", "new", "retained"}
  /\ reconciler \in SitePasses

(* A deletion is validated only on a version that is not being deleted; the *)
(* reconciler deletes only what is.                                         *)
DeletionOnce ==
  /\ checked => site.exists /\ ~site.deleting
  /\ site.deleting => site.exists
  /\ reconciler.step \in Deleting \/ ns = "terminating" => ~site.exists \/ site.deleting

(* From the listing that found no volume on, none that was there when the   *)
(* deletion was requested is left.                                          *)
VolumesGone == reconciler.step = "delete" \/ ns = "terminating" => volume # "retained"

(* A site, or the Create of one, came after its credential; a Create still  *)
(* on its way is young; what is about to be pruned is old and unused.       *)
CredentialKept ==
  /\ site.exists \/ creating => cred.state \in {"pending", "bound"}
  /\ creating => cred.age <= CreateLife /\ ~site.exists
  /\ pruning.step \in {"found", "delete"} => cred.age >= PruneAge
  /\ pruning.step = "delete" => ~site.exists

(* A site is registered and created once: until then it has no namespace    *)
(* and nothing to reconcile.                                                *)
CreatedOnce ==
  /\ creating \/ cred.state = "none" => ns = "none" /\ reconciler.step = "idle"
  /\ cred.state = "none" => cred.age = 0

SiteIInv == SiteType /\ DeletionOnce /\ VolumesGone /\ CredentialKept /\ CreatedOnce

(* The invariant gives the property.                                        *)
LEMMA KeptFollows == SiteIInv => InUseKept
BY Zenon DEF SiteIInv, VolumesGone, CredentialKept, InUseKept

(* Before the registration there is nothing to keep.                        *)
LEMMA SiteInitIInv == SiteInit => SiteIInv
BY SiteConstants
DEF SiteInit, SiteIInv, SiteType, SitePasses, Sites, NoSite, AtRest, NotPruning, Deleting,
    DeletionOnce, VolumesGone, CredentialKept, CreatedOnce

(* A write validates no deletion, and keeps one only if nothing changed.    *)
LEMMA WriteFacts ==
  ASSUME NEW s, Write(s)
  PROVE  site' = s /\ (checked' => checked /\ s = site)
BY Zenon DEF Write

(* The registration, the Create and the credential's time.                  *)
LEMMA CreateStep ==
  ASSUME SiteIInv, Register \/ CommitCreate \/ LoseCreate \/ BindCreated \/ SiteTick
  PROVE  SiteIInv'
<1> USE SiteConstants DEF SiteIInv
<1>1. CASE Register
  <2>1. SiteType'
    BY Zenon, <1>1 DEF Register, SiteType
  <2>2. DeletionOnce' /\ VolumesGone'
    BY Zenon, <1>1 DEF Register, DeletionOnce, VolumesGone
  <2>3. CredentialKept' /\ CreatedOnce'
    BY <1>1 DEF Register, SiteType, CredentialKept, CreatedOnce
  <2> QED
    BY Zenon, <2>1, <2>2, <2>3
<1>2. CASE CommitCreate
  <2> DEFINE s == [NoSite EXCEPT !.exists = TRUE, !.enabled = TRUE]
  <2>1. s \in Sites /\ s.exists /\ ~s.deleting
    BY Zenon DEF NoSite, Sites
  <2>2. site' = s /\ (checked' => checked /\ s = site)
    BY Zenon, <1>2, WriteFacts DEF CommitCreate
  <2> HIDE DEF s
  <2>3. /\ creating /\ ~creating'
        /\ UNCHANGED <<cred, pruning, ns, volume, reconciler>>
    BY Zenon, <1>2 DEF CommitCreate
  <2>4. SiteType'
    BY Zenon, <2>1, <2>2, <2>3 DEF SiteType
  <2>5. DeletionOnce' /\ VolumesGone' /\ CreatedOnce'
    BY Zenon, <2>1, <2>2, <2>3 DEF DeletionOnce, VolumesGone, CreatedOnce, CredentialKept, Deleting
  <2>6. CredentialKept'
    BY <2>1, <2>2, <2>3 DEF SiteType, CredentialKept
  <2> QED
    BY Zenon, <2>4, <2>5, <2>6
<1>3. CASE LoseCreate
  <2>1. SiteType'
    BY Zenon, <1>3 DEF LoseCreate, SiteType
  <2>2. DeletionOnce' /\ VolumesGone' /\ CredentialKept' /\ CreatedOnce'
    BY Zenon, <1>3 DEF LoseCreate, DeletionOnce, VolumesGone, CredentialKept, CreatedOnce
  <2> QED
    BY Zenon, <2>1, <2>2
<1>4. CASE BindCreated
  <2>1. SiteType'
    BY Zenon, <1>4 DEF BindCreated, bindSiteCredential, SiteType
  <2>2. DeletionOnce' /\ VolumesGone'
    BY Zenon, <1>4 DEF BindCreated, DeletionOnce, VolumesGone
  <2>3. CredentialKept' /\ CreatedOnce'
    BY Zenon, <1>4 DEF BindCreated, bindSiteCredential, SiteType, CredentialKept, CreatedOnce
  <2> QED
    BY Zenon, <2>1, <2>2, <2>3
<1>5. CASE SiteTick
  <2>1. SiteType'
    BY <1>5 DEF SiteTick, SiteType
  <2>2. DeletionOnce' /\ VolumesGone'
    BY Zenon, <1>5 DEF SiteTick, DeletionOnce, VolumesGone
  <2>3. CredentialKept' /\ CreatedOnce'
    BY <1>5 DEF SiteTick, SiteType, CredentialKept, CreatedOnce
  <2> QED
    BY Zenon, <2>1, <2>2, <2>3
<1> QED
  BY Zenon, <1>1, <1>2, <1>3, <1>4, <1>5

(* A write of the spec tells the pass under way, and changes nothing else   *)
(* of it.                                                                   *)
LEMMA ChangedFacts ==
  ASSUME SiteType, reconciler' = [reconciler EXCEPT !.changed = reconciler.step # "idle"]
  PROVE  reconciler' \in SitePasses /\ reconciler'.step = reconciler.step
<1>1. reconciler \in SitePasses
  BY Zenon DEF SiteType
<1> QED
  BY Zenon, <1>1 DEF SitePasses

(* The administrator's edits and deletion of the site.                      *)
LEMMA SiteAdminStep ==
  ASSUME SiteIInv, EditSite \/ validateSiteDeletion \/ RequestDeletion
  PROVE  SiteIInv'
<1> USE DEF SiteIInv
<1>1. CASE EditSite
  <2> DEFINE s == [[site EXCEPT !.enabled = ~site.enabled] EXCEPT !.verified = FALSE]
  <2>1. s \in Sites /\ s.exists = site.exists /\ s.deleting = site.deleting
    BY Zenon DEF SiteType, Sites
  <2>2. site' = s /\ (checked' => checked /\ s = site)
    BY Zenon, <1>1, WriteFacts DEF EditSite, Respecify
  <2>3. reconciler' = [reconciler EXCEPT !.changed = reconciler.step # "idle"]
    BY Zenon, <1>1 DEF EditSite, Respecify
  <2>4. site.exists /\ ~site.deleting /\ UNCHANGED <<cred, creating, pruning, ns, volume>>
    BY Zenon, <1>1 DEF EditSite
  <2> HIDE DEF s
  <2>5. SiteType' /\ reconciler'.step = reconciler.step
    <3>1. reconciler' \in SitePasses /\ reconciler'.step = reconciler.step
      BY Zenon, <2>3, ChangedFacts
    <3> QED
      BY Zenon, <2>1, <2>2, <2>4, <3>1 DEF SiteType
  <2>6. DeletionOnce' /\ VolumesGone' /\ CreatedOnce'
    BY Zenon, <2>1, <2>2, <2>4, <2>5 DEF DeletionOnce, VolumesGone, CreatedOnce
  <2>7. CredentialKept'
    BY Zenon, <2>1, <2>2, <2>4 DEF CredentialKept
  <2> QED
    BY Zenon, <2>5, <2>6, <2>7
<1>2. CASE validateSiteDeletion
  <2>1. SiteType'
    BY Zenon, <1>2 DEF validateSiteDeletion, SiteType
  <2>2. DeletionOnce' /\ VolumesGone' /\ CredentialKept' /\ CreatedOnce'
    BY Zenon, <1>2 DEF validateSiteDeletion, DeletionOnce, VolumesGone, CredentialKept, CreatedOnce
  <2> QED
    BY Zenon, <2>1, <2>2
<1>3. CASE RequestDeletion
  <2> DEFINE t == IF site.finalizer THEN [site EXCEPT !.deleting = TRUE] ELSE NoSite
             s == [t EXCEPT !.verified = FALSE]
  <2>1. checked /\ site.exists /\ ~site.deleting /\ UNCHANGED <<cred, creating, pruning, ns>>
    BY Zenon, <1>3 DEF RequestDeletion, DeletionOnce
  <2>2. (t.deleting /\ t.exists) \/ (~t.deleting /\ ~t.exists)
    BY Zenon, <2>1 DEF SiteType, Sites, NoSite
  <2>3. t \in Sites
    BY Zenon DEF SiteType, Sites, NoSite
  <2>4. site' = s /\ (checked' => checked /\ s = site)
    <3>1. Write(s)
      BY <1>3, Zenon DEF RequestDeletion, Respecify
    <3> HIDE DEF s
    <3> QED
      BY Zenon, <3>1, WriteFacts
  <2>5. /\ reconciler' = [reconciler EXCEPT !.changed = reconciler.step # "idle"]
        /\ volume' = IF volume = "new" THEN "retained" ELSE volume
    BY Zenon, <1>3 DEF RequestDeletion, Respecify
  <2> HIDE DEF t
  <2>6. s \in Sites /\ ((s.deleting /\ s.exists) \/ (~s.deleting /\ ~s.exists))
    BY Zenon, <2>2, <2>3 DEF Sites
  <2> HIDE DEF s
  <2>7. SiteType' /\ reconciler'.step = reconciler.step
    <3>1. reconciler' \in SitePasses /\ reconciler'.step = reconciler.step
      BY Zenon, <2>5, ChangedFacts
    <3> QED
      BY Zenon, <2>1, <2>4, <2>5, <2>6, <3>1 DEF SiteType
  <2>8. /\ ~checked' /\ ((site'.deleting /\ site'.exists) \/ (~site'.deleting /\ ~site'.exists))
        /\ reconciler.step \notin Deleting /\ ns # "terminating"
    BY Zenon, <2>1, <2>4, <2>6 DEF DeletionOnce
  <2>9. DeletionOnce' /\ VolumesGone' /\ CreatedOnce'
    BY Zenon, <2>1, <2>7, <2>8 DEF DeletionOnce, VolumesGone, CreatedOnce, Deleting
  <2>10. CredentialKept'
    BY Zenon, <2>1, <2>4, <2>6 DEF CredentialKept
  <2> QED
    BY Zenon, <2>7, <2>9, <2>10
<1> QED
  BY Zenon, <1>1, <1>2, <1>3

(* pruneCredentials: only a credential old enough that no Create can be on  *)
(* its way is ever found, and deleted if no site is there at the last look. *)
LEMMA PruneStep ==
  ASSUME SiteIInv, ListSites \/ ListSecrets \/ RecheckSecret \/ DeleteSecret
  PROVE  SiteIInv'
<1> USE SiteConstants DEF SiteIInv
<1>1. UNCHANGED <<site, creating, checked, ns, volume, reconciler>>
  BY Zenon DEF ListSites, ListSecrets, RecheckSecret, DeleteSecret
<1>2. DeletionOnce' /\ VolumesGone'
  BY Zenon, <1>1 DEF DeletionOnce, VolumesGone
<1>3. CASE ListSites
  <2>1. SiteType'
    BY <1>3 DEF ListSites, SiteType, Sites
  <2>2. CredentialKept' /\ CreatedOnce'
    BY Zenon, <1>3 DEF ListSites, CredentialKept, CreatedOnce
  <2> QED
    BY Zenon, <1>2, <2>1, <2>2
<1>4. CASE ListSecrets
  <2>1. SiteType'
    BY Zenon, <1>4 DEF ListSecrets, NotPruning, SiteType
  <2>2. CredentialKept' /\ CreatedOnce'
    BY Zenon, <1>4 DEF ListSecrets, NotPruning, Prunable, SiteType, CredentialKept, CreatedOnce
  <2> QED
    BY Zenon, <1>2, <2>1, <2>2
<1>5. CASE RecheckSecret
  <2>1. SiteType'
    BY Zenon, <1>5 DEF RecheckSecret, NotPruning, SiteType
  <2>2. CredentialKept' /\ CreatedOnce'
    BY Zenon, <1>5 DEF RecheckSecret, ReferencedNow, NotPruning, SiteType, CredentialKept, CreatedOnce
  <2> QED
    BY Zenon, <1>2, <2>1, <2>2
<1>6. CASE DeleteSecret
  <2>1. SiteType'
    BY Zenon, <1>6 DEF DeleteSecret, NotPruning, SiteType
  <2>2. CredentialKept' /\ CreatedOnce'
    BY <1>6 DEF DeleteSecret, NotPruning, SiteType, CredentialKept, CreatedOnce
  <2> QED
    BY Zenon, <1>2, <2>1, <2>2
<1> QED
  BY Zenon, <1>3, <1>4, <1>5, <1>6

(* The reconciler's writes of the object.                                   *)
LEMMA ReconcilerWrites ==
  ASSUME SiteIInv, AddFinalizer \/ condition \/ RemoveFinalizer
  PROVE  SiteIInv'
<1> USE DEF SiteIInv
<1>1. /\ UNCHANGED <<cred, creating, pruning, ns, volume>>
      /\ reconciler' = AtRest
  BY Zenon DEF AddFinalizer, condition, RemoveFinalizer, Rest
<1>2. /\ site' \in Sites
      /\ \/ site'.exists = site.exists /\ site'.deleting = site.deleting
         \/ ~site'.exists /\ ~site'.deleting /\ site.exists
      /\ checked' => checked /\ site' = site
  <2>1. CASE UNCHANGED <<site, checked>>
    BY Zenon, <2>1 DEF SiteType
  <2>2. CASE Write([site EXCEPT !.finalizer = TRUE])
    <3> DEFINE s == [site EXCEPT !.finalizer = TRUE]
    <3>1. s \in Sites /\ s.exists = site.exists /\ s.deleting = site.deleting
      BY Zenon DEF SiteType, Sites
    <3> HIDE DEF s
    <3>2. site' = s /\ (checked' => checked /\ s = site)
      BY Zenon, <2>2, WriteFacts DEF s
    <3> QED
      BY Zenon, <3>1, <3>2
  <2>3. CASE Write([site EXCEPT !.recorded = reconciler.recorded,
                                !.verified = (reconciler.step = "verified" /\ site.enabled)])
    <3> DEFINE s == [site EXCEPT !.recorded = reconciler.recorded,
                                 !.verified = (reconciler.step = "verified" /\ site.enabled)]
    <3>1. s \in Sites /\ s.exists = site.exists /\ s.deleting = site.deleting
      BY ZenonT(60) DEF SiteType, SitePasses, Sites
    <3> HIDE DEF s
    <3>2. site' = s /\ (checked' => checked /\ s = site)
      BY Zenon, <2>3, WriteFacts DEF s
    <3> QED
      BY Zenon, <3>1, <3>2
  <2>4. CASE Write(NoSite) /\ site.exists
    <3>1. NoSite \in Sites /\ ~NoSite.exists /\ ~NoSite.deleting
      BY Zenon DEF NoSite, Sites
    <3> QED
      BY Zenon, <2>4, <3>1, WriteFacts
  <2> QED
    BY Zenon, <2>1, <2>2, <2>3, <2>4 DEF AddFinalizer, condition, RemoveFinalizer, Observed
<1>3. AtRest.step = "idle" /\ AtRest \in SitePasses
  BY Zenon DEF AtRest, SitePasses
<1>4. SiteType'
  BY Zenon, <1>1, <1>2, <1>3 DEF SiteType
<1>5. DeletionOnce'
  BY Zenon, <1>1, <1>2, <1>3 DEF DeletionOnce, Deleting
<1>6. VolumesGone' /\ CredentialKept' /\ CreatedOnce'
  BY Zenon, <1>1, <1>2, <1>3 DEF VolumesGone, CredentialKept, CreatedOnce
<1> QED
  BY Zenon, <1>4, <1>5, <1>6

(* The reconciler's other steps: it deletes the namespace only of a site    *)
(* being deleted, after a listing that showed no volume.                    *)
LEMMA ReconcilerStep ==
  ASSUME SiteIInv,
         \/ ReadSite \/ ensureNamespace \/ BindCredential
         \/ ListCodespaces \/ CleanupNamespace \/ DeleteNamespace
  PROVE  SiteIInv'
<1> USE DEF SiteIInv
<1>1. UNCHANGED <<site, creating, checked, pruning, volume>>
  BY Zenon DEF ReadSite, ensureNamespace, BindCredential, ListCodespaces, CleanupNamespace, DeleteNamespace
<1>2. CASE ReadSite
  <2>1. SiteType'
    BY <1>2 DEF ReadSite, SiteType, SitePasses, Sites, Deleting
  <2>2. DeletionOnce' /\ VolumesGone'
    BY Zenon, <1>2 DEF ReadSite, DeletionOnce, VolumesGone, Deleting
  <2>3. CredentialKept' /\ CreatedOnce'
    BY Zenon, <1>2 DEF ReadSite, CredentialKept, CreatedOnce
  <2> QED
    BY ZenonT(60), <2>1, <2>2, <2>3
<1>3. CASE ensureNamespace
  <2>1. /\ reconciler'.step \in {"bind", "unavailable"}
        /\ ns' = ns \/ ns' = "live"
        /\ reconciler.step = "namespace" /\ UNCHANGED cred
    BY Zenon, <1>3 DEF ensureNamespace, Step, SiteType, SitePasses
  <2>2. SiteType'
    BY ZenonT(60), <1>3 DEF ensureNamespace, Step, SiteType, SitePasses
  <2>3. DeletionOnce' /\ VolumesGone'
    BY Zenon, <1>1, <2>1 DEF DeletionOnce, VolumesGone, Deleting
  <2>4. CredentialKept' /\ CreatedOnce'
    BY Zenon, <1>1, <2>1 DEF CredentialKept, CreatedOnce
  <2> QED
    BY Zenon, <2>2, <2>3, <2>4
<1>4. CASE BindCredential
  <2>1. /\ reconciler'.step \in {"verified", "unavailable"}
        /\ reconciler.step = "bind" /\ ns' = ns /\ cred'.age = cred.age
        /\ cred' = cred \/ (cred'.state = "bound" /\ cred.state \in {"pending", "bound"})
    BY Zenon, <1>4 DEF BindCredential, bindSiteCredential, Step, SiteType, SitePasses
  <2>2. SiteType'
    BY <1>4 DEF BindCredential, bindSiteCredential, Step, SiteType, SitePasses
  <2>3. DeletionOnce' /\ VolumesGone'
    BY Zenon, <1>1, <2>1 DEF DeletionOnce, VolumesGone, Deleting
  <2>4. CredentialKept' /\ CreatedOnce'
    BY Zenon, <1>1, <2>1 DEF CredentialKept, CreatedOnce
  <2> QED
    BY Zenon, <2>2, <2>3, <2>4
<1>5. CASE ListCodespaces \/ CleanupNamespace \/ DeleteNamespace
  <2>1. /\ reconciler'.step \in {"idle", "volumes", "delete", "release"}
        /\ reconciler.step \in Deleting /\ UNCHANGED cred
        /\ reconciler'.step = "delete" => volume = "none"
        /\ ns' = ns \/ (ns' = "terminating" /\ reconciler.step = "delete")
    <3>1. CASE ListCodespaces
      BY <3>1 DEF ListCodespaces, Step, Rest, AtRest, SiteType, SitePasses, Deleting
    <3>2. CASE CleanupNamespace
      <4>1. \/ reconciler' = [reconciler EXCEPT !.step = "release"]
            \/ reconciler' = [reconciler EXCEPT !.step = "delete"] /\ volume = "none"
            \/ reconciler' = AtRest
        BY Zenon, <3>2 DEF CleanupNamespace, NamespaceGone, NoVolumes, Step, Rest
      <4> QED
        BY <3>2, <4>1 DEF CleanupNamespace, AtRest, SiteType, SitePasses, Deleting
    <3>3. CASE DeleteNamespace
      BY Zenon, <3>3 DEF DeleteNamespace, Rest, AtRest, Deleting
    <3> QED
      BY Zenon, <1>5, <3>1, <3>2, <3>3
  <2>2. SiteType'
    <3>1. reconciler' = AtRest \/ \E s \in Deleting : reconciler' = [reconciler EXCEPT !.step = s]
      <4>1. CASE ListCodespaces
        BY Zenon, <4>1 DEF ListCodespaces, Step, Rest, Deleting
      <4>2. CASE CleanupNamespace
        BY Zenon, <4>2 DEF CleanupNamespace, NamespaceGone, Step, Rest, Deleting
      <4>3. CASE DeleteNamespace
        BY Zenon, <4>3 DEF DeleteNamespace, Rest
      <4> QED
        BY Zenon, <1>5, <4>1, <4>2, <4>3
    <3>2. reconciler' \in SitePasses
      <4>1. CASE reconciler' = AtRest
        BY Zenon, <4>1 DEF AtRest, SitePasses
      <4>2. ASSUME NEW s \in Deleting, reconciler' = [reconciler EXCEPT !.step = s]
            PROVE  reconciler' \in SitePasses
        BY Zenon, <4>2 DEF SiteType, SitePasses
      <4> QED
        BY Zenon, <3>1, <4>1, <4>2
    <3> QED
      BY Zenon, <1>1, <2>1, <3>2 DEF SiteType
  <2>3. DeletionOnce' /\ VolumesGone'
    BY Zenon, <1>1, <2>1 DEF DeletionOnce, VolumesGone
  <2>4. CredentialKept' /\ CreatedOnce'
    BY Zenon, <1>1, <2>1 DEF CredentialKept, CreatedOnce, Deleting
  <2> QED
    BY Zenon, <2>2, <2>3, <2>4
<1> QED
  BY Zenon, <1>2, <1>3, <1>4, <1>5

(* Codespaces come and go, and the cluster loses things: no step here makes *)
(* a volume one that was there when the deletion was requested.             *)
LEMMA ClusterStep ==
  ASSUME SiteIInv,
         \/ Terminated \/ ReadActive \/ CreateRecord \/ StartRuntime \/ ensureVolume
         \/ DeleteRuntime \/ LoseRecord \/ LoseNamespace
  PROVE  SiteIInv'
<1> USE DEF SiteIInv
<1>1. UNCHANGED <<site, cred, creating, checked, pruning, reconciler>>
  BY Zenon DEF Terminated, ReadActive, CreateRecord, StartRuntime, ensureVolume, DeleteRuntime, LoseRecord,
         LoseNamespace
<1>2. ns' \in {ns, "none"} /\ volume' \in {volume, "none", "new"}
  BY Zenon DEF Terminated, ReadActive, CreateRecord, StartRuntime, ensureVolume, DeleteRuntime, LoseRecord,
         LoseNamespace
<1>3. SiteType'
  BY Zenon, <1>1, <1>2 DEF SiteType
<1>4. DeletionOnce' /\ VolumesGone'
  BY Zenon, <1>1, <1>2 DEF DeletionOnce, VolumesGone
<1>5. CredentialKept' /\ CreatedOnce'
  BY Zenon, <1>1, <1>2 DEF CredentialKept, CreatedOnce
<1> QED
  BY Zenon, <1>3, <1>4, <1>5

(* A restarted Manager has read and validated nothing.                      *)
LEMMA RestartStep ==
  ASSUME SiteIInv, RestartManager
  PROVE  SiteIInv'
<1> USE DEF SiteIInv
<1>1. SiteType'
  BY Zenon DEF RestartManager, AtRest, NotPruning, SiteType, SitePasses
<1>2. DeletionOnce' /\ VolumesGone'
  BY Zenon DEF RestartManager, AtRest, DeletionOnce, VolumesGone, Deleting
<1>3. CredentialKept' /\ CreatedOnce'
  BY Zenon DEF RestartManager, AtRest, NotPruning, CredentialKept, CreatedOnce
<1> QED
  BY Zenon, <1>1, <1>2, <1>3

(* In every reachable state deleteSite works only on a site whose deletion  *)
(* was requested, and pruneCredentials only on a credential no Create can   *)
(* still name.                                                              *)
THEOREM DeletionsAuthorized == SiteSpec => []SiteIInv
<1>1. SiteIInv /\ [SiteNext]_siteVars => SiteIInv'
  <2> SUFFICES ASSUME SiteIInv, [SiteNext]_siteVars PROVE SiteIInv'
      OBVIOUS
  <2>1. CASE Register \/ CommitCreate \/ LoseCreate \/ BindCreated \/ SiteTick
    BY Zenon, <2>1, CreateStep
  <2>2. CASE EditSite \/ validateSiteDeletion \/ RequestDeletion
    BY Zenon, <2>2, SiteAdminStep
  <2>3. CASE ListSites \/ ListSecrets \/ RecheckSecret \/ DeleteSecret
    BY Zenon, <2>3, PruneStep
  <2>4. CASE AddFinalizer \/ condition \/ RemoveFinalizer
    BY Zenon, <2>4, ReconcilerWrites
  <2>5. CASE \/ ReadSite \/ ensureNamespace \/ BindCredential
             \/ ListCodespaces \/ CleanupNamespace \/ DeleteNamespace
    BY Zenon, <2>5, ReconcilerStep
  <2>6. CASE \/ Terminated \/ ReadActive \/ CreateRecord \/ StartRuntime \/ ensureVolume
             \/ DeleteRuntime \/ LoseRecord \/ LoseNamespace
    BY Zenon, <2>6, ClusterStep
  <2>7. CASE RestartManager
    BY Zenon, <2>7, RestartStep
  <2>8. CASE UNCHANGED siteVars
    BY <2>8
    DEF siteVars, SiteIInv, SiteType, DeletionOnce, VolumesGone, CredentialKept, CreatedOnce
  <2> QED
    BY Zenon, <2>1, <2>2, <2>3, <2>4, <2>5, <2>6, <2>7, <2>8 DEF SiteNext, Reconcile
<1> QED
  BY <1>1, SiteInitIInv, PTL DEF SiteSpec

(* The removal of a site never destroys a volume that was there when its    *)
(* deletion was requested (deleteSite), and the credential of a site is     *)
(* never pruned (pruneCredentials), for any number of edits and faults.     *)
THEOREM NothingInUseLost == SiteSpec => []InUseKept
BY DeletionsAuthorized, KeptFollows, PTL

-----------------------------------------------------------------------------
(***************************************************************************)
(* The internal identity: IdentityIInv.                                    *)
(*                                                                         *)
(* An installation has one root of trust, for any number of replicas, any  *)
(* lifetimes of certificates and any hold-ups.                             *)
(*                                                                         *)
(* Everything in use descends from the root of the CA Secret. A second     *)
(* root could only come from a replica that creates the Secret while there *)
(* is none: either there never was one, and nothing trusts a root yet, or  *)
(* it was lost, and then there is a component, whose state keeps           *)
(* LoadIdentityAuthority from creating another.                            *)
(***************************************************************************)
Leaf(l) == DOMAIN l = {"root", "left", "issuer"}

IdentityType ==
  /\ DOMAIN authority = {"root", "issuer", "present"}
  /\ DOMAIN replica = Replicas /\ replica = [r \in Replicas |-> replica[r]]
  /\ \A r \in Replicas : DOMAIN replica[r] = {"step", "root", "issuer", "left", "conflict"}
  /\ DOMAIN workload = {"exists", "secret", "files", "process"}
  /\ Leaf(workload.secret) /\ Leaf(workload.files) /\ Leaf(workload.process)

(* What is in use descends from the CA Secret's root.                       *)
Descends ==
  /\ \A r \in Replicas : replica[r].root \in {0, authority.root}
  /\ {workload.secret.root, workload.files.root, workload.process.root} \subseteq {0, authority.root}

(* Without the CA Secret there is no root yet, or a component and nobody    *)
(* about to create another.                                                 *)
NoSecondRoot ==
  ~authority.present =>
    \/ authority.root = 0
    \/ workload.exists /\ \A r \in Replicas : replica[r].step # "creating"

IdentityIInv == IdentityType /\ Descends /\ NoSecondRoot

(* The invariant gives the property.                                        *)
LEMMA DescendsIsOne == IdentityIInv => OneRoot
BY ZenonT(60) DEF IdentityIInv, Descends, OneRoot

(* A new installation trusts nothing.                                       *)
LEMMA IdentityInitIInv == IdentityInit => IdentityIInv
BY DEF IdentityInit, IdentityIInv, IdentityType, Leaf, Descends, NoSecondRoot, Down, NoLeaf

(* What the records of a replica and of a certificate can become.           *)
LEMMA CertificateFacts ==
  ASSUME NEW root, NEW issuer
  PROVE  /\ DOMAIN Down = {"step", "root", "issuer", "left", "conflict"}
         /\ Down.root = 0 /\ Down.step = "down"
         /\ DOMAIN Loaded(root, issuer) = {"step", "root", "issuer", "left", "conflict"}
         /\ Loaded(root, issuer).root = root /\ Loaded(root, issuer).step = "serving"
         /\ Loaded(root, issuer).issuer = issuer
         /\ Loaded(root, issuer).left = Sooner(LeafLifetime, issuer)
         /\ Leaf(Issue(root, issuer)) /\ Issue(root, issuer).root = root
BY Zenon DEF Down, Loaded, Leaf, Issue

ReplicaRecord(f) == DOMAIN f = {"step", "root", "issuer", "left", "conflict"}

(* A step of a replica that gives it the root it had, none, or the CA       *)
(* Secret's, and makes it create only where nothing trusts a root, changes  *)
(* nobody's trust.                                                          *)
LEMMA ReplicaSteps ==
  ASSUME IdentityIInv, NEW r \in Replicas, UNCHANGED <<authority, workload>>,
         DOMAIN replica' = Replicas, replica' = [q \in Replicas |-> replica'[q]],
         \A q \in Replicas : q # r => replica'[q] = replica[q],
         ReplicaRecord(replica'[r]),
         replica'[r].root \in {0, authority.root},
         replica'[r].step = "creating" => ~workload.exists
  PROVE  IdentityIInv'
<1>1. IdentityType'
  BY Zenon DEF IdentityIInv, IdentityType, ReplicaRecord
<1>2. Descends'
  BY Zenon DEF IdentityIInv, Descends
<1>3. NoSecondRoot'
  BY Zenon DEF IdentityIInv, NoSecondRoot
<1> QED
  BY Zenon, <1>1, <1>2, <1>3 DEF IdentityIInv

(* LoadIdentityAuthority takes the CA Secret's root, or sets out to create  *)
(* one where nothing is managed yet.                                        *)
LEMMA LoadStep ==
  ASSUME IdentityIInv, NEW r \in Replicas, LoadIdentityAuthority(r)
  PROVE  IdentityIInv'
<1>1. /\ IdentityType /\ UNCHANGED <<authority, workload>>
      /\ ReplicaRecord(replica[r]) /\ replica[r].root \in {0, authority.root}
  BY Zenon DEF IdentityIInv, IdentityType, Descends, LoadIdentityAuthority, ReplicaRecord
<1> DEFINE a == [Down EXCEPT !.step = "renewing"]
           b == Loaded(authority.root, authority.issuer)
           c == [replica[r] EXCEPT !.step = "creating"]
<1>2. /\ ReplicaRecord(a) /\ a.root = 0 /\ a.step = "renewing"
      /\ ReplicaRecord(b) /\ b.root = authority.root /\ b.step = "serving"
      /\ ReplicaRecord(c) /\ c.root = replica[r].root /\ c.step = "creating"
  BY <1>1, CertificateFacts DEF ReplicaRecord, Down
<1>3. \/ replica' = [replica EXCEPT ![r] = a]
      \/ replica' = [replica EXCEPT ![r] = b]
      \/ replica' = [replica EXCEPT ![r] = c] /\ ~workload.exists
  BY Zenon DEF LoadIdentityAuthority, hasPersistedIdentityState
<1> HIDE DEF a, b, c
<1>4. /\ DOMAIN replica' = Replicas /\ replica' = [q \in Replicas |-> replica'[q]]
      /\ \A q \in Replicas : q # r => replica'[q] = replica[q]
      /\ replica'[r] = a \/ replica'[r] = b \/ (replica'[r] = c /\ ~workload.exists)
  BY <1>1, <1>3 DEF IdentityType
<1> QED
  BY <1>1, <1>2, <1>4, ReplicaSteps

(* A write of the CA Secret marks the others' reads, and changes nothing    *)
(* else of them.                                                            *)
LEMMA ConflictingFacts ==
  ASSUME IdentityType, NEW r \in Replicas, NEW x, ReplicaRecord(x),
         replica' = Conflicting(r, [replica EXCEPT ![r] = x])
  PROVE  /\ DOMAIN replica' = Replicas /\ replica' = [q \in Replicas |-> replica'[q]]
         /\ replica'[r] = x
         /\ \A q \in Replicas : ReplicaRecord(replica'[q])
         /\ \A q \in Replicas : q # r =>
              /\ replica'[q].root = replica[q].root /\ replica'[q].step = replica[q].step
              /\ replica'[q].left = replica[q].left /\ replica'[q].issuer = replica[q].issuer
<1> DEFINE f == [replica EXCEPT ![r] = x]
<1>1. f[r] = x /\ \A q \in Replicas : q # r => f[q] = replica[q]
  BY Zenon DEF IdentityType
<1>2. \A q \in Replicas : ReplicaRecord(f[q])
  BY Zenon, <1>1 DEF IdentityType, ReplicaRecord
<1>3. replica' = Conflicting(r, f)
  OBVIOUS
<1> HIDE DEF f
<1>4. ASSUME NEW q \in Replicas, q # r
      PROVE  /\ ReplicaRecord(replica'[q])
             /\ replica'[q].root = replica[q].root /\ replica'[q].step = replica[q].step
             /\ replica'[q].left = replica[q].left /\ replica'[q].issuer = replica[q].issuer
  <2>1. replica'[q] = f[q] \/ replica'[q] = [f[q] EXCEPT !.conflict = TRUE]
    BY Zenon, <1>3, <1>4 DEF Conflicting
  <2> QED
    BY ZenonT(60), <1>1, <1>2, <1>4, <2>1 DEF ReplicaRecord
<1>5. replica'[r] = x
  BY Zenon, <1>1, <1>3 DEF Conflicting
<1>6. DOMAIN replica' = Replicas /\ replica' = [q \in Replicas |-> replica'[q]]
  BY Zenon, <1>3 DEF Conflicting
<1> QED
  BY ZenonT(60), <1>4, <1>5, <1>6

(* NewIdentityAuthority: the Create succeeds only before anything trusts a  *)
(* root.                                                                    *)
LEMMA NewStep ==
  ASSUME IdentityIInv, NEW r \in Replicas, NewAuthority(r)
  PROVE  IdentityIInv'
<1>1. IdentityType
  BY Zenon DEF IdentityIInv
<1>2. /\ authority' = [root |-> roots + 1, issuer |-> IssuerLifetime, present |-> TRUE]
      /\ replica' = Conflicting(r, [replica EXCEPT ![r] = Loaded(roots + 1, IssuerLifetime)])
      /\ workload' = workload
      /\ authority.root = 0
  BY Zenon DEF NewAuthority, CreateSucceeds, IdentityIInv, NoSecondRoot
<1>3. /\ DOMAIN replica' = Replicas /\ replica' = [q \in Replicas |-> replica'[q]]
      /\ replica'[r].root = roots + 1
      /\ \A q \in Replicas : ReplicaRecord(replica'[q])
      /\ \A q \in Replicas : q # r => replica'[q].root = replica[q].root
  <2> DEFINE x == Loaded(roots + 1, IssuerLifetime)
  <2>1. ReplicaRecord(x) /\ x.root = roots + 1
    BY CertificateFacts DEF ReplicaRecord
  <2>2. replica' = Conflicting(r, [replica EXCEPT ![r] = x])
    BY Zenon, <1>2
  <2> HIDE DEF x
  <2> QED
    BY Zenon, <1>1, <2>1, <2>2, ConflictingFacts
<1>4. IdentityType'
  BY Zenon, <1>2, <1>3 DEF IdentityIInv, IdentityType, ReplicaRecord
<1>5. Descends'
  <2>1. authority'.root = roots + 1
    BY Zenon, <1>2
  <2>2. /\ \A q \in Replicas : replica[q].root = 0
        /\ {workload.secret.root, workload.files.root, workload.process.root} \subseteq {0}
    BY Zenon, <1>2 DEF IdentityIInv, Descends
  <2>3. \A q \in Replicas : replica'[q].root \in {0, authority'.root}
    BY Zenon, <1>3, <2>1, <2>2
  <2> QED
    BY Zenon, <1>2, <2>2, <2>3 DEF Descends
<1>6. NoSecondRoot'
  BY Zenon, <1>2 DEF NoSecondRoot
<1> QED
  BY Zenon, <1>4, <1>5, <1>6 DEF IdentityIInv

(* sync and a refused Create load the CA Secret again, or end the replica.  *)
LEMMA SyncStep ==
  ASSUME IdentityIInv, NEW r \in Replicas, sync(r) \/ CreateConflicts(r) \/ RestartReplica(r)
  PROVE  IdentityIInv'
<1>1. /\ IdentityType /\ UNCHANGED <<authority, workload>>
      /\ ReplicaRecord(replica[r]) /\ replica[r].root \in {0, authority.root}
  BY Zenon DEF IdentityIInv, IdentityType, Descends, sync, CreateConflicts, RestartReplica, ReplicaRecord
<1> DEFINE a == [replica[r] EXCEPT !.step = "renewing"]
           b == Loaded(authority.root, authority.issuer)
<1>2. /\ ReplicaRecord(a) /\ a.root = replica[r].root /\ a.step = "renewing"
      /\ ReplicaRecord(b) /\ b.root = authority.root /\ b.step = "serving"
      /\ ReplicaRecord(Down) /\ Down.root = 0 /\ Down.step = "down"
  BY <1>1, CertificateFacts DEF ReplicaRecord
<1>3. \/ replica' = [replica EXCEPT ![r] = a]
      \/ replica' = [replica EXCEPT ![r] = b]
      \/ replica' = [replica EXCEPT ![r] = Down]
  BY Zenon DEF sync, CreateConflicts, RestartReplica
<1> HIDE DEF a, b
<1>4. /\ DOMAIN replica' = Replicas /\ replica' = [q \in Replicas |-> replica'[q]]
      /\ \A q \in Replicas : q # r => replica'[q] = replica[q]
      /\ replica'[r] = a \/ replica'[r] = b \/ replica'[r] = Down
  BY <1>1, <1>3 DEF IdentityType
<1> QED
  BY <1>1, <1>2, <1>4, ReplicaSteps

(* RenewIssuer keeps the root.                                              *)
LEMMA RenewStep ==
  ASSUME IdentityIInv, NEW r \in Replicas, RenewIssuer(r)
  PROVE  IdentityIInv'
<1>1. /\ IdentityType /\ UNCHANGED workload
      /\ ReplicaRecord(replica[r]) /\ replica[r].root \in {0, authority.root}
  BY Zenon DEF IdentityIInv, IdentityType, Descends, RenewIssuer, ReplicaRecord
<1>2. CASE replica[r].conflict \/ ~authority.present
  <2> DEFINE a == [replica[r] EXCEPT !.conflict = FALSE]
             b == Loaded(authority.root, authority.issuer)
  <2>1. /\ ReplicaRecord(a) /\ a.root = replica[r].root /\ a.step = replica[r].step
        /\ ReplicaRecord(b) /\ b.root = authority.root /\ b.step = "serving"
        /\ ReplicaRecord(Down) /\ Down.root = 0 /\ Down.step = "down"
    BY <1>1, CertificateFacts DEF ReplicaRecord
  <2>2. /\ replica[r].step = "renewing" /\ UNCHANGED authority
        /\ \/ replica' = [replica EXCEPT ![r] = a]
           \/ replica' = [replica EXCEPT ![r] = b]
           \/ replica' = [replica EXCEPT ![r] = Down]
    BY Zenon, <1>2 DEF RenewIssuer
  <2> HIDE DEF a, b
  <2>3. /\ DOMAIN replica' = Replicas /\ replica' = [q \in Replicas |-> replica'[q]]
        /\ \A q \in Replicas : q # r => replica'[q] = replica[q]
        /\ replica'[r] = a \/ replica'[r] = b \/ replica'[r] = Down
    BY <1>1, <2>2 DEF IdentityType
  <2> QED
    BY SMTT(60), <1>1, <2>1, <2>2, <2>3, ReplicaSteps
<1>3. CASE ~(replica[r].conflict \/ ~authority.present)
  <2>1. /\ authority' = [authority EXCEPT !.issuer = IssuerLifetime]
        /\ replica' = Conflicting(r, [replica EXCEPT ![r] = Loaded(authority.root, IssuerLifetime)])
    BY Zenon, <1>3 DEF RenewIssuer
  <2>2. /\ DOMAIN authority' = {"root", "issuer", "present"}
        /\ authority'.root = authority.root /\ authority'.present
    BY Zenon, <1>1, <1>3, <2>1 DEF IdentityType
  <2>3. /\ DOMAIN replica' = Replicas /\ replica' = [q \in Replicas |-> replica'[q]]
        /\ replica'[r].root = authority.root
        /\ \A q \in Replicas : ReplicaRecord(replica'[q])
        /\ \A q \in Replicas : q # r => replica'[q].root = replica[q].root
    <3> DEFINE x == Loaded(authority.root, IssuerLifetime)
    <3>1. ReplicaRecord(x) /\ x.root = authority.root
      BY CertificateFacts DEF ReplicaRecord
    <3>2. replica' = Conflicting(r, [replica EXCEPT ![r] = x])
      BY Zenon, <2>1
    <3> HIDE DEF x
    <3> QED
      BY Zenon, <1>1, <3>1, <3>2, ConflictingFacts
  <2>4. IdentityType'
    BY Zenon, <1>1, <2>2, <2>3 DEF IdentityType, ReplicaRecord
  <2>5. Descends'
    BY Zenon, <1>1, <2>2, <2>3 DEF IdentityIInv, Descends
  <2>6. NoSecondRoot'
    BY Zenon, <2>2 DEF NoSecondRoot
  <2> QED
    BY Zenon, <2>4, <2>5, <2>6 DEF IdentityIInv
<1> QED
  BY Zenon, <1>2, <1>3

(* The component: its certificates are issued under a serving replica's     *)
(* root, and handed on as they are.                                         *)
LEMMA WorkloadStep ==
  ASSUME IdentityIInv,
         \/ AddComponent \/ ProjectSecret \/ RefreshCertificate
         \/ \E r \in Replicas : reconcileCertificateSecret(r)
  PROVE  IdentityIInv'
<1>1. UNCHANGED <<authority, replica>>
  BY Zenon DEF AddComponent, ProjectSecret, RefreshCertificate, reconcileCertificateSecret
<1>2. /\ DOMAIN workload = {"exists", "secret", "files", "process"}
      /\ Leaf(workload.secret) /\ Leaf(workload.files) /\ Leaf(workload.process)
  BY Zenon DEF IdentityIInv, IdentityType
<1>3. /\ DOMAIN workload' = {"exists", "secret", "files", "process"}
      /\ Leaf(workload'.secret) /\ Leaf(workload'.files) /\ Leaf(workload'.process)
      /\ {workload'.secret.root, workload'.files.root, workload'.process.root}
           \subseteq {0, authority.root}
      /\ workload.exists => workload'.exists
  <2>1. CASE AddComponent
    BY Zenon, <1>2, <2>1 DEF AddComponent, IdentityIInv, Descends
  <2>2. CASE ProjectSecret
    BY Zenon, <1>2, <2>2 DEF ProjectSecret, IdentityIInv, Descends
  <2>3. CASE RefreshCertificate
    BY Zenon, <1>2, <2>3 DEF RefreshCertificate, IdentityIInv, Descends
  <2>4. ASSUME NEW r \in Replicas, reconcileCertificateSecret(r)
        PROVE  /\ DOMAIN workload' = {"exists", "secret", "files", "process"}
               /\ Leaf(workload'.secret) /\ Leaf(workload'.files) /\ Leaf(workload'.process)
               /\ {workload'.secret.root, workload'.files.root, workload'.process.root}
                    \subseteq {0, authority.root}
               /\ workload.exists => workload'.exists
    <3>1. CASE UNCHANGED workload
      BY Zenon, <1>2, <3>1 DEF IdentityIInv, Descends
    <3>2. CASE workload' = [workload EXCEPT !.secret = Issue(replica[r].root, replica[r].issuer)]
      <4> DEFINE l == Issue(replica[r].root, replica[r].issuer)
      <4>1. Leaf(l) /\ l.root \in {0, authority.root}
        BY CertificateFacts DEF IdentityIInv, Descends
      <4> HIDE DEF l
      <4>2. workload' = [workload EXCEPT !.secret = l]
        BY Zenon, <3>2 DEF l
      <4> QED
        BY ZenonT(60), <1>2, <4>1, <4>2 DEF IdentityIInv, Descends
    <3> QED
      BY Zenon, <2>4, <3>1, <3>2 DEF reconcileCertificateSecret
  <2> QED
    BY Zenon, <2>1, <2>2, <2>3, <2>4
<1>4. IdentityType'
  BY <1>1, <1>3 DEF IdentityIInv, IdentityType
<1>5. Descends' /\ NoSecondRoot'
  BY Zenon, <1>1, <1>3 DEF IdentityIInv, Descends, NoSecondRoot
<1> QED
  BY Zenon, <1>4, <1>5 DEF IdentityIInv

(* The CA Secret is lost only where there is a component and nobody is      *)
(* about to create another, and comes back as it was.                       *)
LEMMA LossStep ==
  ASSUME IdentityIInv, LoseAuthority \/ RestoreAuthority \/ \E w \in due : HoldUp(w)
  PROVE  IdentityIInv'
<1>1. UNCHANGED <<replica, workload>>
  BY Zenon DEF LoseAuthority, RestoreAuthority, HoldUp
<1>2. DOMAIN authority' = {"root", "issuer", "present"} /\ authority'.root = authority.root
  BY Zenon DEF LoseAuthority, RestoreAuthority, HoldUp, IdentityIInv, IdentityType
<1>3. IdentityType' /\ Descends'
  BY <1>1, <1>2 DEF IdentityIInv, IdentityType, Descends
<1>4. NoSecondRoot'
  <2>1. CASE LoseAuthority
    BY Zenon, <1>1, <2>1 DEF LoseAuthority, NoSecondRoot
  <2>2. CASE RestoreAuthority
    BY Zenon, <2>2 DEF RestoreAuthority, NoSecondRoot, IdentityIInv, IdentityType
  <2>3. CASE \E w \in due : HoldUp(w)
    BY Zenon, <2>3 DEF HoldUp, NoSecondRoot, IdentityIInv
  <2> QED
    BY Zenon, <2>1, <2>2, <2>3
<1> QED
  BY Zenon, <1>3, <1>4 DEF IdentityIInv

(* Time ages certificates, not their roots.                                 *)
LEMMA IdentityTickStep ==
  ASSUME IdentityIInv, IdentityTick
  PROVE  IdentityIInv'
<1>1. /\ DOMAIN authority' = {"root", "issuer", "present"}
      /\ authority'.root = authority.root /\ authority'.present = authority.present
  BY Zenon DEF IdentityTick, IdentityIInv, IdentityType
<1>2. /\ DOMAIN replica' = Replicas /\ replica' = [q \in Replicas |-> replica'[q]]
      /\ \A q \in Replicas : /\ DOMAIN replica'[q] = {"step", "root", "issuer", "left", "conflict"}
                            /\ replica'[q].root = replica[q].root /\ replica'[q].step = replica[q].step
  BY ZenonT(60) DEF IdentityTick, IdentityIInv, IdentityType
<1>3. ASSUME NEW l, Leaf(l)
      PROVE  Leaf(AgedLeaf(l)) /\ AgedLeaf(l).root = l.root
  BY Zenon, <1>3 DEF Leaf, AgedLeaf
<1>4. /\ DOMAIN workload' = {"exists", "secret", "files", "process"}
      /\ workload'.exists = workload.exists
      /\ workload'.secret = AgedLeaf(workload.secret)
      /\ workload'.files = AgedLeaf(workload.files)
      /\ workload'.process = AgedLeaf(workload.process)
  BY Zenon DEF IdentityTick, IdentityIInv, IdentityType
<1>5. IdentityType'
  BY SMTT(60), <1>1, <1>2, <1>3, <1>4 DEF IdentityIInv, IdentityType
<1>6. Descends'
  BY <1>1, <1>2, <1>3, <1>4 DEF IdentityIInv, IdentityType, Descends
<1>7. NoSecondRoot'
  BY Zenon, <1>1, <1>2, <1>4 DEF IdentityIInv, NoSecondRoot
<1> QED
  BY Zenon, <1>5, <1>6, <1>7 DEF IdentityIInv

(* In every reachable state all trust descends from the CA Secret's root,   *)
(* and no second root can be made.                                          *)
THEOREM RootsDescend == IdentitySpec => []IdentityIInv
<1>1. IdentityIInv /\ [IdentityNext]_identityVars => IdentityIInv'
  <2> SUFFICES ASSUME IdentityIInv, [IdentityNext]_identityVars PROVE IdentityIInv'
      OBVIOUS
  <2>1. ASSUME NEW r \in Replicas,
               \/ LoadIdentityAuthority(r) \/ NewAuthority(r) \/ CreateConflicts(r)
               \/ sync(r) \/ RenewIssuer(r) \/ RestartReplica(r)
        PROVE  IdentityIInv'
    BY Zenon, <2>1, LoadStep, NewStep, SyncStep, RenewStep
  <2>2. CASE \/ AddComponent \/ ProjectSecret \/ RefreshCertificate
             \/ \E r \in Replicas : reconcileCertificateSecret(r)
    BY Zenon, <2>2, WorkloadStep
  <2>3. CASE LoseAuthority \/ RestoreAuthority \/ \E w \in due : HoldUp(w)
    BY Zenon, <2>3, LossStep
  <2>4. CASE IdentityTick
    BY Zenon, <2>4, IdentityTickStep
  <2>5. CASE UNCHANGED identityVars
    BY Zenon, <2>5 DEF identityVars, IdentityIInv, IdentityType, Descends, NoSecondRoot
  <2> QED
    BY Zenon, <2>1, <2>2, <2>3, <2>4, <2>5 DEF IdentityNext
<1> QED
  BY <1>1, IdentityInitIInv, PTL DEF IdentitySpec

(* All replicas, the CA Secret and the component's Secret, files and        *)
(* process trust one root, whichever replicas start, renew or restart at    *)
(* once and whether or not the CA Secret is lost (LoadIdentityAuthority,    *)
(* sync).                                                                   *)
THEOREM TrustsOneRoot == IdentitySpec => []OneRoot
BY RootsDescend, DescendsIsOne, PTL

(***************************************************************************)
(* Certificates in use: TrustIInv.                                         *)
(*                                                                         *)
(* While the CA Secret is there, no certificate in use expires, for any    *)
(* number of replicas and any lifetimes and hold-ups that RenewalWindows   *)
(* allows.                                                                 *)
(*                                                                         *)
(* A replica keeps no issuer that needs renewal beyond the tick in which   *)
(* it looks, so what it issues has a known least life. Secret, files and   *)
(* process are each at most a tick behind the one before, and each hold-up *)
(* costs one of them one tick: what is left to a certificate and the       *)
(* hold-ups so far together never fall below a bound of its own, which is  *)
(* one lower while this tick's work on it is still due.                    *)
(***************************************************************************)
(* What is left to a certificate and to its issuer.                         *)
Amount(l) == l.left \in Nat /\ l.issuer \in Nat

Amounts ==
  /\ delayed \in Nat /\ delayed <= Delays /\ roots \in Nat /\ authority.issuer \in Nat
  /\ \A r \in Replicas : Amount(replica[r])
  /\ Amount(workload.secret) /\ Amount(workload.files) /\ Amount(workload.process)

(* Only a replica that serves or renews has a root; the component's work    *)
(* and leaves are of a component; what was handed on was there to be handed *)
(* on; and only NoLeaf has no root.                                         *)
InOrder ==
  /\ \A r \in Replicas : Serving(r) => replica[r].step \in {"serving", "renewing"}
  /\ \A w \in Work : w \in due => workload.exists
  /\ workload.secret.root # 0 => workload.exists
  /\ workload.files.root # 0 => workload.secret.root # 0
  /\ workload.process.root # 0 => workload.files.root # 0
  /\ \A l \in {workload.secret, workload.files, workload.process} : l.root = 0 => l = NoLeaf

(* n ticks are left where there were d hold-ups: all but one of the least   *)
(* there may be, and that one too once the tick's work on them is done.     *)
Ahead(n, d, least, done) == n + d >= least - 1 /\ (done => n + d >= least)

(* The replica has looked at the CA Secret in this tick, or was held up.    *)
Synced(r) == r \notin due /\ replica[r].step # "renewing"

ReplicaLasts(r) ==
  Serving(r) => /\ Ahead(replica[r].left, delayed, Sooner(LeafLifetime, IssuerRenewBefore + 1), Synced(r))
                /\ Ahead(replica[r].issuer, delayed, IssuerRenewBefore + 1, Synced(r))

LeafLasts(l, least, done) ==
  l.root # 0 => l.left <= l.issuer /\ Ahead(l.left, delayed, least, done)

(* The least life of the Secret's leaf once the component is reconciled.    *)
Shortest == Sooner(LeafRenewBefore + 1, IssuerRenewBefore)

LeavesLast ==
  /\ LeafLasts(workload.secret, Shortest, "component" \notin due)
  /\ LeafLasts(workload.files, Shortest - 1, "project" \notin due)
  /\ LeafLasts(workload.process, Shortest - 2, "refresh" \notin due)

Lasting ==
  ~lost => /\ roots > 0 => authority.present
           /\ \A r \in Replicas : ReplicaLasts(r)
           /\ LeavesLast

TrustIInv == IdentityIInv /\ Amounts /\ InOrder /\ Lasting

(* Nothing is in use in a new installation.                                 *)
LEMMA TrustInitIInv == IdentityInit => TrustIInv
<1> SUFFICES ASSUME IdentityInit PROVE TrustIInv
    BY Zenon
<1>1. Amounts
  BY SMTT(60), IdentityConstants DEF IdentityInit, Amounts, Amount, Down, NoLeaf
<1>2. InOrder
  BY SMTT(60) DEF IdentityInit, InOrder, Serving, Down, NoLeaf
<1>3. Lasting
  BY SMTT(60) DEF IdentityInit, Lasting, ReplicaLasts, LeavesLast, LeafLasts, Serving, Down, NoLeaf
<1> QED
  BY ZenonT(60), <1>1, <1>2, <1>3, IdentityInitIInv DEF TrustIInv

(* The bounds are numbers, and what is issued lasts as long as its issuer   *)
(* at most.                                                                 *)
LEMMA LifetimeFacts ==
  /\ Delays \in Nat /\ IssuerRenewBefore \in Nat /\ IssuerLifetime \in Nat
  /\ LeafLifetime \in Nat /\ LeafRenewBefore \in Nat
  /\ Sooner(LeafLifetime, IssuerRenewBefore + 1) \in Nat
  /\ Sooner(LeafLifetime, IssuerRenewBefore + 1) > Delays + 1
  /\ Shortest \in Nat /\ Shortest > Delays + 3
  /\ Shortest <= LeafRenewBefore + 1 /\ Shortest <= IssuerRenewBefore /\ Shortest <= LeafLifetime
  /\ IssuerLifetime > IssuerRenewBefore /\ IssuerRenewBefore + 1 \in Nat
BY IdentityConstants, RenewalWindows DEF Sooner, Shortest

(* What is ahead stays so while neither what is left nor the hold-ups are   *)
(* less.                                                                    *)
LEMMA AheadStays ==
  ASSUME NEW n \in Nat, NEW d \in Nat, NEW e \in Nat, e >= d, NEW least \in Nat,
         NEW p, Ahead(n, d, least, p)
  PROVE  Ahead(n, e, least, p)
BY DEF Ahead

(* A certificate with its least life is ahead, whatever was held up.        *)
LEMMA AheadAnew ==
  ASSUME NEW n \in Nat, NEW e \in Nat, NEW least \in Nat, n >= least, NEW q
  PROVE  Ahead(n, e, least, q)
BY DEF Ahead

(* A hold-up stands for the tick's work that it puts off.                   *)
LEMMA AheadHeldUp ==
  ASSUME NEW n \in Nat, NEW d \in Nat, NEW least \in Nat, NEW p, NEW q, Ahead(n, d, least, p)
  PROVE  Ahead(n, d + 1, least, q)
BY DEF Ahead

(* When the work was done a tick may pass; then work is due again.          *)
LEMMA AheadTicks ==
  ASSUME NEW n \in Nat, NEW m \in Nat, m >= n - 1, NEW d \in Nat, NEW least \in Nat,
         Ahead(n, d, least, TRUE)
  PROVE  Ahead(m, d, least, FALSE)
BY DEF Ahead

(* The invariant gives what is checked of certificates in use.              *)
LEMMA LastingIsValid == TrustIInv => TrustHolds
<1> SUFFICES ASSUME TrustIInv PROVE TrustHolds
    OBVIOUS
<1>1. OneRoot
  BY SMTT(60), DescendsIsOne DEF TrustIInv
<1>2. ASSUME ~lost, workload.process # NoLeaf PROVE Valid(workload.process)
  <2>1. /\ workload.process.root # 0 /\ LeafLasts(workload.process, Shortest - 2, "refresh" \notin due)
        /\ delayed \in Nat /\ delayed <= Delays /\ Amount(workload.process)
    BY ZenonT(60), <1>2 DEF TrustIInv, InOrder, Lasting, LeavesLast, Amounts
  <2> QED
    BY SMTT(60), <2>1, LifetimeFacts DEF LeafLasts, Ahead, Valid, Amount
<1>3. ASSUME ~lost, NEW r \in Replicas, Serving(r) PROVE replica[r].left > 0
  <2>1. ReplicaLasts(r) /\ delayed \in Nat /\ delayed <= Delays /\ Amount(replica[r])
    BY Zenon, <1>3 DEF TrustIInv, Lasting, Amounts
  <2> QED
    BY SMTT(60), <1>3, <2>1, LifetimeFacts DEF ReplicaLasts, Ahead, Amount
<1> QED
  BY Zenon, <1>1, <1>2, <1>3 DEF TrustHolds

(* What is issued has the whole of the renewal window before it, if its     *)
(* issuer does.                                                             *)
LEMMA SoonerLasts ==
  ASSUME NEW issuer \in Nat
  PROVE  /\ Sooner(LeafLifetime, issuer) \in Nat
         /\ issuer > IssuerRenewBefore =>
              Sooner(LeafLifetime, issuer) >= Sooner(LeafLifetime, IssuerRenewBefore + 1)
BY LifetimeFacts DEF Sooner

(* What was never issued is not valid.                                      *)
LEMMA NoLeafInvalid == ~Valid(NoLeaf)
BY DEF Valid, NoLeaf

(* A count of hold-ups that grows by one at most.                           *)
LEMMA MoreHoldUps == \A d \in Nat : \A e \in {d, d + 1} : e \in Nat /\ e >= d
OBVIOUS

(* The leaves last where only the hold-ups may have become more.            *)
LEMMA LeavesStay ==
  ASSUME LeavesLast, UNCHANGED workload, \A w \in Work : w \in due' <=> w \in due,
         delayed \in Nat, delayed' \in Nat, delayed' >= delayed,
         Amount(workload.secret), Amount(workload.files), Amount(workload.process)
  PROVE  LeavesLast'
<1>1. /\ ("component" \in due' <=> "component" \in due)
      /\ ("project" \in due' <=> "project" \in due)
      /\ ("refresh" \in due' <=> "refresh" \in due)
  BY Zenon DEF Work
<1>2. LeafLasts(workload.secret, Shortest, "component" \notin due)'
  BY SMTT(60), <1>1, LifetimeFacts DEF LeavesLast, LeafLasts, Ahead, Amount
<1>3. LeafLasts(workload.files, Shortest - 1, "project" \notin due)'
  BY SMTT(60), <1>1, LifetimeFacts DEF LeavesLast, LeafLasts, Ahead, Amount
<1>4. LeafLasts(workload.process, Shortest - 2, "refresh" \notin due)'
  BY SMTT(60), <1>1, LifetimeFacts DEF LeavesLast, LeafLasts, Ahead, Amount
<1> QED
  BY Zenon, <1>2, <1>3, <1>4 DEF LeavesLast

(* A replica's step ends it, gives it an authority of which the issuer does *)
(* not need renewal, or has it renew with what it has; a hold-up is counted.*)
LEMMA ReplicaTrust ==
  ASSUME TrustIInv, IdentityIInv', NEW r \in Replicas, UNCHANGED <<workload, lost>>,
         roots' \in Nat, authority'.issuer \in Nat,
         ~lost /\ roots' > 0 => authority'.present,
         delayed' \in {delayed, delayed + 1}, delayed' <= Delays,
         due' = due \/ due' = due \ {r},
         \A q \in Replicas : q # r =>
           /\ replica'[q].root = replica[q].root /\ replica'[q].step = replica[q].step
           /\ replica'[q].left = replica[q].left /\ replica'[q].issuer = replica[q].issuer,
         \/ replica'[r].root = 0 /\ Amount(replica'[r])
         \/ /\ replica'[r].issuer \in Nat /\ replica'[r].issuer > IssuerRenewBefore
            /\ replica'[r].left = Sooner(LeafLifetime, replica'[r].issuer)
            /\ replica'[r].step = "serving"
         \/ /\ replica'[r].root = replica[r].root /\ replica'[r].step = "renewing"
            /\ replica'[r].left = replica[r].left /\ replica'[r].issuer = replica[r].issuer
  PROVE  TrustIInv'
<1>1. /\ delayed \in Nat /\ delayed' \in Nat /\ delayed' >= delayed
      /\ Amounts /\ InOrder /\ Lasting
  <2>1. Amounts /\ InOrder /\ Lasting /\ delayed \in Nat
    BY Zenon DEF TrustIInv, Amounts
  <2> QED
    BY Zenon, <2>1, MoreHoldUps
<1>2. /\ \A w \in Work : w \in due' <=> w \in due
      /\ \A q \in Replicas : q # r => (q \in due' <=> q \in due)
  BY Zenon, RenewalWindows
<1>3. Amount(replica'[r]) /\ (replica'[r].root # 0 => replica'[r].step \in {"serving", "renewing"})
  <2>1. CASE replica'[r].root = 0 /\ Amount(replica'[r])
    BY Zenon, <2>1
  <2>2. CASE /\ replica'[r].issuer \in Nat /\ replica'[r].step = "serving"
             /\ replica'[r].left = Sooner(LeafLifetime, replica'[r].issuer)
    BY Zenon, <2>2, SoonerLasts DEF Amount
  <2>3. CASE /\ replica'[r].root = replica[r].root /\ replica'[r].step = "renewing"
             /\ replica'[r].left = replica[r].left /\ replica'[r].issuer = replica[r].issuer
    BY Zenon, <1>1, <2>3 DEF Amounts, Amount
  <2> QED
    BY Zenon, <2>1, <2>2, <2>3
<1>4. Amounts'
  BY Zenon, <1>1, <1>3 DEF Amounts, Amount
<1>5. InOrder'
  BY Zenon, <1>1, <1>2, <1>3 DEF InOrder, Serving
<1>6. ASSUME ~lost, NEW q \in Replicas, q # r PROVE ReplicaLasts(q)'
  <2>1. ReplicaLasts(q) /\ Amount(replica[q])
    BY Zenon, <1>1, <1>6 DEF Lasting, Amounts
  <2>2. Serving(q)' = Serving(q) /\ Synced(q)' = Synced(q)
    BY Zenon, <1>2, <1>6 DEF Serving, Synced
  <2>3. replica'[q].left = replica[q].left /\ replica'[q].issuer = replica[q].issuer
    BY Zenon, <1>6
  <2> SUFFICES ASSUME Serving(q)' PROVE ReplicaLasts(q)'
      BY Zenon DEF ReplicaLasts
  <2>4. /\ Ahead(replica[q].left, delayed, Sooner(LeafLifetime, IssuerRenewBefore + 1), Synced(q))
        /\ Ahead(replica[q].issuer, delayed, IssuerRenewBefore + 1, Synced(q))
    BY Zenon, <2>1, <2>2 DEF ReplicaLasts
  <2>5. /\ Ahead(replica[q].left, delayed', Sooner(LeafLifetime, IssuerRenewBefore + 1), Synced(q))
        /\ Ahead(replica[q].issuer, delayed', IssuerRenewBefore + 1, Synced(q))
    BY Zenon, <1>1, <2>1, <2>4, LifetimeFacts, AheadStays DEF Amount
  <2> QED
    BY Zenon, <2>2, <2>3, <2>5 DEF ReplicaLasts
<1>7. ASSUME ~lost PROVE ReplicaLasts(r)'
  <2> SUFFICES ASSUME Serving(r)' PROVE ReplicaLasts(r)'
      BY Zenon DEF ReplicaLasts
  <2>1. CASE /\ replica'[r].issuer \in Nat /\ replica'[r].issuer > IssuerRenewBefore
             /\ replica'[r].left = Sooner(LeafLifetime, replica'[r].issuer)
    <3>1. /\ replica'[r].left \in Nat
          /\ replica'[r].left >= Sooner(LeafLifetime, IssuerRenewBefore + 1)
      BY ZenonT(60), <2>1, SoonerLasts
    <3>2. replica'[r].issuer >= IssuerRenewBefore + 1
      BY SMTT(60), <2>1, LifetimeFacts
    <3> QED
      BY Zenon, <1>1, <2>1, <3>1, <3>2, LifetimeFacts, AheadAnew DEF ReplicaLasts
  <2>2. CASE /\ replica'[r].root = replica[r].root /\ replica'[r].step = "renewing"
             /\ replica'[r].left = replica[r].left /\ replica'[r].issuer = replica[r].issuer
    <3>1. ReplicaLasts(r) /\ Amount(replica[r]) /\ Serving(r) /\ ~Synced(r)'
      BY Zenon, <1>1, <1>7, <2>2 DEF Lasting, Amounts, Serving, Synced
    <3>2. Synced(r)' = FALSE
      BY Zenon, <3>1 DEF Synced
    <3>3. /\ Ahead(replica[r].left, delayed, Sooner(LeafLifetime, IssuerRenewBefore + 1), Synced(r))
          /\ Ahead(replica[r].issuer, delayed, IssuerRenewBefore + 1, Synced(r))
      BY Zenon, <3>1 DEF ReplicaLasts
    <3>4. /\ Ahead(replica[r].left, delayed', Sooner(LeafLifetime, IssuerRenewBefore + 1), Synced(r))
          /\ Ahead(replica[r].issuer, delayed', IssuerRenewBefore + 1, Synced(r))
      BY ZenonT(60), <1>1, <3>1, <3>3, LifetimeFacts, AheadStays DEF Amount
    <3>5. /\ Ahead(replica[r].left, delayed', Sooner(LeafLifetime, IssuerRenewBefore + 1), FALSE)
          /\ Ahead(replica[r].issuer, delayed', IssuerRenewBefore + 1, FALSE)
      BY Zenon, <3>4 DEF Ahead
    <3> QED
      BY Zenon, <2>2, <3>2, <3>5 DEF ReplicaLasts
  <2> QED
    BY Zenon, <2>1, <2>2 DEF Serving
<1>8. ASSUME ~lost PROVE LeavesLast'
  <2>1. LeavesLast /\ Amount(workload.secret) /\ Amount(workload.files) /\ Amount(workload.process)
    BY Zenon, <1>1, <1>8 DEF Lasting, Amounts
  <2> QED
    BY Zenon, <1>1, <1>2, <2>1, LeavesStay
<1>9. Lasting'
  BY Zenon, <1>6, <1>7, <1>8 DEF Lasting
<1> QED
  BY ZenonT(60), <1>4, <1>5, <1>9 DEF TrustIInv

(* LoadIdentityAuthority: an issuer that needs renewal is not loaded.       *)
LEMMA LoadTrust ==
  ASSUME TrustIInv, NEW r \in Replicas, LoadIdentityAuthority(r)
  PROVE  TrustIInv'
<1>1. /\ IdentityIInv' /\ IdentityType /\ Amounts /\ InOrder /\ Lasting
      /\ UNCHANGED <<authority, roots, workload, due, delayed, lost>>
  BY Zenon, LoadStep DEF TrustIInv, IdentityIInv, LoadIdentityAuthority
<1>2. replica[r].root = 0 /\ Amount(replica[r])
  BY SMTT(60), <1>1 DEF LoadIdentityAuthority, InOrder, Serving, Amounts
<1> DEFINE a == [Down EXCEPT !.step = "renewing"]
           b == Loaded(authority.root, authority.issuer)
           c == [replica[r] EXCEPT !.step = "creating"]
<1>3. /\ a.root = 0 /\ Amount(a)
      /\ c.root = 0 /\ Amount(c)
  BY SMTT(60), <1>1, <1>2 DEF IdentityType, Amount, Down
<1>b. /\ b.step = "serving" /\ b.issuer = authority.issuer
      /\ b.left = Sooner(LeafLifetime, authority.issuer)
  BY ZenonT(60) DEF Loaded, Issue
<1>i. authority.issuer \in Nat /\ (~IssuerNeedsRenewal(authority.issuer) => authority.issuer > IssuerRenewBefore)
  BY SMTT(60), <1>1, LifetimeFacts DEF Amounts, IssuerNeedsRenewal
<1>4. \/ replica' = [replica EXCEPT ![r] = a]
      \/ replica' = [replica EXCEPT ![r] = b] /\ ~IssuerNeedsRenewal(authority.issuer)
      \/ replica' = [replica EXCEPT ![r] = c]
  BY Zenon DEF LoadIdentityAuthority
<1> HIDE DEF a, b, c
<1>5. /\ \A q \in Replicas : q # r => replica'[q] = replica[q]
      /\ \/ replica'[r] = a
         \/ replica'[r] = b /\ ~IssuerNeedsRenewal(authority.issuer)
         \/ replica'[r] = c
  BY Zenon, <1>1, <1>4 DEF IdentityType
<1>6. \/ replica'[r].root = 0 /\ Amount(replica'[r])
      \/ /\ replica'[r].issuer \in Nat /\ replica'[r].issuer > IssuerRenewBefore
         /\ replica'[r].left = Sooner(LeafLifetime, replica'[r].issuer)
         /\ replica'[r].step = "serving"
  BY Zenon, <1>3, <1>b, <1>i, <1>5
<1>7. /\ roots \in Nat /\ authority.issuer \in Nat /\ delayed <= Delays
      /\ ~lost /\ roots > 0 => authority.present
  BY Zenon, <1>1 DEF Amounts, Lasting
<1> QED
  BY ZenonT(60), <1>1, <1>5, <1>6, <1>7, ReplicaTrust

(* NewIdentityAuthority issues from an issuer that has its whole life       *)
(* before it.                                                               *)
LEMMA NewTrust ==
  ASSUME TrustIInv, NEW r \in Replicas, NewAuthority(r)
  PROVE  TrustIInv'
<1>1. /\ IdentityIInv' /\ IdentityType /\ Amounts
      /\ UNCHANGED <<workload, due, delayed, lost>>
      /\ roots' = roots + 1
      /\ authority' = [root |-> roots + 1, issuer |-> IssuerLifetime, present |-> TRUE]
      /\ replica' = Conflicting(r, [replica EXCEPT ![r] = Loaded(roots + 1, IssuerLifetime)])
  BY Zenon, NewStep DEF TrustIInv, IdentityIInv, NewAuthority
<1>2. /\ replica'[r].root = roots + 1 /\ replica'[r].step = "serving" /\ replica'[r].issuer = IssuerLifetime
      /\ replica'[r].left = Sooner(LeafLifetime, replica'[r].issuer)
      /\ \A q \in Replicas : q # r =>
           /\ replica'[q].root = replica[q].root /\ replica'[q].step = replica[q].step
           /\ replica'[q].left = replica[q].left /\ replica'[q].issuer = replica[q].issuer
  <2> DEFINE x == Loaded(roots + 1, IssuerLifetime)
  <2>1. /\ ReplicaRecord(x) /\ x.root = roots + 1 /\ x.step = "serving"
        /\ x.issuer = IssuerLifetime /\ x.left = Sooner(LeafLifetime, IssuerLifetime)
    BY SMTT(60), CertificateFacts DEF ReplicaRecord
  <2>2. replica' = Conflicting(r, [replica EXCEPT ![r] = x])
    BY ZenonT(60), <1>1
  <2> HIDE DEF x
  <2> QED
    BY Zenon, <1>1, <2>1, <2>2, ConflictingFacts
<1>3. roots' \in Nat /\ delayed <= Delays
  BY SMTT(60), <1>1 DEF Amounts
<1>4. /\ authority'.issuer = IssuerLifetime /\ authority'.present
      /\ IssuerLifetime \in Nat /\ IssuerLifetime > IssuerRenewBefore
  BY Zenon, <1>1, LifetimeFacts
<1> QED
  BY Zenon, <1>1, <1>2, <1>3, <1>4, ReplicaTrust

(* sync does not keep an issuer that needs renewal; a refused Create and a  *)
(* restart end the replica.                                                 *)
LEMMA SyncTrust ==
  ASSUME TrustIInv, NEW r \in Replicas, sync(r) \/ CreateConflicts(r) \/ RestartReplica(r)
  PROVE  TrustIInv'
<1>1. /\ IdentityIInv' /\ IdentityType /\ Amounts /\ InOrder /\ Lasting
      /\ UNCHANGED <<authority, roots, workload, lost>>
      /\ due' = due \/ due' = due \ {r}
  BY Zenon, SyncStep DEF TrustIInv, IdentityIInv, sync, CreateConflicts, RestartReplica
<1>2. delayed' \in {delayed, delayed + 1} /\ delayed' <= Delays
  BY SMTT(60), <1>1, LifetimeFacts DEF Amounts, sync, CreateConflicts, RestartReplica
<1> DEFINE a == [replica[r] EXCEPT !.step = "renewing"]
           b == Loaded(authority.root, authority.issuer)
<1>3. /\ a.root = replica[r].root /\ a.step = "renewing"
      /\ a.left = replica[r].left /\ a.issuer = replica[r].issuer
      /\ Down.root = 0 /\ Amount(Down)
  BY SMTT(60), <1>1 DEF IdentityType, Amount, Down
<1>b. /\ b.step = "serving" /\ b.issuer = authority.issuer
      /\ b.left = Sooner(LeafLifetime, authority.issuer)
  BY Zenon DEF Loaded, Issue
<1>i. authority.issuer \in Nat /\ (~IssuerNeedsRenewal(authority.issuer) => authority.issuer > IssuerRenewBefore)
  BY SMTT(60), <1>1, LifetimeFacts DEF Amounts, IssuerNeedsRenewal
<1>4. \/ replica' = [replica EXCEPT ![r] = a]
      \/ replica' = [replica EXCEPT ![r] = b] /\ ~IssuerNeedsRenewal(authority.issuer)
      \/ replica' = [replica EXCEPT ![r] = Down]
  BY Zenon DEF sync, CreateConflicts, RestartReplica
<1> HIDE DEF a, b
<1>5. /\ \A q \in Replicas : q # r => replica'[q] = replica[q]
      /\ \/ replica'[r] = a
         \/ replica'[r] = b /\ ~IssuerNeedsRenewal(authority.issuer)
         \/ replica'[r] = Down
  BY Zenon, <1>1, <1>4 DEF IdentityType
<1>6. \/ replica'[r].root = 0 /\ Amount(replica'[r])
      \/ /\ replica'[r].issuer \in Nat /\ replica'[r].issuer > IssuerRenewBefore
         /\ replica'[r].left = Sooner(LeafLifetime, replica'[r].issuer)
         /\ replica'[r].step = "serving"
      \/ /\ replica'[r].root = replica[r].root /\ replica'[r].step = "renewing"
         /\ replica'[r].left = replica[r].left /\ replica'[r].issuer = replica[r].issuer
  BY Zenon, <1>3, <1>b, <1>i, <1>5
<1>7. /\ roots \in Nat /\ authority.issuer \in Nat
      /\ ~lost /\ roots > 0 => authority.present
  BY Zenon, <1>1 DEF Amounts, Lasting
<1> QED
  BY Zenon, <1>1, <1>2, <1>5, <1>6, <1>7, ReplicaTrust

(* RenewIssuer loads what it or another has renewed, or tries again.        *)
LEMMA RenewTrust ==
  ASSUME TrustIInv, NEW r \in Replicas, RenewIssuer(r)
  PROVE  TrustIInv'
<1>1. /\ IdentityIInv' /\ IdentityType /\ Amounts /\ Lasting
      /\ replica[r].step = "renewing"
      /\ UNCHANGED <<roots, workload, due, delayed, lost>>
  BY Zenon, RenewStep DEF TrustIInv, IdentityIInv, RenewIssuer
<1>2. /\ roots \in Nat /\ authority.issuer \in Nat /\ delayed <= Delays
      /\ ~lost /\ roots > 0 => authority.present
  BY Zenon, <1>1 DEF Amounts, Lasting
<1>3. CASE replica[r].conflict \/ ~authority.present
  <2> DEFINE a == [replica[r] EXCEPT !.conflict = FALSE]
             b == Loaded(authority.root, authority.issuer)
  <2>1. /\ a.root = replica[r].root /\ a.step = "renewing"
        /\ a.left = replica[r].left /\ a.issuer = replica[r].issuer
        /\ Down.root = 0 /\ Amount(Down)
    BY SMTT(60), <1>1 DEF IdentityType, Amount, Down
  <2>b. /\ b.step = "serving" /\ b.issuer = authority.issuer
        /\ b.left = Sooner(LeafLifetime, authority.issuer)
    BY Zenon DEF Loaded, Issue
  <2>i. authority.issuer \in Nat /\ (~IssuerNeedsRenewal(authority.issuer) => authority.issuer > IssuerRenewBefore)
    BY SMTT(60), <1>2, LifetimeFacts DEF IssuerNeedsRenewal
  <2>2. /\ UNCHANGED authority
        /\ \/ replica' = [replica EXCEPT ![r] = a]
           \/ replica' = [replica EXCEPT ![r] = b] /\ ~IssuerNeedsRenewal(authority.issuer)
           \/ replica' = [replica EXCEPT ![r] = Down]
    BY Zenon, <1>3 DEF RenewIssuer
  <2> HIDE DEF a, b
  <2>3. /\ \A q \in Replicas : q # r => replica'[q] = replica[q]
        /\ \/ replica'[r] = a
           \/ replica'[r] = b /\ ~IssuerNeedsRenewal(authority.issuer)
           \/ replica'[r] = Down
    BY Zenon, <1>1, <2>2 DEF IdentityType
  <2>4. \/ replica'[r].root = 0 /\ Amount(replica'[r])
        \/ /\ replica'[r].issuer \in Nat /\ replica'[r].issuer > IssuerRenewBefore
           /\ replica'[r].left = Sooner(LeafLifetime, replica'[r].issuer)
           /\ replica'[r].step = "serving"
        \/ /\ replica'[r].root = replica[r].root /\ replica'[r].step = "renewing"
           /\ replica'[r].left = replica[r].left /\ replica'[r].issuer = replica[r].issuer
    BY Zenon, <2>1, <2>b, <2>i, <2>3
  <2> QED
    BY ZenonT(60), <1>1, <1>2, <2>2, <2>3, <2>4, ReplicaTrust
<1>4. CASE ~(replica[r].conflict \/ ~authority.present)
  <2>1. /\ authority' = [authority EXCEPT !.issuer = IssuerLifetime]
        /\ replica' = Conflicting(r, [replica EXCEPT ![r] = Loaded(authority.root, IssuerLifetime)])
    BY Zenon, <1>4 DEF RenewIssuer
  <2>2. /\ authority'.issuer = IssuerLifetime /\ authority'.present
        /\ IssuerLifetime \in Nat /\ IssuerLifetime > IssuerRenewBefore
    BY Zenon, <1>1, <1>4, <2>1, LifetimeFacts DEF IdentityType
  <2>3. /\ replica'[r].root = authority.root /\ replica'[r].step = "serving" /\ replica'[r].issuer = IssuerLifetime
        /\ replica'[r].left = Sooner(LeafLifetime, replica'[r].issuer)
        /\ \A q \in Replicas : q # r =>
             /\ replica'[q].root = replica[q].root /\ replica'[q].step = replica[q].step
             /\ replica'[q].left = replica[q].left /\ replica'[q].issuer = replica[q].issuer
    <3> DEFINE x == Loaded(authority.root, IssuerLifetime)
    <3>1. /\ ReplicaRecord(x) /\ x.root = authority.root /\ x.step = "serving"
          /\ x.issuer = IssuerLifetime /\ x.left = Sooner(LeafLifetime, IssuerLifetime)
      BY SMTT(60), CertificateFacts DEF ReplicaRecord
    <3>2. replica' = Conflicting(r, [replica EXCEPT ![r] = x])
      BY Zenon, <2>1
    <3> HIDE DEF x
    <3> QED
      BY ZenonT(60), <1>1, <3>1, <3>2, ConflictingFacts
  <2> QED
    BY ZenonT(60), <1>1, <1>2, <2>2, <2>3, ReplicaTrust
<1> QED
  BY Zenon, <1>3, <1>4

(* The component's steps: the Secret is renewed within its window, the      *)
(* files are a tick behind it at most and the process two, and a valid      *)
(* file is always there for the process to take.                            *)
LEMMA WorkloadTrust ==
  ASSUME TrustIInv,
         \/ AddComponent \/ ProjectSecret \/ RefreshCertificate
         \/ \E r \in Replicas : reconcileCertificateSecret(r)
  PROVE  TrustIInv'
<1>1. /\ IdentityIInv' /\ IdentityType /\ Amounts /\ InOrder /\ Lasting
      /\ UNCHANGED <<authority, roots, replica, delayed, lost>>
      /\ DOMAIN workload = {"exists", "secret", "files", "process"}
  BY Zenon, WorkloadStep DEF TrustIInv, IdentityIInv, IdentityType,
     AddComponent, ProjectSecret, RefreshCertificate, reconcileCertificateSecret
<1>2. /\ delayed \in Nat /\ delayed <= Delays
      /\ Amount(workload.secret) /\ Amount(workload.files) /\ Amount(workload.process)
      /\ \A r \in Replicas : Amount(replica[r])
  BY Zenon, <1>1 DEF Amounts
<1>3. ASSUME NEW x \in Work, due' \in {due \cup {x}, due \ {x}}
      PROVE  \A r \in Replicas : (r \in due' <=> r \in due) /\ ReplicaLasts(r)' = ReplicaLasts(r)
  <2>1. \A r \in Replicas : r \in due' <=> r \in due
    BY Zenon, <1>3, RenewalWindows
  <2> QED
    BY Zenon, <1>1, <2>1 DEF ReplicaLasts, Serving, Synced
<1>4. CASE AddComponent
  <2>1. /\ workload' = [workload EXCEPT !.exists = TRUE] /\ due' = due \cup {"component"}
        /\ ~workload.exists
    BY Zenon, <1>4 DEF AddComponent
  <2>2. /\ workload'.secret = workload.secret /\ workload'.files = workload.files
        /\ workload'.process = workload.process /\ workload'.exists
        /\ workload.secret.root = 0 /\ workload.files.root = 0 /\ workload.process.root = 0
    BY Zenon, <1>1, <2>1 DEF InOrder
  <2>3. Amounts' /\ InOrder'
    BY ZenonT(60), <1>1, <2>1, <2>2 DEF Amounts, InOrder, Serving
  <2>4. LeavesLast' /\ \A r \in Replicas : ReplicaLasts(r)' = ReplicaLasts(r)
    BY Zenon, <1>3, <2>1, <2>2 DEF LeavesLast, LeafLasts, Work
  <2> QED
    BY Zenon, <1>1, <2>3, <2>4 DEF TrustIInv, Lasting
<1>5. CASE ProjectSecret
  <2>1. /\ workload' = [workload EXCEPT !.files = workload.secret] /\ due' = due \ {"project"}
        /\ "project" \in due /\ workload.secret # NoLeaf
    BY Zenon, <1>5 DEF ProjectSecret
  <2>2. /\ workload'.secret = workload.secret /\ workload'.files = workload.secret
        /\ workload'.process = workload.process /\ workload'.exists = workload.exists
    BY Zenon, <1>1, <2>1
  <2>3. Amounts' /\ InOrder'
    BY ZenonT(60), <1>1, <1>2, <2>1, <2>2 DEF Amounts, InOrder, Serving
  <2>4. ASSUME ~lost PROVE LeavesLast'
    <3>1. /\ LeavesLast /\ ("component" \in due' <=> "component" \in due)
          /\ ("refresh" \in due' <=> "refresh" \in due)
      BY ZenonT(60), <1>1, <2>1, <2>4 DEF Lasting
    <3> QED
      BY SMTT(60), <1>1, <1>2, <2>2, <3>1, LifetimeFacts DEF LeavesLast, LeafLasts, Ahead, Amount
  <2>5. \A r \in Replicas : ReplicaLasts(r)' = ReplicaLasts(r)
    BY Zenon, <1>3, <2>1 DEF Work
  <2> QED
    BY Zenon, <1>1, <2>3, <2>4, <2>5 DEF TrustIInv, Lasting
<1>6. CASE RefreshCertificate
  <2>1. /\ workload' = IF Valid(workload.files) THEN [workload EXCEPT !.process = workload.files] ELSE workload
        /\ due' = due \ {"refresh"} /\ "refresh" \in due
    BY Zenon, <1>6 DEF RefreshCertificate
  <2>2. /\ workload'.secret = workload.secret /\ workload'.files = workload.files
        /\ workload'.exists = workload.exists
        /\ workload'.process = IF Valid(workload.files) THEN workload.files ELSE workload.process
    BY Zenon, <1>1, <2>1
  <2>3. Amounts'
    BY ZenonT(60), <1>1, <1>2, <2>2 DEF Amounts
  <2>4. Valid(workload.files) => workload.files.root # 0
    BY Zenon, <1>1, NoLeafInvalid DEF InOrder
  <2>5. InOrder'
    BY ZenonT(60), <1>1, <2>1, <2>2, <2>4 DEF InOrder, Serving
  <2>6. ASSUME ~lost PROVE LeavesLast'
    <3>1. /\ LeavesLast /\ ("component" \in due' <=> "component" \in due)
          /\ ("project" \in due' <=> "project" \in due)
          /\ workload.process.root # 0 => workload.files.root # 0
      BY SMTT(60), <1>1, <2>1, <2>6 DEF Lasting, InOrder
    <3>2. workload.files.root # 0 => Valid(workload.files)
      BY SMTT(60), <1>2, <3>1, LifetimeFacts DEF LeavesLast, LeafLasts, Ahead, Amount, Valid
    <3> QED
      BY SMTT(60), <1>1, <1>2, <2>2, <3>1, <3>2, LifetimeFacts DEF LeavesLast, LeafLasts, Ahead, Amount
  <2>7. \A r \in Replicas : ReplicaLasts(r)' = ReplicaLasts(r)
    BY Zenon, <1>3, <2>1 DEF Work
  <2> QED
    BY Zenon, <1>1, <2>3, <2>5, <2>6, <2>7 DEF TrustIInv, Lasting
<1>7. ASSUME NEW r \in Replicas, reconcileCertificateSecret(r) PROVE TrustIInv'
  <2> DEFINE l == Issue(replica[r].root, replica[r].issuer)
  <2>1. /\ "component" \in due /\ due' = due \ {"component"} /\ replica[r].root # 0
        /\ \/ /\ workload' = workload /\ ~RenewalReached(workload.secret) /\ Valid(workload.secret)
              /\ workload.secret.root = replica[r].root
           \/ workload' = [workload EXCEPT !.secret = l]
    BY Zenon, <1>7 DEF reconcileCertificateSecret, Serving, ValidateLeaf
  <2>2. /\ l.root # 0 /\ Amount(l) /\ l.left <= l.issuer
        /\ l.left = Sooner(LeafLifetime, replica[r].issuer)
    BY SMTT(60), <1>2, <2>1, LifetimeFacts DEF Issue, Amount, Sooner
  <2> HIDE DEF l
  <2>3. /\ workload'.files = workload.files /\ workload'.process = workload.process
        /\ workload'.exists = workload.exists /\ workload'.secret.root # 0
        /\ \/ workload'.secret = workload.secret /\ ~RenewalReached(workload.secret)
           \/ workload'.secret = l
    BY Zenon, <1>1, <2>1, <2>2
  <2>4. Amounts'
    BY Zenon, <1>1, <1>2, <2>2, <2>3 DEF Amounts
  <2>5. InOrder'
    BY ZenonT(60), <1>1, <2>1, <2>3 DEF InOrder, Serving, Work
  <2>6. ASSUME ~lost PROVE LeavesLast'
    <3>1. /\ LeavesLast /\ ("project" \in due' <=> "project" \in due)
          /\ ("refresh" \in due' <=> "refresh" \in due)
          /\ ReplicaLasts(r)
      BY ZenonT(60), <1>1, <2>1, <2>6 DEF Lasting
    <3>2. workload'.secret.left + delayed >= Shortest /\ workload'.secret.left <= workload'.secret.issuer
      <4>1. CASE workload'.secret = workload.secret /\ ~RenewalReached(workload.secret)
        BY SMTT(60), <1>2, <2>1, <2>3, <3>1, <4>1, LifetimeFacts DEF RenewalReached, LeavesLast, LeafLasts, Amount
      <4>2. CASE workload'.secret = l
        BY SMTT(60), <1>2, <2>1, <2>2, <3>1, <4>2, LifetimeFacts DEF ReplicaLasts, Serving, Ahead, Amount, Sooner
      <4> QED
        BY Zenon, <2>3, <4>1, <4>2
    <3>3. Amount(workload'.secret)
      BY ZenonT(60), <1>2, <2>2, <2>3
    <3>4. LeafLasts(workload.secret, Shortest, "component" \notin due)'
      BY SMTT(60), <1>1, <1>2, <3>2, <3>3, LifetimeFacts DEF LeafLasts, Ahead, Amount
    <3>5. /\ LeafLasts(workload.files, Shortest - 1, "project" \notin due)'
          /\ LeafLasts(workload.process, Shortest - 2, "refresh" \notin due)'
      BY Zenon, <1>1, <2>3, <3>1 DEF LeavesLast, LeafLasts
    <3> QED
      BY Zenon, <3>4, <3>5 DEF LeavesLast
  <2>7. \A q \in Replicas : ReplicaLasts(q)' = ReplicaLasts(q)
    BY Zenon, <1>3, <2>1 DEF Work
  <2> QED
    BY Zenon, <1>1, <2>4, <2>5, <2>6, <2>7 DEF TrustIInv, Lasting
<1> QED
  BY Zenon, <1>4, <1>5, <1>6, <1>7

(* A hold-up is counted, and the loss of the CA Secret ends what is         *)
(* promised of lifetimes.                                                   *)
LEMMA LossTrust ==
  ASSUME TrustIInv, LoseAuthority \/ RestoreAuthority \/ \E w \in due : HoldUp(w)
  PROVE  TrustIInv'
<1>1. /\ IdentityIInv' /\ IdentityType /\ Amounts /\ InOrder /\ Lasting
      /\ UNCHANGED <<roots, replica, workload>>
  BY Zenon, LossStep DEF TrustIInv, IdentityIInv, LoseAuthority, RestoreAuthority, HoldUp
<1>2. CASE LoseAuthority \/ RestoreAuthority
  <2>1. /\ UNCHANGED <<due, delayed>> /\ authority'.issuer = authority.issuer
        /\ lost' \/ (lost' = lost /\ authority'.present)
    BY Zenon, <1>1, <1>2 DEF LoseAuthority, RestoreAuthority, IdentityType
  <2>2. Amounts' /\ InOrder'
    BY Zenon, <1>1, <2>1 DEF Amounts, InOrder, Serving
  <2>3. Lasting'
    BY Zenon, <1>1, <2>1 DEF Lasting, ReplicaLasts, LeavesLast, LeafLasts, Serving, Synced
  <2> QED
    BY Zenon, <1>1, <2>2, <2>3 DEF TrustIInv
<1>3. ASSUME NEW w \in due, HoldUp(w) PROVE TrustIInv'
  <2>1. /\ UNCHANGED <<authority, lost>> /\ due' = due \ {w}
        /\ delayed' = delayed + 1 /\ delayed \in Nat /\ delayed' \in Nat /\ delayed' <= Delays
    BY SMTT(60), <1>1, <1>3, LifetimeFacts DEF HoldUp, Amounts
  <2>2. Amounts' /\ InOrder'
    BY Zenon, <1>1, <2>1 DEF Amounts, InOrder, Serving
  <2>3. ASSUME ~lost, NEW r \in Replicas PROVE ReplicaLasts(r)'
    <3>1. ReplicaLasts(r) /\ Amount(replica[r]) /\ Serving(r)' = Serving(r)
      BY ZenonT(60), <1>1, <2>3 DEF Lasting, Amounts, Serving
    <3> QED
      BY Zenon, <1>1, <2>1, <3>1, LifetimeFacts, AheadHeldUp DEF ReplicaLasts, Amount
  <2>4. ASSUME ~lost PROVE LeavesLast'
    <3>1. LeavesLast /\ Amount(workload.secret) /\ Amount(workload.files) /\ Amount(workload.process)
      BY Zenon, <1>1, <2>4 DEF Lasting, Amounts
    <3> QED
      BY SMTT(60), <1>1, <2>1, <3>1, LifetimeFacts DEF LeavesLast, LeafLasts, Ahead, Amount
  <2> QED
    BY ZenonT(60), <1>1, <2>1, <2>2, <2>3, <2>4 DEF TrustIInv, Lasting
<1> QED
  BY Zenon, <1>2, <1>3

(* A tick ends when its work is done or held up, so that everything in use  *)
(* had the whole of its window before it.                                   *)
LEMMA TickTrust ==
  ASSUME TrustIInv, IdentityTick
  PROVE  TrustIInv'
<1>1. /\ IdentityIInv' /\ IdentityType /\ Amounts /\ InOrder /\ Lasting
      /\ roots > 0 /\ ~Undone /\ UNCHANGED <<roots, delayed, lost>>
  BY Zenon, IdentityTickStep DEF TrustIInv, IdentityIInv, IdentityTick
<1>2. /\ authority'.issuer = Down1(authority.issuer) /\ authority'.present = authority.present
      /\ \A r \in Replicas :
           /\ replica'[r].root = replica[r].root /\ replica'[r].step = replica[r].step
           /\ replica'[r].left = Down1(replica[r].left) /\ replica'[r].issuer = Down1(replica[r].issuer)
  BY ZenonT(60), <1>1 DEF IdentityTick, IdentityType
<1>3. /\ workload'.exists = workload.exists
      /\ workload'.secret = AgedLeaf(workload.secret)
      /\ workload'.files = AgedLeaf(workload.files)
      /\ workload'.process = AgedLeaf(workload.process)
  BY Zenon, <1>1 DEF IdentityTick, IdentityType
<1>4. /\ \A w \in Work : w \in due' <=> workload.exists
      /\ \A r \in Replicas : replica[r].step = "serving" => r \in due'
  BY ZenonT(60), RenewalWindows DEF IdentityTick
<1>5. /\ delayed \in Nat /\ \A n \in Nat : Down1(n) \in Nat /\ Down1(n) >= n - 1
  BY SMTT(60), <1>1 DEF Amounts, Down1
<1>6. ASSUME NEW l, Leaf(l), Amount(l)
      PROVE  /\ AgedLeaf(l).root = l.root /\ Amount(AgedLeaf(l))
             /\ AgedLeaf(l).left = Down1(l.left) /\ AgedLeaf(l).issuer = Down1(l.issuer)
             /\ l = NoLeaf => AgedLeaf(l) = NoLeaf
  <2>1. /\ AgedLeaf(l).root = l.root
        /\ AgedLeaf(l).left = Down1(l.left) /\ AgedLeaf(l).issuer = Down1(l.issuer)
    BY Zenon, <1>6 DEF AgedLeaf, Leaf
  <2>2. AgedLeaf(NoLeaf) = NoLeaf
    <3>1. Down1(0) = 0
      BY DEF Down1
    <3> DEFINE a == [NoLeaf EXCEPT !.left = 0, !.issuer = 0]
    <3>2. NoLeaf.left = 0 /\ NoLeaf.issuer = 0 /\ NoLeaf.root = 0 /\ NoLeaf \in [root : Nat, left : Nat, issuer : Nat]
      BY DEF NoLeaf
    <3>3. a \in [root : Nat, left : Nat, issuer : Nat] /\ a.left = 0 /\ a.issuer = 0 /\ a.root = 0
      BY ZenonT(60), <3>2
    <3>4. AgedLeaf(NoLeaf) = a
      BY Zenon, <3>1, <3>2 DEF AgedLeaf
    <3> HIDE DEF a
    <3> QED
      BY SMTT(60), <3>2, <3>3, <3>4
  <2> QED
    BY Zenon, <1>5, <1>6, <2>1, <2>2 DEF Amount
<1>7. /\ Leaf(workload.secret) /\ Leaf(workload.files) /\ Leaf(workload.process)
      /\ Amount(workload.secret) /\ Amount(workload.files) /\ Amount(workload.process)
      /\ \A r \in Replicas : Amount(replica[r])
  BY Zenon, <1>1 DEF IdentityType, Amounts
<1>8. Amounts'
  BY Zenon, <1>1, <1>2, <1>3, <1>5, <1>6, <1>7 DEF Amounts, Amount
<1>9. InOrder'
  <2>1. \A l \in {workload.secret, workload.files, workload.process} :
          AgedLeaf(l).root = l.root /\ (l = NoLeaf => AgedLeaf(l) = NoLeaf)
    BY Zenon, <1>6, <1>7
  <2>2. /\ workload'.secret.root = workload.secret.root
        /\ workload'.files.root = workload.files.root
        /\ workload'.process.root = workload.process.root
    BY ZenonT(60), <1>3, <2>1
  <2>3. \A l \in {workload'.secret, workload'.files, workload'.process} : l.root = 0 => l = NoLeaf
    <3>1. \A k \in {workload.secret, workload.files, workload.process} :
            AgedLeaf(k).root = 0 => AgedLeaf(k) = NoLeaf
      BY Zenon, <1>1, <2>1 DEF InOrder
    <3>2. /\ AgedLeaf(workload.secret).root = 0 => AgedLeaf(workload.secret) = NoLeaf
          /\ AgedLeaf(workload.files).root = 0 => AgedLeaf(workload.files) = NoLeaf
          /\ AgedLeaf(workload.process).root = 0 => AgedLeaf(workload.process) = NoLeaf
      BY Zenon, <3>1
    <3> QED
      BY SMTT(60), <1>3, <3>2
  <2>4. \A r \in Replicas : Serving(r)' => replica'[r].step \in {"serving", "renewing"}
    BY Zenon, <1>1, <1>2 DEF InOrder, Serving
  <2> QED
    BY Zenon, <1>1, <1>3, <1>4, <2>2, <2>3, <2>4 DEF InOrder
<1>10. ASSUME ~lost, NEW r \in Replicas PROVE ReplicaLasts(r)'
  <2> SUFFICES ASSUME Serving(r)' PROVE ReplicaLasts(r)'
      BY Zenon DEF ReplicaLasts
  <2>1. Serving(r) /\ Synced(r) /\ ReplicaLasts(r) /\ Amount(replica[r])
    BY ZenonT(60), <1>1, <1>2, <1>7, <1>10 DEF Serving, Synced, Lasting, Undone
  <2>2. ~Synced(r)'
    BY Zenon, <1>1, <1>2, <1>4, <2>1 DEF InOrder, Synced
  <2>3. /\ replica'[r].left \in Nat /\ replica'[r].left >= replica[r].left - 1
        /\ replica'[r].issuer \in Nat /\ replica'[r].issuer >= replica[r].issuer - 1
    BY Zenon, <1>2, <1>5, <2>1 DEF Amount
  <2>4. Synced(r) = TRUE /\ Synced(r)' = FALSE
    BY Zenon, <2>1, <2>2 DEF Synced
  <2>5. /\ Ahead(replica[r].left, delayed, Sooner(LeafLifetime, IssuerRenewBefore + 1), TRUE)
        /\ Ahead(replica[r].issuer, delayed, IssuerRenewBefore + 1, TRUE)
    BY Zenon, <2>1, <2>4 DEF ReplicaLasts
  <2>6. /\ Ahead(replica'[r].left, delayed, Sooner(LeafLifetime, IssuerRenewBefore + 1), FALSE)
        /\ Ahead(replica'[r].issuer, delayed, IssuerRenewBefore + 1, FALSE)
    BY Zenon, <1>5, <2>1, <2>3, <2>5, LifetimeFacts, AheadTicks DEF Amount
  <2> QED
    BY Zenon, <1>1, <2>4, <2>6 DEF ReplicaLasts
<1>11. ASSUME ~lost PROVE LeavesLast'
  <2>1. /\ "component" \notin due /\ (workload.secret.root # 0 => "project" \notin due)
        /\ "refresh" \notin due /\ LeavesLast
    <3>1. NoLeaf.root = 0
      BY DEF NoLeaf
    <3> QED
      BY ZenonT(60), <1>1, <1>11, <3>1 DEF Lasting, Undone
  <2>2. workload.secret.root # 0 => {"component", "project", "refresh"} \subseteq due'
    BY ZenonT(60), <1>1, <1>4 DEF InOrder, Work
  <2>3. /\ workload.files.root # 0 => workload.secret.root # 0
        /\ workload.process.root # 0 => workload.files.root # 0
    BY ZenonT(60), <1>1 DEF InOrder
  <2>4. ASSUME NEW l, Leaf(l), Amount(l), NEW least \in Int,
               l.root # 0 => l.left <= l.issuer /\ l.left + delayed >= least
        PROVE  AgedLeaf(l).root # 0 =>
                 AgedLeaf(l).left <= AgedLeaf(l).issuer /\ AgedLeaf(l).left + delayed >= least - 1
    BY SMTT(60), <1>1, <1>6, <2>4 DEF Amounts, Amount, Down1
  <2>5. /\ workload.secret.root # 0 =>
             workload.secret.left <= workload.secret.issuer /\ workload.secret.left + delayed >= Shortest
        /\ workload.files.root # 0 =>
             workload.files.left <= workload.files.issuer /\ workload.files.left + delayed >= Shortest - 1
        /\ workload.process.root # 0 =>
             workload.process.left <= workload.process.issuer /\ workload.process.left + delayed >= Shortest - 2
    BY Zenon, <2>1, <2>3 DEF LeavesLast, LeafLasts, Ahead
  <2>6. Shortest \in Int /\ Shortest - 1 \in Int /\ Shortest - 2 \in Int
    BY SMTT(60), LifetimeFacts
  <2>7. /\ AgedLeaf(workload.secret).root = workload.secret.root
        /\ AgedLeaf(workload.files).root = workload.files.root
        /\ AgedLeaf(workload.process).root = workload.process.root
    BY ZenonT(60), <1>6, <1>7
  <2>8. LeafLasts(workload.secret, Shortest, "component" \notin due)'
    <3>1. workload'.secret.root # 0 => /\ workload'.secret.left <= workload'.secret.issuer
                                       /\ workload'.secret.left + delayed >= Shortest - 1
                                       /\ "component" \in due'
      BY ZenonT(60), <1>3, <1>7, <2>2, <2>4, <2>5, <2>6, <2>7
    <3> QED
      BY SMTT(60), <1>1, <3>1 DEF LeafLasts, Ahead
  <2>9. LeafLasts(workload.files, Shortest - 1, "project" \notin due)'
    <3>1. workload'.files.root # 0 => /\ workload'.files.left <= workload'.files.issuer
                                      /\ workload'.files.left + delayed >= (Shortest - 1) - 1
                                      /\ "project" \in due'
      BY ZenonT(60), <1>3, <1>7, <2>2, <2>3, <2>4, <2>5, <2>6, <2>7
    <3> QED
      BY SMTT(60), <1>1, <3>1 DEF LeafLasts, Ahead
  <2>10. LeafLasts(workload.process, Shortest - 2, "refresh" \notin due)'
    <3>1. workload'.process.root # 0 => /\ workload'.process.left <= workload'.process.issuer
                                        /\ workload'.process.left + delayed >= (Shortest - 2) - 1
                                        /\ "refresh" \in due'
      BY ZenonT(60), <1>3, <1>7, <2>2, <2>3, <2>4, <2>5, <2>6, <2>7
    <3> QED
      BY SMTT(60), <1>1, <3>1 DEF LeafLasts, Ahead
  <2> QED
    BY ZenonT(60), <2>8, <2>9, <2>10 DEF LeavesLast
<1>12. ~lost => authority'.present
  BY Zenon, <1>1, <1>2 DEF Lasting
<1> QED
  BY Zenon, <1>1, <1>8, <1>9, <1>10, <1>11, <1>12 DEF TrustIInv, Lasting

(* In every reachable state, while the CA Secret is there, every            *)
(* certificate has the ticks left that the steps and hold-ups still to come *)
(* can take.                                                                *)
THEOREM CertificatesLast == IdentitySpec => []TrustIInv
<1>1. TrustIInv /\ [IdentityNext]_identityVars => TrustIInv'
  <2> SUFFICES ASSUME TrustIInv, [IdentityNext]_identityVars PROVE TrustIInv'
      OBVIOUS
  <2>1. ASSUME NEW r \in Replicas,
               \/ LoadIdentityAuthority(r) \/ NewAuthority(r) \/ CreateConflicts(r)
               \/ sync(r) \/ RenewIssuer(r) \/ RestartReplica(r)
        PROVE  TrustIInv'
    BY Zenon, <2>1, LoadTrust, NewTrust, SyncTrust, RenewTrust
  <2>2. CASE \/ AddComponent \/ ProjectSecret \/ RefreshCertificate
             \/ \E r \in Replicas : reconcileCertificateSecret(r)
    BY Zenon, <2>2, WorkloadTrust
  <2>3. CASE LoseAuthority \/ RestoreAuthority \/ \E w \in due : HoldUp(w)
    BY Zenon, <2>3, LossTrust
  <2>4. CASE IdentityTick
    BY Zenon, <2>4, TickTrust
  <2>5. CASE UNCHANGED identityVars
    <3>1. /\ IdentityIInv' /\ Amounts'
      BY Zenon, <2>5 DEF identityVars, TrustIInv, IdentityIInv, IdentityType, Descends, NoSecondRoot, Amounts
    <3>2. InOrder' /\ Lasting'
      BY Zenon, <2>5 DEF identityVars, TrustIInv, InOrder, Lasting, ReplicaLasts, LeavesLast,
         LeafLasts, Serving, Synced
    <3> QED
      BY Zenon, <3>1, <3>2 DEF TrustIInv
  <2> QED
    BY Zenon, <2>1, <2>2, <2>3, <2>4, <2>5 DEF IdentityNext
<1> QED
  BY <1>1, TrustInitIInv, PTL DEF IdentitySpec

(* TrustHolds, for any number of replicas, any lifetimes with these renewal *)
(* windows and any hold-ups within them: one root is trusted, and while the *)
(* CA Secret is there no certificate in use expires (sync, RenewIssuer,     *)
(* reconcileCertificateSecret, snapshot).                                   *)
THEOREM TrustIsKept == IdentitySpec => []TrustHolds
BY CertificatesLast, LastingIsValid, PTL

-----------------------------------------------------------------------------
(***************************************************************************)
(* The component controller: ComponentIInv.                                *)
(*                                                                         *)
(* The keys of a component survive every overlap of the administrator's    *)
(* saves with the reconciler's passes, for any number of saves, rotations  *)
(* and failures.                                                           *)
(*                                                                         *)
(* The argument is the one optimistic concurrency rests on: every write    *)
(* moves the Secret's version, so a Secret that was read at the version it *)
(* still has is the Secret that is there. What an Update writes back with  *)
(* its own fields is then no older than what the others acknowledged.      *)
(***************************************************************************)
Secrets == [version : Nat, keys : {"none", "admin", "manager"}, proxy : Nat, s3 : Nat]
Passes == [step : {"idle", "get", "create", "update", "workload", "exposure", "status"},
           generation : Nat, managed : BOOLEAN, read : Secrets]
Saves == [step : {"idle", "get", "create", "update", "rotate"}, s3 : Nat, read : Secrets]

ComponentType ==
  /\ spec \in [role : {"none", "gateway", "cache"}, generation : Nat, managed : BOOLEAN]
  /\ secret \in Secrets
  /\ pass \in Passes
  /\ saving \in Saves
  /\ kept \in [keys : {"none", "admin", "manager"}, s3 : Nat]

(* No read is of a later version, and one of the present version is exact.  *)
Exact(read) == read.version <= secret.version /\ (read.version = secret.version => read = secret)

ReadsExact ==
  /\ saving.step \in {"update", "rotate"} => Exact(saving.read)
  /\ pass.step = "update" => Exact(pass.read)

(* A Secret that was never stored is empty.                                 *)
UnsavedEmpty == secret.version = 0 => secret = NoSecret

ComponentIInv == ComponentType /\ ReadsExact /\ UnsavedEmpty /\ KeysKept

(* Nothing is stored, read or acknowledged before the first save.           *)
LEMMA ComponentInitIInv == ComponentInit => ComponentIInv
<1> SUFFICES ASSUME ComponentInit PROVE ComponentIInv
    OBVIOUS
<1>1. NoSecret \in Secrets
  BY Zenon DEF NoSecret, Secrets
<1>2. ComponentType
  BY Zenon, <1>1 DEF ComponentInit, ComponentType, Waiting, Quiet, Passes, Saves
<1>3. ReadsExact /\ UnsavedEmpty /\ KeysKept
  BY Zenon DEF ComponentInit, ReadsExact, UnsavedEmpty, KeysKept, Waiting, Quiet, NoSecret
<1> QED
  BY Zenon, <1>2, <1>3 DEF ComponentIInv

(* A step that leaves the Secret and the acknowledgements alone, and reads  *)
(* nothing but the Secret that is there, keeps every read exact.            *)
LEMMA ReadStep ==
  ASSUME ComponentIInv, UNCHANGED <<secret, kept>>,
         spec' \in [role : {"none", "gateway", "cache"}, generation : Nat, managed : BOOLEAN],
         pass' \in Passes, saving' \in Saves,
         saving'.step \in {"update", "rotate"} => saving' = saving \/ saving'.read = secret,
         pass'.step = "update" => pass' = pass \/ pass'.read = secret
  PROVE  ComponentIInv'
<1>1. ComponentType'
  BY Zenon DEF ComponentIInv, ComponentType
<1>2. secret.version \in Nat
  BY Zenon DEF ComponentIInv, ComponentType, Secrets
<1>3. ReadsExact'
  BY <1>2 DEF ComponentIInv, ReadsExact, Exact
<1>4. UnsavedEmpty' /\ KeysKept'
  BY Zenon DEF ComponentIInv, UnsavedEmpty, KeysKept
<1> QED
  BY Zenon, <1>1, <1>3, <1>4 DEF ComponentIInv

(* A write moves the version, which makes every read before it stale.       *)
LEMMA WriteStep ==
  ASSUME ComponentIInv, UNCHANGED spec,
         secret' \in Secrets, secret'.version = secret.version + 1,
         secret'.keys = kept'.keys, secret'.s3 = kept'.s3,
         kept' \in [keys : {"none", "admin", "manager"}, s3 : Nat],
         pass' \in Passes, saving' \in Saves,
         saving'.step \in {"update", "rotate"} => saving' = saving,
         pass'.step = "update" => pass' = pass
  PROVE  ComponentIInv'
<1>1. ComponentType'
  BY Zenon DEF ComponentIInv, ComponentType
<1>2. secret.version \in Nat /\ saving.read.version \in Nat /\ pass.read.version \in Nat
  BY ZenonT(60) DEF ComponentIInv, ComponentType, Secrets, Saves, Passes
<1>3. ReadsExact'
  BY SMTT(60), <1>2 DEF ComponentIInv, ReadsExact, Exact
<1>4. UnsavedEmpty' /\ KeysKept'
  BY <1>2 DEF UnsavedEmpty, KeysKept
<1> QED
  BY Zenon, <1>1, <1>3, <1>4 DEF ComponentIInv

(* What the records of a call and of a pass can become.                     *)
LEMMA RecordFacts ==
  ASSUME ComponentType
  PROVE  /\ NoSecret \in Secrets /\ Quiet \in Saves /\ Quiet.step = "idle"
         /\ Waiting \in Passes /\ Waiting.step = "idle"
         /\ pass \in Passes /\ saving \in Saves /\ secret \in Secrets
<1>1. NoSecret \in Secrets
  BY Zenon DEF NoSecret, Secrets
<1> QED
  BY Zenon, <1>1 DEF ComponentType, Quiet, Waiting, Saves, Passes

(* saveComponent starts a call; the component's Secret is not touched yet.  *)
LEMMA SaveStep ==
  ASSUME ComponentIInv, SaveComponent
  PROVE  ComponentIInv'
<1>1. ComponentType /\ spec.generation \in Nat
  BY Zenon DEF ComponentIInv, ComponentType
<1>2. PICK role \in {"gateway", "cache"}, managed \in BOOLEAN, keys \in BOOLEAN :
        /\ spec' = [role |-> role, generation |-> spec.generation + 1, managed |-> managed]
        /\ saving' = IF role = "cache"
                     THEN [step |-> "get", s3 |-> IF keys THEN spec.generation + 1 ELSE 0,
                           read |-> NoSecret]
                     ELSE Quiet
  BY ZenonT(60) DEF SaveComponent
<1>3. spec' \in [role : {"none", "gateway", "cache"}, generation : Nat, managed : BOOLEAN]
  BY SMTT(60), <1>1, <1>2
<1>4. saving' \in Saves /\ saving'.step \in {"get", "idle"}
  BY SMTT(60), <1>1, <1>2, RecordFacts DEF Saves
<1>5. UNCHANGED <<secret, kept, pass>>
  BY Zenon DEF SaveComponent
<1> QED
  BY ZenonT(60), <1>1, <1>3, <1>4, <1>5, RecordFacts, ReadStep

(* The steps that read, give up or end touch no Secret.                     *)
LEMMA QuietStep ==
  ASSUME ComponentIInv,
         \/ GetCacheSecret \/ GetHostKey \/ SaveFails
         \/ ReadComponent \/ GetCredential \/ PassFails
         \/ reconcileDeployment \/ reconcileGatewayExposure \/ WriteStatus
  PROVE  ComponentIInv'
<1>1. ComponentType
  BY Zenon DEF ComponentIInv
<1>2. UNCHANGED <<spec, secret, kept>>
  BY Zenon DEF GetCacheSecret, GetHostKey, SaveFails, ReadComponent, GetCredential, PassFails,
         reconcileDeployment, reconcileGatewayExposure, WriteStatus
<1>3. /\ saving' \in Saves
      /\ (saving'.step \in {"update", "rotate"} => saving' = saving \/ saving'.read = secret)
  <2>1. CASE GetCacheSecret
    BY ZenonT(60), <1>1, <2>1, RecordFacts DEF GetCacheSecret, Saves
  <2>2. CASE GetHostKey
    BY ZenonT(60), <1>1, <2>2, RecordFacts DEF GetHostKey, Saves
  <2>3. CASE SaveFails
    BY ZenonT(60), <1>1, <2>3, RecordFacts DEF SaveFails
  <2>4. CASE saving' = saving
    BY Zenon, <1>1, <2>4, RecordFacts
  <2> QED
    BY ZenonT(60), <2>1, <2>2, <2>3, <2>4
    DEF ReadComponent, GetCredential, PassFails, reconcileDeployment, reconcileGatewayExposure,
        WriteStatus
<1>4. pass' \in Passes /\ (pass'.step = "update" => pass' = pass \/ pass'.read = secret)
  <2>1. CASE ReadComponent
    BY Zenon, <1>1, <2>1, RecordFacts DEF ReadComponent, Passes, ComponentType
  <2>2. CASE GetCredential
    BY Zenon, <1>1, <2>2, RecordFacts DEF GetCredential, Passes
  <2>3. CASE PassFails \/ WriteStatus
    BY ZenonT(60), <1>1, <2>3, RecordFacts DEF PassFails, WriteStatus
  <2>4. CASE reconcileDeployment \/ reconcileGatewayExposure
    BY ZenonT(60), <1>1, <2>4, RecordFacts DEF reconcileDeployment, reconcileGatewayExposure, Passes
  <2>5. CASE pass' = pass
    BY Zenon, <1>1, <2>5, RecordFacts
  <2> QED
    BY ZenonT(60), <2>1, <2>2, <2>3, <2>4, <2>5 DEF GetCacheSecret, GetHostKey, SaveFails
<1> QED
  BY ZenonT(60), <1>1, <1>2, <1>3, <1>4, ReadStep DEF ComponentType

(* Storing keeps all fields but the version.                                *)
LEMMA StoredFacts ==
  ASSUME ComponentType, NEW data \in Secrets, secret' = [data EXCEPT !.version = secret.version + 1]
  PROVE  /\ secret' \in Secrets /\ secret'.version = secret.version + 1
         /\ secret'.keys = data.keys /\ secret'.s3 = data.s3
<1>1. secret.version + 1 \in Nat
  BY DEF ComponentType, Secrets
<1> QED
  BY Zenon, <1>1 DEF Secrets

(* saveCacheCredentials writes the administrator's keys over the Secret it  *)
(* read, or creates the Secret, or reads again.                             *)
LEMMA SaveCredentialsStep ==
  ASSUME ComponentIInv, saveCacheCredentials
  PROVE  ComponentIInv'
<1>1. /\ ComponentType /\ spec.generation \in Nat /\ saving.s3 \in Nat
      /\ saving.read \in Secrets /\ saving.read.s3 \in Nat
  BY Zenon DEF ComponentIInv, ComponentType, Saves, Secrets
<1>2. UNCHANGED <<spec, pass>>
  BY Zenon DEF saveCacheCredentials
<1>3. CASE saving.step = "create" /\ Creatable /\ saving' = Quiet
  <2> DEFINE data == [NoSecret EXCEPT !.keys = "admin", !.proxy = spec.generation, !.s3 = saving.s3]
  <2>1. data \in Secrets /\ data.keys = "admin" /\ data.s3 = saving.s3
    BY Zenon, <1>1 DEF NoSecret, Secrets
  <2>2. /\ secret' = [data EXCEPT !.version = secret.version + 1]
        /\ kept' = [keys |-> "admin", s3 |-> saving.s3]
    BY Zenon, <1>3 DEF saveCacheCredentials, Stored, Unmodified
  <2> HIDE DEF data
  <2>3. /\ secret' \in Secrets /\ secret'.version = secret.version + 1
        /\ secret'.keys = "admin" /\ secret'.s3 = saving.s3
    BY ZenonT(60), <1>1, <2>1, <2>2, StoredFacts
  <2>4. /\ kept' \in [keys : {"none", "admin", "manager"}, s3 : Nat]
        /\ kept'.keys = "admin" /\ kept'.s3 = saving.s3
    BY ZenonT(60), <1>1, <2>2
  <2> QED
    BY ZenonT(60), <1>1, <1>2, <1>3, <2>3, <2>4, RecordFacts, WriteStep
<1>4. CASE saving.step = "update" /\ Unmodified(saving.read) /\ saving' = Quiet
  <2> DEFINE data == [saving.read EXCEPT !.proxy = spec.generation, !.s3 = Given(saving.read.s3)]
  <2>1. saving.read = secret /\ secret.keys = kept.keys /\ secret.s3 = kept.s3
    BY Zenon, <1>4 DEF ComponentIInv, ReadsExact, Exact, Unmodified, KeysKept
  <2>2. Given(saving.read.s3) \in Nat
    BY Zenon, <1>1 DEF Given
  <2>3. data \in Secrets /\ data.keys = saving.read.keys /\ data.s3 = Given(saving.read.s3)
    BY Zenon, <1>1, <2>2 DEF Secrets
  <2>4. /\ secret' = [data EXCEPT !.version = secret.version + 1]
        /\ kept' = [kept EXCEPT !.s3 = Given(kept.s3)]
    BY Zenon, <1>4 DEF saveCacheCredentials, Stored
  <2> HIDE DEF data
  <2>5. /\ secret' \in Secrets /\ secret'.version = secret.version + 1
        /\ secret'.keys = kept.keys /\ secret'.s3 = Given(kept.s3)
    BY ZenonT(60), <1>1, <2>1, <2>3, <2>4, StoredFacts
  <2>6. /\ kept' \in [keys : {"none", "admin", "manager"}, s3 : Nat]
        /\ kept'.keys = kept.keys /\ kept'.s3 = Given(kept.s3)
    BY ZenonT(60), <1>1, <2>1, <2>2, <2>4 DEF ComponentType
  <2> QED
    BY ZenonT(60), <1>1, <1>2, <1>4, <2>5, <2>6, RecordFacts, WriteStep
<1>5. CASE UNCHANGED <<secret, kept>> /\ saving' = [saving EXCEPT !.step = "get", !.read = NoSecret]
  <2>1. saving' \in Saves /\ saving'.step = "get"
    BY ZenonT(60), <1>1, <1>5, RecordFacts DEF Saves
  <2> QED
    BY ZenonT(60), <1>1, <1>2, <1>5, <2>1, RecordFacts, ReadStep DEF ComponentType
<1> QED
  BY Zenon, <1>3, <1>4, <1>5 DEF saveCacheCredentials

(* rotateGatewayHostKey writes back the Secret it read with a new host key, *)
(* or gives up.                                                             *)
LEMMA RotateStep ==
  ASSUME ComponentIInv, rotateGatewayHostKey
  PROVE  ComponentIInv'
<1>1. ComponentType /\ saving.read \in Secrets
  BY Zenon DEF ComponentIInv, ComponentType, Saves
<1>2. UNCHANGED <<spec, pass, kept>> /\ saving' = Quiet /\ saving.step = "rotate"
  BY Zenon DEF rotateGatewayHostKey
<1>3. CASE Unmodified(saving.read)
  <2>1. saving.read = secret /\ secret.keys = kept.keys /\ secret.s3 = kept.s3
    BY Zenon, <1>2, <1>3 DEF ComponentIInv, ReadsExact, Exact, Unmodified, KeysKept
  <2>2. secret' = [saving.read EXCEPT !.version = secret.version + 1]
    BY Zenon, <1>3 DEF rotateGatewayHostKey, Stored
  <2>3. /\ secret' \in Secrets /\ secret'.version = secret.version + 1
        /\ secret'.keys = kept.keys /\ secret'.s3 = kept.s3
    BY Zenon, <1>1, <2>1, <2>2, StoredFacts
  <2> QED
    BY ZenonT(60), <1>1, <1>2, <2>3, RecordFacts, WriteStep DEF ComponentType
<1>4. CASE ~Unmodified(saving.read)
  BY ZenonT(60), <1>1, <1>2, <1>4, RecordFacts, ReadStep DEF ComponentType, rotateGatewayHostKey
<1> QED
  BY Zenon, <1>3, <1>4

(* reconcileComponentCredential creates a Secret only where there is none,  *)
(* and writes proxy settings only over the Secret it read.                  *)
LEMMA CredentialStep ==
  ASSUME ComponentIInv, reconcileComponentCredential
  PROVE  ComponentIInv'
<1>1. ComponentType /\ pass.generation \in Nat /\ pass.read \in Secrets
  BY Zenon DEF ComponentIInv, ComponentType, Passes
<1>2. UNCHANGED <<spec, saving>>
  BY Zenon DEF reconcileComponentCredential
<1>3. ASSUME secret' \in Secrets, pass' = [pass EXCEPT !.step = "workload", !.read = secret']
      PROVE  pass' \in Passes /\ pass'.step = "workload"
  BY Zenon, <1>1, <1>3, RecordFacts DEF Passes
<1>4. CASE /\ pass.step = "create" /\ Creatable
           /\ pass' = [pass EXCEPT !.step = "workload", !.read = secret']
  <2> DEFINE data == [NoSecret EXCEPT !.keys = "manager", !.proxy = pass.generation]
  <2>1. data \in Secrets /\ data.keys = "manager" /\ data.s3 = 0
    BY Zenon, <1>1 DEF NoSecret, Secrets
  <2>2. /\ secret' = [data EXCEPT !.version = secret.version + 1]
        /\ kept' = [kept EXCEPT !.keys = "manager"]
    BY Zenon, <1>4 DEF reconcileComponentCredential, Stored, Creatable
  <2>3. kept.s3 = 0
    BY <1>4 DEF ComponentIInv, UnsavedEmpty, KeysKept, Creatable, NoSecret
  <2> HIDE DEF data
  <2>4. /\ secret' \in Secrets /\ secret'.version = secret.version + 1
        /\ secret'.keys = "manager" /\ secret'.s3 = 0
    BY ZenonT(60), <1>1, <2>1, <2>2, StoredFacts
  <2>5. /\ kept' \in [keys : {"none", "admin", "manager"}, s3 : Nat]
        /\ kept'.keys = "manager" /\ kept'.s3 = 0
    BY Zenon, <1>1, <2>2, <2>3 DEF ComponentType
  <2> QED
    BY ZenonT(60), <1>1, <1>2, <1>3, <1>4, <2>4, <2>5, RecordFacts, WriteStep
<1>5. CASE /\ pass.step = "update" /\ Unmodified(pass.read)
           /\ pass' = [pass EXCEPT !.step = "workload", !.read = secret']
  <2> DEFINE data == [pass.read EXCEPT !.proxy = pass.generation]
  <2>1. pass.read = secret /\ secret.keys = kept.keys /\ secret.s3 = kept.s3
    BY Zenon, <1>5 DEF ComponentIInv, ReadsExact, Exact, Unmodified, KeysKept
  <2>2. data \in Secrets /\ data.keys = pass.read.keys /\ data.s3 = pass.read.s3
    BY Zenon, <1>1 DEF Secrets
  <2>3. /\ secret' = [data EXCEPT !.version = secret.version + 1]
        /\ kept' = kept
    BY Zenon, <1>5 DEF reconcileComponentCredential, Stored
  <2> HIDE DEF data
  <2>4. /\ secret' \in Secrets /\ secret'.version = secret.version + 1
        /\ secret'.keys = kept.keys /\ secret'.s3 = kept.s3
    BY ZenonT(60), <1>1, <2>1, <2>2, <2>3, StoredFacts
  <2> QED
    BY ZenonT(60), <1>1, <1>2, <1>3, <1>5, <2>3, <2>4, RecordFacts, WriteStep DEF ComponentType
<1>6. CASE UNCHANGED <<secret, kept>> /\ pass' = Waiting
  BY ZenonT(60), <1>1, <1>2, <1>6, RecordFacts, ReadStep DEF ComponentType
<1> QED
  BY Zenon, <1>4, <1>5, <1>6 DEF reconcileComponentCredential

(* In every reachable state a read of the present version is exact, and the *)
(* Secret holds the keys that were acknowledged.                            *)
THEOREM VersionsTell == ComponentSpec => []ComponentIInv
<1>1. ComponentIInv /\ [ComponentNext]_componentVars => ComponentIInv'
  <2> SUFFICES ASSUME ComponentIInv, [ComponentNext]_componentVars PROVE ComponentIInv'
      OBVIOUS
  <2>1. CASE SaveComponent
    BY Zenon, <2>1, SaveStep
  <2>2. CASE \/ GetCacheSecret \/ GetHostKey \/ SaveFails
             \/ ReadComponent \/ GetCredential \/ PassFails
             \/ reconcileDeployment \/ reconcileGatewayExposure \/ WriteStatus
    BY Zenon, <2>2, QuietStep
  <2>3. CASE saveCacheCredentials
    BY Zenon, <2>3, SaveCredentialsStep
  <2>4. CASE rotateGatewayHostKey
    BY Zenon, <2>4, RotateStep
  <2>5. CASE reconcileComponentCredential
    BY Zenon, <2>5, CredentialStep
  <2>6. CASE UNCHANGED componentVars
    BY ZenonT(60), <2>6 DEF componentVars, ComponentIInv, ComponentType, ReadsExact, Exact, UnsavedEmpty, KeysKept
  <2> QED
    BY ZenonT(60), <2>1, <2>2, <2>3, <2>4, <2>5, <2>6 DEF ComponentNext, Pass
<1> QED
  BY <1>1, ComponentInitIInv, PTL DEF ComponentSpec

(* A component's generated keys are generated once, and its Secret holds    *)
(* the S3 keys last acknowledged, however saveCacheCredentials,             *)
(* rotateGatewayHostKey and reconcileComponentCredential overlap, for any   *)
(* number of saves, rotations and failures.                                 *)
THEOREM KeysSurvive == ComponentSpec => []KeysKept
<1>1. ComponentIInv => KeysKept
  BY Zenon DEF ComponentIInv
<1> QED
  BY <1>1, VersionsTell, PTL
=============================================================================
