--------------------------- MODULE SSHAuthLimiter ---------------------------
(***************************************************************************)
(* authenticatePublicKey and the limiter of failed attempts.  An attempt   *)
(* is checked, verified by Gitea while others run, and recorded if it      *)
(* fails; the three are separate steps.  An attempt whose user names no    *)
(* codespace is recorded without a check.  Every instant is an age or the  *)
(* time that is left, in ticks; the number of keys is limited.             *)
(***************************************************************************)
EXTENDS Naturals, Sequences, FiniteSets, Functions

CONSTANTS
    Clients, Items,      \* the keys of each client's attempts, in order
    KeyLimit,            \* attempts per minute, by key
    Minute, FailureWindow, BackoffBase, BackoffMax, MaxKeys,
    MaxFailures          \* bound on the failures recorded

ASSUME LimiterConstants ==
    /\ 0 < BackoffBase /\ BackoffBase <= BackoffMax
    /\ BackoffMax <= Minute /\ Minute <= FailureWindow
    /\ Minute \in Nat \ {0} /\ FailureWindow \in Nat

VARIABLES
    records,   \* gatewaySSHAuthLimiter.records
    tries,     \* the clients whose attempt Gitea is verifying
    failures   \* the failures recorded so far

limiterVars == <<records, tries, failures>>

LimitKeys == UNION {Range(Items[c]) : c \in Clients}
NoRecord  == [none |-> TRUE]

\* A client's keys are of different kinds; every limit is positive.
ASSUME LimitAssumption ==
    /\ IsFiniteSet(Clients) /\ \A c \in Clients : Items[c] \in Seq(LimitKeys) /\ IsInjective(Items[c])
    /\ \A k \in LimitKeys : KeyLimit[k] \in Nat \ {0}

LimiterInit == records = [k \in LimitKeys |-> NoRecord] /\ tries = {} /\ failures = 0

Known(recs)   == {k \in LimitKeys : recs[k] # NoRecord}
NoRoom(recs)  == Cardinality(Known(recs)) >= MaxKeys

Unpruned(recs) == recs
pruneExpired(recs) ==
    [k \in LimitKeys |-> IF recs[k] # NoRecord /\ recs[k].seen >= FailureWindow
                         THEN NoRecord ELSE recs[k]]

AllowBackedOff(recs, c) ==
    \A k \in Range(Items[c]) :
      IF recs[k] = NoRecord THEN ~NoRoom(recs) ELSE recs[k].backoff = 0
Allow(recs, c) ==
    \A k \in Range(Items[c]) :
      IF recs[k] = NoRecord THEN ~NoRoom(recs)
      ELSE recs[k].backoff = 0 /\ (recs[k].window >= Minute \/ recs[k].count < KeyLimit[k])

Least(a, b) == IF a <= b THEN a ELSE b

\* Doubled for every failure but the first, up to the maximum.
backoffDuration(n) == Least(BackoffMax, BackoffBase * 2 ^ (n - 1))

\* One item of RecordFailure.  blind is the part of count that nobody checked.
Counted(r, blind, backs) ==
    LET q == IF r = NoRecord
             THEN [window |-> Minute, count |-> 0, blind |-> 0, failures |-> 0,
                   seen |-> 0, backoff |-> 0]
             ELSE r
        w == IF q.window >= Minute THEN [q EXCEPT !.window = 0, !.count = 0, !.blind = 0] ELSE q
    IN  [w EXCEPT !.count = @ + 1, !.failures = @ + 1, !.seen = 0,
                  !.blind = IF blind THEN @ + 1 ELSE @,
                  !.backoff = IF backs THEN backoffDuration(w.failures + 1) ELSE @]

\* A key that is new needs room, which the keys before it may have taken.
RecordFailure(keys, blind, backs) ==
    LET recs == pruneExpired(records)
        Fits(i) == \/ recs[keys[i]] # NoRecord
                   \/ Cardinality(Known(recs) \cup {keys[j] : j \in 1 .. i - 1}) < MaxKeys
    IN  [k \in LimitKeys |-> IF \E i \in DOMAIN keys : keys[i] = k /\ Fits(i)
                             THEN Counted(recs[k], blind, backs) ELSE recs[k]]

Failure == failures < MaxFailures /\ failures' = failures + 1

\* An attempt for no codespace has the keys of the address and of the public key.
InvalidUser(c) ==
    /\ Failure
    /\ records' = RecordFailure(<<Head(Items[c]), Items[c][Len(Items[c])]>>, TRUE, TRUE)
    /\ UNCHANGED tries

Attempt(c) ==
    /\ c \notin tries /\ records' = pruneExpired(records)
    /\ tries' = IF Allow(pruneExpired(records), c) THEN tries \cup {c} ELSE tries
    /\ UNCHANGED failures

\* Gitea accepts, denies for a reason that does not count, or cannot be asked.
Verified(c) ==
    /\ c \in tries /\ tries' = tries \ {c} /\ UNCHANGED <<records, failures>>

\* gatewaySSHAuthFailureCounts, gatewaySSHAuthFailureBacksOff
Denied(c, backs) ==
    /\ c \in tries /\ Failure /\ tries' = tries \ {c}
    /\ records' = RecordFailure(Items[c], FALSE, backs)

LimiterTick ==
    /\ records' = [k \in LimitKeys |->
                     IF records[k] = NoRecord THEN NoRecord
                     ELSE [records[k] EXCEPT
                             !.window = Least(@ + 1, Minute),
                             !.seen = Least(@ + 1, FailureWindow),
                             !.backoff = IF @ = 0 THEN 0 ELSE @ - 1]]
    /\ UNCHANGED <<tries, failures>>

LimiterNext ==
    \/ \E c \in Clients : \/ InvalidUser(c) \/ Attempt(c) \/ Verified(c)
                          \/ \E backs \in BOOLEAN : Denied(c, backs)
    \/ LimiterTick

LimiterFairness == WF_limiterVars(LimiterTick)

LimiterSpec == LimiterInit /\ [][LimiterNext]_limiterVars /\ LimiterFairness

-----------------------------------------------------------------------------
\* Allow, RecordFailure: within a minute no key fails more often than its limit
\* and one more for every other client of it that is verified at the same time;
\* the attempts that nobody checks come on top.
WindowBounded ==
    \A k \in Known(records) :
      records[k].window < Minute =>
        records[k].count - records[k].blind
          < KeyLimit[k] + Cardinality({c \in Clients : k \in Range(Items[c])})

\* pruneExpired: whatever failures came before, and with all places taken, the
\* next attempts are allowed again.
Reopens == \A c \in Clients : <>[]Allow(pruneExpired(records), c)
=============================================================================
