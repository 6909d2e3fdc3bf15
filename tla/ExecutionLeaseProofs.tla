------------------------ MODULE ExecutionLeaseProofs ------------------------
(***************************************************************************)
(* No operation is executed beyond the lease Gitea promised: for every     *)
(* number of versions, every set of lease durations and every horizon.     *)
(*                                                                         *)
(* RunsUnderLease is not inductive.  It rests on the deadline every holder *)
(* on the way counts on (ChainCovered), on what relates a reply to the     *)
(* request it answers (Pending), and on the execution timer never being    *)
(* behind the permit (TimerCovers, TimerFollows).                          *)
(***************************************************************************)
EXTENDS ExecutionLease, TLAPS

\* Request, ControlRead, ControlSend: a reply, or one being made, belongs to
\* the request the Permit was stamped for, and nothing was sent in the future.
Pending ==
    /\ fetch.phase # "none" => fetch.sent <= now
    /\ request # NoRequest =>
         request.sent = permit.sent /\ 0 <= request.sent /\ request.sent <= now
    /\ session = "none" => request = NoRequest
    /\ reply.kind # "none" => request # NoRequest /\ handling = 0
    /\ reply.kind = "none" => reply = NoReply
    /\ handling > 0 => request # NoRequest
    /\ granted > 0 => request = NoRequest /\ now <= granted

\* ControlClient.Run: outside of the step between Accept and Reset, the timer
\* is never earlier than the deadline of the permit for the running version.
TimerFollows ==
    /\ Executing /\ granted = 0 /\ permit.version = run =>
         permit.deadline <= timer
    /\ granted > 0 =>
         run > 0 /\ granted <= until[run] /\ permit.deadline <= granted

\* Versions on the way to the Agent are never ahead of the persisted one.
VersionsBehind ==
    /\ accepted <= spec /\ reply.version <= spec /\ handling <= spec
    /\ fetch.version <= current

IInv == /\ TypeOK /\ ChainCovered /\ TimerCovers /\ NeverAhead
        /\ Pending /\ TimerFollows /\ VersionsBehind

\* The tuples of variables and the constants' types are used everywhere.
USE LeaseConstants DEF LeaseConstants, vars, gitea, manager, control, agent,
  intent

\* The empty value of every record has its type, and 0 is "no version".
LEMMA EmptyTypes ==
    /\ NoFetch \in Fetches /\ NoLease \in LeasesHeld
    /\ NoRequest \in Requests /\ NoReply \in Replies /\ NoPermit \in PermitsHeld
    /\ 0 \in Zero /\ 0 \in Times
    /\ \A v \in Zero : v \in Nat
    /\ \A t \in Times : t \in Nat
    /\ \A v \in Zero : v > 0 => v \in Versions
    /\ \A v \in Versions : v \in Zero /\ v > 0
BY DEF NoFetch, NoLease, NoRequest, NoReply, NoPermit, Fetches, LeasesHeld,
       Requests, Replies, PermitsHeld, Times, Zero, Versions

\* The types of the fields that steps read.
LEMMA Fields ==
    TypeOK =>
      /\ fetch.sent \in Times /\ fetch.version \in Zero /\ fetch.open \in Zero
      /\ fetch.lease \in Nat
      /\ authority.version \in Zero /\ authority.deadline \in Nat
      /\ request.sent \in Times \cup {-1} /\ request.version \in Zero
      /\ reply.version \in Zero /\ reply.valid \in Nat
      /\ reply.kind \in {"none", "cancel", "offer", "permit"}
      /\ reply.kind = "permit" => reply.version > 0 /\ reply.valid > 0
      /\ permit.version \in Zero /\ permit.sent \in Times \cup {-1}
      /\ permit.deadline \in Nat
      /\ now \in Nat /\ current \in Nat /\ spec \in Nat /\ handling \in Nat
      /\ report \in Nat /\ accepted \in Nat /\ run \in Nat
      /\ \A v \in Zero : v > 0 => until[v] \in Nat
<1> SUFFICES ASSUME TypeOK
             PROVE  Fields!2
  OBVIOUS
<1>1. fetch.sent \in Times /\ fetch.version \in Zero /\ fetch.open \in Zero
      /\ fetch.lease \in Nat
  <2>1. fetch \in Fetches
    BY Zenon DEF TypeOK
  <2>2. fetch.lease \in Leases \cup {0}
    BY Zenon, <2>1 DEF Fetches
  <2>3. fetch.lease \in Nat
    BY <2>2
  <2> QED
    BY Zenon, <2>1, <2>3 DEF Fetches
<1>2. authority.version \in Zero /\ authority.deadline \in Nat
  BY Zenon DEF TypeOK, LeasesHeld
<1>3. request.sent \in Times \cup {-1} /\ request.version \in Zero
  BY Zenon DEF TypeOK, Requests
<1>4. /\ reply.version \in Zero /\ reply.valid \in Nat
      /\ reply.kind \in {"none", "cancel", "offer", "permit"}
      /\ reply.kind = "permit" => reply.version > 0 /\ reply.valid > 0
  BY Zenon DEF TypeOK, Replies
<1>5. /\ permit.version \in Zero /\ permit.sent \in Times \cup {-1}
      /\ permit.deadline \in Nat
  BY Zenon DEF TypeOK, PermitsHeld
<1>6. /\ now \in Nat /\ current \in Nat /\ spec \in Nat /\ handling \in Nat
      /\ report \in Nat /\ accepted \in Nat /\ run \in Nat
  BY Zenon, EmptyTypes DEF TypeOK
<1>7. \A v \in Zero : v > 0 => until[v] \in Nat
  BY Zenon, EmptyTypes DEF TypeOK
<1> QED
  BY Zenon, <1>1, <1>2, <1>3, <1>4, <1>5, <1>6, <1>7

\* Every state the constants allow to start in satisfies the invariant.
LEMMA InitIInv == Init => IInv
<1> SUFFICES ASSUME Init PROVE IInv
  OBVIOUS
<1>1. TypeOK
  BY Zenon, EmptyTypes DEF Init, TypeOK
<1>2. ChainCovered /\ Pending /\ VersionsBehind
  BY DEF Init, ChainCovered, Pending, VersionsBehind, NoFetch, NoLease, NoReply,
         NoPermit
<1>3. TimerCovers /\ TimerFollows /\ NeverAhead
  BY DEF Init, TimerCovers, TimerFollows, NeverAhead, Executing
<1> QED
  BY Zenon, <1>1, <1>2, <1>3 DEF IInv

\* Every step keeps the types.
LEMMA TypeStep == IInv /\ [Next]_vars => TypeOK'
<1> SUFFICES ASSUME IInv, [Next]_vars PROVE TypeOK'
  OBVIOUS
<1> USE EmptyTypes, Fields DEF IInv, TypeOK
<1>a. /\ [version |-> fetch.version, deadline |-> LeaseDeadline] \in LeasesHeld
      /\ [version |-> spec, deadline |-> LeaseDeadline] \in LeasesHeld
  <2>1. LeaseDeadline \in Nat
    BY DEF LeaseDeadline
  <2> QED
    BY Zenon, <2>1 DEF LeasesHeld
<1>1. CASE Tick
  BY <1>1 DEF Tick, Times
<1>2. CASE IssueOperation
  BY <1>2 DEF IssueOperation, Zero
<1>3. ASSUME NEW l \in Leases, AnswerFetch(l) PROVE TypeOK'
  <2>1. current \in Versions
    BY Zenon, <1>3 DEF AnswerFetch, Versions, Zero
  <2>2. Later(until[current], now + l) \in Nat
    BY <2>1 DEF Later
  <2>3. until' \in [Versions -> Nat]
    BY Zenon, <1>3, <2>1, <2>2 DEF AnswerFetch
  <2>4. fetch' \in Fetches
    BY Zenon, <1>3 DEF AnswerFetch, Fetches
  <2> QED
    BY Zenon, <1>3, <2>3, <2>4 DEF AnswerFetch
<1>4. CASE SendFetch
  BY Zenon, <1>4 DEF SendFetch, Fetches
<1>5. CASE FetchFails
  BY Zenon, <1>5 DEF FetchFails
<1>6. CASE Renew
  BY Zenon, <1>6, <1>a DEF Renew, Grant
<1>7. CASE AcceptNew
  BY Zenon, <1>7, <1>a DEF AcceptNew
<1>8. CASE AcceptSame
  BY Zenon, <1>8, <1>a DEF AcceptSame, Grant
<1>9. CASE Close
  BY Zenon, <1>9 DEF Close
<1>10. CASE Revoke
  BY Zenon, <1>10 DEF Revoke
<1>11. CASE NewLeader
  BY Zenon, <1>11 DEF NewLeader, Hangup
<1>12. CASE ControlRead
  BY <1>12 DEF ControlRead, Answer, Replies
<1>13. CASE ControlSend
  <2>1. Remaining(handling) \in Nat
    BY DEF Remaining
  <2>2. reply' \in Replies
    BY <1>13, <2>1 DEF ControlSend, Answer, Permits, Replies
  <2> QED
    BY Zenon, <1>13, <2>2 DEF ControlSend
<1>14. CASE Break
  BY Zenon, <1>14 DEF Break, Hangup
<1>15. CASE Reconnect
  BY Zenon, <1>15 DEF Reconnect
<1>16. CASE Request
  BY Zenon, <1>16 DEF Request, Requests, PermitsHeld
<1>17. CASE AdoptVersion
  BY Zenon, <1>17 DEF AdoptVersion, Hangup, Operation, MayAdopt, Cancel
<1>18. CASE AcceptRefused
  BY <1>18 DEF AcceptRefused, Operation, Cancel, PermitsHeld
<1>19. CASE Accept
  <2>1. PermitDeadline \in Nat
    BY <1>19 DEF Accept, PermitDeadline, Pending, ChainCovered
  <2>2. permit' \in PermitsHeld
    BY Zenon, <1>19, <2>1 DEF Accept, PermitsHeld
  <2>3. run' \in Zero /\ lastStarted' \in Zero /\ granted' \in Nat
    BY Zenon, <1>19, <2>1 DEF Accept
  <2> QED
    BY Zenon, <1>19, <2>2, <2>3 DEF Accept, Operation
<1>20. CASE SetTimer
  BY Zenon, <1>20 DEF SetTimer, Reset
<1>21. CASE TimerFires
  BY Zenon, <1>21 DEF TimerFires
<1>22. CASE Finish
  BY Zenon, <1>22 DEF Finish
<1>23. CASE Restart
  BY Zenon, <1>23 DEF Restart, Hangup
<1>24. CASE UNCHANGED vars
  BY Zenon, <1>24
<1> QED
  BY Zenon, <1>1, <1>2, <1>3, <1>4, <1>5, <1>6, <1>7, <1>8, <1>9, <1>10, <1>11, <1>12,
     <1>13, <1>14, <1>15, <1>16, <1>17, <1>18, <1>19, <1>20, <1>21, <1>22,
     <1>23, <1>24 DEF Next

\* Every step keeps what is known of versions.
LEMMA VersionStep == IInv /\ [Next]_vars => NeverAhead' /\ VersionsBehind'
<1> SUFFICES ASSUME IInv, [Next]_vars PROVE NeverAhead' /\ VersionsBehind'
  OBVIOUS
<1>a. TypeOK /\ TypeOK'
  BY Zenon, TypeStep DEF IInv
<1> USE <1>a, EmptyTypes, Fields DEF IInv, TypeOK, NeverAhead, VersionsBehind,
  NoFetch, NoReply
<1>b. /\ spec \in Nat /\ spec' \in Nat /\ current \in Nat /\ report \in Nat
      /\ accepted \in Nat /\ handling \in Nat
      /\ fetch.version \in Nat /\ reply.version \in Nat
  BY Zenon
<1>c. /\ report <= spec /\ accepted <= spec /\ handling <= spec
      /\ reply.version <= spec
      /\ spec <= current /\ fetch.version <= current
  OBVIOUS
<1>1. CASE Tick
  BY Zenon, <1>1 DEF Tick, TimerDue
<1>2. CASE IssueOperation
  <2>1. /\ current' = current + 1
        /\ UNCHANGED <<spec, report, run, accepted, reply, handling, fetch>>
    BY Zenon, <1>2 DEF IssueOperation
  <2>2. current <= current + 1 /\ spec <= current + 1
        /\ fetch.version <= current + 1
    <3> HIDE <1>a, EmptyTypes, Fields DEF IInv, TypeOK
    <3> QED
      BY <1>b, <1>c
  <2> QED
    BY Zenon, <2>1, <2>2
<1>3. ASSUME NEW l \in Leases, AnswerFetch(l) PROVE NeverAhead' /\
  VersionsBehind'
  BY <1>3 DEF AnswerFetch, Later
<1>4. CASE SendFetch
  BY <1>4 DEF SendFetch
<1>5. CASE FetchFails
  BY <1>5 DEF FetchFails
<1>6. CASE Renew
  BY <1>6 DEF Renew, Grant, LeaseDeadline
<1>7. CASE AcceptNew
  <2>1. spec <= spec' /\ spec' <= current /\ fetch' = NoFetch
    BY <1>7 DEF AcceptNew
  <2>2. UNCHANGED <<current, report, run, accepted, reply, handling>>
    BY Zenon, <1>7 DEF AcceptNew
  <2>3. report <= spec' /\ accepted <= spec' /\ reply.version <= spec'
        /\ handling <= spec'
    <3> HIDE <1>a, EmptyTypes, Fields DEF IInv, TypeOK
    <3> QED
      BY <2>1, <1>b, <1>c
  <2> QED
    BY <2>1, <2>2, <2>3
<1>8. CASE AcceptSame
  BY <1>8 DEF AcceptSame, Grant, LeaseDeadline
<1>9. CASE Close
  BY Zenon, <1>9 DEF Close
<1>10. CASE Revoke
  BY Zenon, <1>10 DEF Revoke
<1>11. CASE NewLeader
  BY <1>11 DEF NewLeader, Hangup
<1>12. CASE ControlRead
  BY <1>12 DEF ControlRead, Answer
<1>13. CASE ControlSend
  BY <1>13 DEF ControlSend, Answer, Permits, Remaining
<1>14. CASE Break
  BY <1>14 DEF Break, Hangup
<1>15. CASE Reconnect
  BY Zenon, <1>15 DEF Reconnect
<1>16. CASE Request
  BY Zenon, <1>16 DEF Request
<1>17. CASE AdoptVersion
  BY <1>17 DEF AdoptVersion, Hangup, Operation, MayAdopt, Cancel
<1>18. CASE AcceptRefused
  BY <1>18 DEF AcceptRefused, Operation, Cancel
<1>19. CASE Accept
  BY SMTT(60), <1>19 DEF Accept, Operation, PermitDeadline
<1>20. CASE SetTimer
  BY Zenon, <1>20 DEF SetTimer, Reset
<1>21. CASE TimerFires
  BY Zenon, <1>21 DEF TimerFires, TimerDue, Valid
<1>22. CASE Finish
  BY Zenon, <1>22 DEF Finish
<1>23. CASE Restart
  BY <1>23 DEF Restart, Hangup
<1>24. CASE UNCHANGED vars
  <2> HIDE <1>a, EmptyTypes, Fields DEF TypeOK
  <2> QED
    BY Zenon, <1>24
<1> HIDE <1>a, EmptyTypes, Fields DEF IInv, TypeOK, NeverAhead,
  VersionsBehind, NoFetch, NoReply
<1> QED
  BY Zenon, <1>1, <1>2, <1>3, <1>4, <1>5, <1>6, <1>7, <1>8, <1>9, <1>10, <1>11,
    <1>12, <1>13, <1>14, <1>15, <1>16, <1>17, <1>18, <1>19, <1>20, <1>21,
    <1>22, <1>23, <1>24 DEF Next

\* Every step keeps the matching of requests and replies.
LEMMA PendingStep == IInv /\ [Next]_vars => Pending'
<1> SUFFICES ASSUME IInv, [Next]_vars PROVE Pending'
  OBVIOUS
<1>a. TypeOK /\ TypeOK'
  BY Zenon, TypeStep DEF IInv
<1> USE <1>a, EmptyTypes, Fields DEF IInv, Pending, NoFetch, NoReply,
  NoRequest
<1>1. CASE Tick
  <2>1. /\ now' = now + 1 /\ granted = 0
        /\ UNCHANGED <<fetch, session, request, handling, reply, permit,
          granted>>
    BY Zenon, <1>1 DEF Tick
  <2>2. fetch.phase # "none" => fetch.sent <= now + 1
    OBVIOUS
  <2>3. request # NoRequest => request.sent <= now + 1
    OBVIOUS
  <2> QED
    BY <2>1, <2>2, <2>3
<1>2. CASE IssueOperation
  BY Zenon, <1>2 DEF IssueOperation
<1>3. ASSUME NEW l \in Leases, AnswerFetch(l) PROVE Pending'
  BY Zenon, <1>3 DEF AnswerFetch, Later
<1>4. CASE SendFetch
  BY <1>4 DEF SendFetch
<1>5. CASE FetchFails
  BY Zenon, <1>5 DEF FetchFails
<1>6. CASE Renew
  BY Zenon, <1>6 DEF Renew, Grant, LeaseDeadline
<1>7. CASE AcceptNew
  BY Zenon, <1>7 DEF AcceptNew, LeaseDeadline
<1>8. CASE AcceptSame
  BY Zenon, <1>8 DEF AcceptSame, Grant, LeaseDeadline
<1>9. CASE Close
  BY Zenon, <1>9 DEF Close
<1>10. CASE Revoke
  BY Zenon, <1>10 DEF Revoke
<1>11. CASE NewLeader
  BY <1>11 DEF NewLeader, Hangup
<1>12. CASE ControlRead
  BY <1>12 DEF ControlRead, Answer
<1>13. CASE ControlSend
  BY <1>13 DEF ControlSend, Answer, Permits, Remaining
<1>14. CASE Break
  BY <1>14 DEF Break, Hangup
<1>15. CASE Reconnect
  BY Zenon, <1>15 DEF Reconnect
<1>16. CASE Request
  BY <1>16 DEF Request
<1>17. CASE AdoptVersion
  BY <1>17 DEF AdoptVersion, Hangup, Operation, MayAdopt, Cancel
<1>18. CASE AcceptRefused
  BY <1>18 DEF AcceptRefused, Operation, Cancel
<1>19. CASE Accept
  BY SMTT(60), <1>19 DEF Accept, Operation, PermitDeadline
<1>20. CASE SetTimer
  BY <1>20 DEF SetTimer, Reset
<1>21. CASE TimerFires
  BY Zenon, <1>21 DEF TimerFires, TimerDue, Valid
<1>22. CASE Finish
  BY Zenon, <1>22 DEF Finish
<1>23. CASE Restart
  BY <1>23 DEF Restart, Hangup
<1>24. CASE UNCHANGED vars
  <2> HIDE <1>a, EmptyTypes, Fields
  <2> QED
    BY Zenon, <1>24
<1> HIDE <1>a, EmptyTypes, Fields DEF IInv, Pending, NoFetch,
  NoReply, NoRequest
<1> QED
  BY Zenon, <1>1, <1>2, <1>3, <1>4, <1>5, <1>6, <1>7, <1>8, <1>9, <1>10, <1>11,
    <1>12, <1>13, <1>14, <1>15, <1>16, <1>17, <1>18, <1>19, <1>20, <1>21,
    <1>22, <1>23, <1>24 DEF Next

\* Every step keeps every deadline covered.
LEMMA ChainStep == IInv /\ [Next]_vars => ChainCovered'
<1> SUFFICES ASSUME IInv, [Next]_vars PROVE ChainCovered'
  OBVIOUS
<1>a. TypeOK /\ TypeOK'
  BY Zenon, TypeStep DEF IInv
<1> USE <1>a, EmptyTypes, Fields DEF IInv, Pending, ChainCovered,
  NoFetch, NoReply, NoRequest, NoLease, NoPermit
<1>1. CASE Tick
  BY Zenon, <1>1 DEF Tick, TimerDue
<1>2. CASE IssueOperation
  BY Zenon, <1>2 DEF IssueOperation
<1>3. ASSUME NEW l \in Leases, AnswerFetch(l) PROVE ChainCovered'
  BY <1>3 DEF TypeOK, AnswerFetch, Later
<1>4. CASE SendFetch
  BY Zenon, <1>4 DEF SendFetch
<1>5. CASE FetchFails
  BY Zenon, <1>5 DEF FetchFails
<1>6. CASE Renew
  BY Zenon, <1>6 DEF Renew, Grant, LeaseDeadline
<1>7. CASE AcceptNew
  BY SMTT(60), <1>7 DEF AcceptNew, LeaseDeadline
<1>8. CASE AcceptSame
  BY <1>8 DEF AcceptSame, Grant, LeaseDeadline
<1>9. CASE Close
  BY Zenon, <1>9 DEF Close
<1>10. CASE Revoke
  BY SMTT(60), <1>10 DEF Revoke
<1>11. CASE NewLeader
  BY SMTT(60), <1>11 DEF NewLeader, Hangup
<1>12. CASE ControlRead
  BY SMTT(60), <1>12 DEF ControlRead, Answer
<1>13. CASE ControlSend
  BY <1>13 DEF ControlSend, Answer, Permits, Remaining
<1>14. CASE Break
  BY Zenon, <1>14 DEF Break, Hangup
<1>15. CASE Reconnect
  BY SMTT(60), <1>15 DEF Reconnect
<1>16. CASE Request
  BY <1>16 DEF TypeOK, Request
<1>17. CASE AdoptVersion
  BY Zenon, <1>17 DEF AdoptVersion, Hangup, Operation, MayAdopt, Cancel
<1>18. CASE AcceptRefused
  <2>1. /\ permit'.version = permit.version
        /\ permit'.deadline \in {0, permit.deadline}
    BY <1>18 DEF TypeOK, AcceptRefused, PermitsHeld
  <2>2. reply' = NoReply /\ UNCHANGED <<fetch, authority, until>>
    BY Zenon, <1>18 DEF AcceptRefused
  <2> QED
    BY <2>1, <2>2
<1>19. CASE Accept
  BY SMTT(60), <1>19 DEF Accept, Operation, PermitDeadline
<1>20. CASE SetTimer
  BY Zenon, <1>20 DEF SetTimer, Reset
<1>21. CASE TimerFires
  BY Zenon, <1>21 DEF TimerFires, TimerDue, Valid
<1>22. CASE Finish
  BY Zenon, <1>22 DEF Finish
<1>23. CASE Restart
  BY <1>23 DEF Restart, Hangup
<1>24. CASE UNCHANGED vars
  <2> HIDE <1>a, EmptyTypes, Fields
  <2> QED
    BY Zenon, <1>24
<1> HIDE <1>a, EmptyTypes, Fields DEF IInv, Pending, ChainCovered,
  NoFetch, NoReply, NoRequest, NoLease, NoPermit
<1> QED
  BY Zenon, <1>1, <1>2, <1>3, <1>4, <1>5, <1>6, <1>7, <1>8, <1>9, <1>10, <1>11,
    <1>12, <1>13, <1>14, <1>15, <1>16, <1>17, <1>18, <1>19, <1>20, <1>21,
    <1>22, <1>23, <1>24 DEF Next

\* A timer that is due ends the execution, unless its permit was renewed: then
\* the timer is about to be set to the new deadline.
LEMMA FiresKeep ==
    ASSUME TypeOK, TimerCovers, TimerFollows, TimerFires
    PROVE  TimerCovers' /\ TimerFollows'
<1>1. run' = run /\ granted' = granted /\ until' = until /\ permit' = permit
      /\ now' = now
  BY Zenon DEF TimerFires, gitea, control, intent
<1>2. permit.deadline \in Nat /\ now \in Nat /\ granted \in Nat /\ timer \in Nat
  BY Zenon, Fields DEF TypeOK
<1>3. run > 0 /\ now >= timer
  BY Zenon DEF TimerFires, TimerDue
<1>4. Executing' => Executing /\ Valid(run)
  BY <1>1, Zenon DEF TimerFires, Executing
<1>5. Executing' => permit.version = run /\ now < permit.deadline
  BY Zenon, <1>4 DEF Valid
<1>6. Executing' /\ granted = 0 => permit.deadline <= timer
  BY Zenon, <1>4, <1>5 DEF TimerFollows
<1>7. Executing' => granted > 0
  BY <1>2, <1>3, <1>5, <1>6
<1>8. granted > 0 =>
        run > 0 /\ granted <= until[run] /\ permit.deadline <= granted
  BY Zenon DEF TimerFollows
<1>9. TimerCovers'
  BY Zenon, <1>1, <1>7, <1>8 DEF TimerCovers
<1>10. ~(Executing' /\ granted = 0)
  BY <1>7
<1>11. TimerFollows'
  BY Zenon, <1>1, <1>8, <1>10 DEF TimerFollows
<1> QED
  BY Zenon, <1>9, <1>11

\* A step that leaves the timer and what it depends on alone keeps both.
LEMMA TimerStays ==
    ASSUME TimerCovers, TimerFollows,
           UNCHANGED <<now, until, permit, run, cancelled, timer, granted>>
    PROVE  TimerCovers' /\ TimerFollows'
BY Zenon DEF TimerCovers, TimerFollows, Executing

\* So does a step that takes the permit away, or stamps it anew for its version.
LEMMA PermitShrinks ==
    ASSUME TypeOK, TimerCovers, TimerFollows,
           UNCHANGED <<now, until, run, timer, granted>>,
           Executing' => Executing,
           \/ permit'.deadline = 0
           \/ permit'.version = permit.version /\ permit'.deadline = permit.deadline
    PROVE  TimerCovers' /\ TimerFollows'
<1>1. timer \in Nat /\ granted \in Nat
  BY Zenon DEF TypeOK
<1>2. TimerCovers'
  BY Zenon DEF TimerCovers
<1>3. Executing' /\ granted' = 0 /\ permit'.version = run' =>
        permit'.deadline <= timer'
  BY <1>1 DEF TimerFollows
<1>4. granted' > 0 =>
        run' > 0 /\ granted' <= until'[run'] /\ permit'.deadline <= granted'
  BY <1>1 DEF TimerFollows
<1> QED
  BY Zenon, <1>2, <1>3, <1>4 DEF TimerFollows

\* So does a promise that grows.
LEMMA PromiseGrows ==
    ASSUME TypeOK, TypeOK', TimerCovers, TimerFollows,
           UNCHANGED <<now, permit, run, cancelled, timer, granted>>,
           \A v \in Versions : until[v] <= until'[v]
    PROVE  TimerCovers' /\ TimerFollows'
<1>1. timer \in Nat /\ granted \in Nat /\ now \in Nat /\ run \in Zero
  BY Zenon, Fields DEF TypeOK
<1>2. run > 0 => until[run] \in Nat /\ until'[run] \in Nat /\ until[run] <= until'[run]
  BY Zenon, <1>1, EmptyTypes DEF TypeOK
<1>3. Executing' <=> Executing
  BY Zenon DEF Executing
<1>4. Executing => run > 0
  BY Zenon DEF Executing
<1>5. TimerCovers'
  BY <1>1, <1>2, <1>3, <1>4 DEF TimerCovers
<1>6. TimerFollows'
  BY <1>1, <1>2, <1>3 DEF TimerFollows
<1> QED
  BY Zenon, <1>5, <1>6

\* So does time, which stands still while a timer is due or a permit is new.
LEMMA TickKeeps ==
    ASSUME TypeOK, TimerCovers, TimerFollows, Tick
    PROVE  TimerCovers' /\ TimerFollows'
<1>1. /\ granted = 0 /\ ~TimerDue /\ now' = now + 1
      /\ UNCHANGED <<until, permit, run, cancelled, timer, granted>>
  BY Zenon DEF Tick
<1>2. timer \in Nat /\ now \in Nat
  BY Zenon, Fields DEF TypeOK
<1>3. Executing' <=> Executing
  BY Zenon, <1>1 DEF Executing
<1>4. Executing => run > 0 /\ timer > 0 /\ timer <= until[run]
  BY <1>1 DEF TimerCovers, Executing
<1>5. Executing => now < timer
  BY <1>1, <1>2, <1>4 DEF TimerDue
<1>6. TimerCovers'
  BY <1>1, <1>2, <1>3, <1>4, <1>5 DEF TimerCovers
<1>7. TimerFollows'
  BY Zenon, <1>1, <1>3 DEF TimerFollows
<1> QED
  BY Zenon, <1>6, <1>7

\* So does the end of the execution.
LEMMA NoRunKeeps ==
    ASSUME run' = 0, granted' = 0
    PROVE  TimerCovers' /\ TimerFollows'
<1>1. ~Executing'
  BY DEF Executing
<1> QED
  BY <1>1 DEF TimerCovers, TimerFollows

\* So does the timer that takes over the deadline granted to it.
LEMMA SetTimerKeeps ==
    ASSUME TypeOK, Pending, TimerFollows, SetTimer
    PROVE  TimerCovers' /\ TimerFollows'
<1>1. granted > 0 /\ timer' = granted /\ granted' = 0
      /\ UNCHANGED <<now, until, permit, run>>
  BY Zenon DEF SetTimer, Reset
<1>2. /\ now <= granted /\ run > 0 /\ granted <= until[run]
      /\ permit.deadline <= granted
  BY Zenon, <1>1 DEF Pending, TimerFollows
<1>3. TimerCovers'
  BY Zenon, <1>1, <1>2 DEF TimerCovers
<1>4. TimerFollows'
  BY <1>1, <1>2 DEF TimerFollows
<1> QED
  BY Zenon, <1>3, <1>4

\* So does a permit that is accepted: its deadline is granted to the execution it
\* continues or starts, and lies within the lease because the reply's does.
LEMMA AcceptKeeps ==
    ASSUME TypeOK, TypeOK', Pending, ChainCovered, NeverAhead, Accept
    PROVE  TimerCovers' /\ TimerFollows'
<1>1. /\ reply.kind = "permit" /\ now < PermitDeadline
      /\ until' = until /\ permit'.deadline = PermitDeadline
      /\ granted' = IF run' > 0 THEN PermitDeadline ELSE 0
      /\ run' \in {run, report}
  BY Zenon DEF Accept
<1>2. reply.version = report
  BY Zenon, <1>1 DEF Accept, Operation
<1>3. run' \in {0, report}
  BY Zenon, <1>1 DEF NeverAhead
<1>4. request.sent = permit.sent /\ request.sent + reply.valid <= until[report]
  BY Zenon, <1>1, <1>2 DEF Pending, ChainCovered
<1>5. PermitDeadline <= until[report]
  BY Zenon, <1>4 DEF PermitDeadline
<1>6. granted' \in Nat /\ now \in Nat
  BY Zenon, Fields DEF TypeOK
<1>7. run' > 0 => /\ granted' = PermitDeadline /\ granted' > 0
                  /\ granted' <= until'[run']
  BY <1>1, <1>3, <1>5, <1>6
<1>8. Executing' => run' > 0
  BY Zenon DEF Executing
<1>9. granted' > 0 => run' > 0
  BY <1>1
<1>10. TimerCovers'
  BY Zenon, <1>7, <1>8 DEF TimerCovers
<1>11. TimerFollows'
  <2>1. ~(Executing' /\ granted' = 0)
    BY <1>7, <1>8
  <2>2. granted' > 0 => permit'.deadline <= granted'
    BY <1>1, <1>6, <1>7, <1>9
  <2> QED
    BY Zenon, <2>1, <2>2, <1>7, <1>9 DEF TimerFollows
<1> QED
  BY Zenon, <1>10, <1>11

\* Every step keeps the execution under its timer.
LEMMA TimerStep == IInv /\ [Next]_vars => TimerCovers' /\ TimerFollows'
<1> SUFFICES ASSUME IInv, [Next]_vars PROVE TimerCovers' /\ TimerFollows'
  OBVIOUS
<1>a. TypeOK /\ TypeOK'
  BY Zenon, TypeStep DEF IInv
<1>b. TimerCovers /\ TimerFollows
  BY Zenon DEF IInv
<1>2. CASE IssueOperation
  BY Zenon, <1>2, <1>b, TimerStays DEF IssueOperation
<1>4. CASE SendFetch
  BY Zenon, <1>4, <1>b, TimerStays DEF SendFetch
<1>5. CASE FetchFails
  BY Zenon, <1>5, <1>b, TimerStays DEF FetchFails
<1>6. CASE Renew
  BY Zenon, <1>6, <1>b, TimerStays DEF Renew
<1>7. CASE AcceptNew
  BY Zenon, <1>7, <1>b, TimerStays DEF AcceptNew
<1>8. CASE AcceptSame
  BY Zenon, <1>8, <1>b, TimerStays DEF AcceptSame
<1>9. CASE Close
  BY Zenon, <1>9, <1>b, TimerStays DEF Close
<1>10. CASE Revoke
  BY Zenon, <1>10, <1>b, TimerStays DEF Revoke
<1>11. CASE NewLeader
  BY Zenon, <1>11, <1>b, TimerStays DEF NewLeader, Hangup
<1>12. CASE ControlRead
  BY Zenon, <1>12, <1>b, TimerStays DEF ControlRead, Answer
<1>13. CASE ControlSend
  BY Zenon, <1>13, <1>b, TimerStays DEF ControlSend, Answer
<1>14. CASE Break
  BY Zenon, <1>14, <1>b, TimerStays DEF Break, Hangup
<1>21. CASE TimerFires
  BY Zenon, <1>21, <1>a, <1>b, FiresKeep
<1>24. CASE UNCHANGED vars
  BY <1>24, <1>b, TimerStays, SMTT(60)
<1>1. CASE Tick
  BY Zenon, <1>1, <1>a, <1>b, TickKeeps
<1>3. ASSUME NEW l \in Leases, AnswerFetch(l) PROVE TimerCovers' /\
  TimerFollows'
  <2>1. UNCHANGED <<now, permit, run, cancelled, timer, granted>>
    BY Zenon, <1>3 DEF AnswerFetch
  <2>2. now + l \in Nat /\ until \in [Versions -> Nat]
    BY <1>a, Fields DEF TypeOK
  <2>3. until' = [until EXCEPT ![current] = Later(@, now + l)]
    BY Zenon, <1>3 DEF AnswerFetch
  <2>4. \A v \in Versions : until[v] <= until'[v]
    BY <2>2, <2>3 DEF Later
  <2> QED
    BY Zenon, <2>1, <2>4, <1>a, <1>b, PromiseGrows
<1>15. CASE Reconnect
  <2>1. UNCHANGED <<now, until, run, timer, granted>> /\ permit'.deadline = 0
    BY Zenon, <1>15 DEF Reconnect, NoPermit
  <2>2. Executing' => Executing
    BY Zenon, <1>15 DEF Reconnect, Executing
  <2> QED
    BY Zenon, <2>1, <2>2, <1>a, <1>b, PermitShrinks
<1>16. CASE Request
  <2>1. UNCHANGED <<now, until, run, timer, granted>>
    BY Zenon, <1>16 DEF Request
  <2>2. Executing' => Executing
    BY Zenon, <1>16 DEF Request, Executing
  <2>3. \/ permit'.deadline = 0
        \/ permit'.version = permit.version /\ permit'.deadline = permit.deadline
    BY Zenon, <1>16 DEF Request
  <2> QED
    BY Zenon, <2>1, <2>2, <2>3, <1>a, <1>b, PermitShrinks
<1>17. CASE AdoptVersion
  <2>1. UNCHANGED <<now, until, run, timer, granted, permit>>
    BY Zenon, <1>17 DEF AdoptVersion
  <2>2. Executing' => Executing
    BY <1>17, Zenon DEF AdoptVersion, Cancel, Executing
  <2> QED
    BY Zenon, <2>1, <2>2, <1>a, <1>b, PermitShrinks
<1>18. CASE AcceptRefused
  <2>1. UNCHANGED <<now, until, run, timer, granted>>
    BY Zenon, <1>18 DEF AcceptRefused
  <2>2. Executing' => Executing
    BY <1>18, Zenon DEF AcceptRefused, Cancel, Executing
  <2>3. permit \in PermitsHeld
    BY Zenon, <1>a DEF TypeOK
  <2>4. permit' = permit \/ permit' = [permit EXCEPT !.deadline = 0]
    BY Zenon, <1>18 DEF AcceptRefused
  <2>5. \/ permit'.deadline = 0
        \/ permit'.version = permit.version /\ permit'.deadline = permit.deadline
    BY Zenon, <2>3, <2>4 DEF PermitsHeld
  <2> QED
    BY Zenon, <2>1, <2>2, <2>5, <1>a, <1>b, PermitShrinks
<1>19. CASE Accept
  BY Zenon, <1>19, <1>a, AcceptKeeps DEF IInv
<1>20. CASE SetTimer
  BY Zenon, <1>20, <1>a, <1>b, SetTimerKeeps DEF IInv
<1>22. CASE Finish
  BY Zenon, <1>22, NoRunKeeps DEF Finish
<1>23. CASE Restart
  BY Zenon, <1>23, NoRunKeeps DEF Restart
<1> QED
  BY Zenon, <1>1, <1>2, <1>3, <1>4, <1>5, <1>6, <1>7, <1>8, <1>9, <1>10, <1>11,
    <1>12, <1>13, <1>14, <1>15, <1>16, <1>17, <1>18, <1>19, <1>20, <1>21,
    <1>22, <1>23, <1>24 DEF Next

\* The invariant is inductive.
THEOREM Inductive == Spec => []IInv
<1>1. IInv /\ [Next]_vars => IInv'
  BY Zenon, TypeStep, VersionStep, PendingStep, ChainStep, TimerStep DEF IInv
<1> QED
  BY InitIInv, <1>1, PTL DEF Spec

\* Types of the whole chain, Gitea's promises to the Agent's timer.
THEOREM TypeCorrect == Spec => []TypeOK
BY Inductive, PTL DEF IInv

\* Permit, ExecutionAuthority: an operation never runs beyond the lease Gitea
\* promised for its version.
THEOREM LeaseRespected == Spec => []RunsUnderLease
<1>1. IInv => RunsUnderLease
  <2> SUFFICES ASSUME IInv, Executing PROVE now <= until[run]
    BY Zenon DEF RunsUnderLease
  <2>1. TypeOK /\ TimerCovers /\ Pending
    BY Zenon DEF IInv
  <2>2. run \in Zero /\ run > 0
    BY Zenon, <2>1 DEF TypeOK, Executing
  <2>3. now \in Nat /\ until[run] \in Nat /\ timer \in Nat /\ granted \in Nat
    BY Zenon, <2>1, <2>2, Fields DEF TypeOK
  <2> QED
    BY <2>1, <2>3 DEF TimerCovers, Pending
<1> QED
  BY Inductive, <1>1, PTL

\* The deadline of every holder, from the FetchOperations reply to the Permit,
\* lies within Gitea's promise; the timer never outlives it; and no holder is
\* ahead of the one it got the version from.
THEOREM ChainRespected == Spec => [](ChainCovered /\ TimerCovers /\ NeverAhead)
<1>1. IInv => ChainCovered /\ TimerCovers /\ NeverAhead
  BY Zenon DEF IInv
<1> QED
  BY Inductive, <1>1, PTL

=============================================================================
