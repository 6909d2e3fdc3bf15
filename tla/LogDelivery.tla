---------------------------- MODULE LogDelivery -----------------------------
(***************************************************************************)
(* What the log of an operation promises, whatever carries it: records are *)
(* accepted one after the other, the log of the current operation receives *)
(* them in that order, each of them once, and a record that was received   *)
(* is never taken back.  Only the last record, and only before it is       *)
(* received, may be withdrawn or written anew; only the records of an      *)
(* operation that is over are forgotten; and the records of an operation   *)
(* never need more room than there is.                                     *)
(***************************************************************************)
EXTENDS Naturals, Sequences

CONSTANTS
    Versions,   \* the operations, in the order in which they are issued
    Fits(_)     \* the sequences of records there is room for

VARIABLES
    current,    \* the current operation; 0 before the first
    accepted,   \* the records accepted for each operation
    received    \* the log of each operation at its reader

deliveryVars == <<current, accepted, received>>

Start ==
    /\ current = 0
    /\ accepted = [v \in Versions |-> << >>]
    /\ received = [v \in Versions |-> << >>]

NextOperation ==
    /\ current' = current + 1
    /\ UNCHANGED <<accepted, received>>

\* All but the last record.
Settled(s) == SubSeq(s, 1, Len(s) - 1)

Accept(v) ==
    /\ accepted[v] = Settled(accepted'[v]) /\ Fits(accepted'[v])
    /\ accepted' = [accepted EXCEPT ![v] = accepted'[v]]
    /\ UNCHANGED <<current, received>>

Withdraw(v) ==
    /\ Len(received[v]) < Len(accepted[v])
    /\ accepted'[v] = Settled(accepted[v])
    /\ accepted' = [accepted EXCEPT ![v] = accepted'[v]]
    /\ UNCHANGED <<current, received>>

Rewrite(v) ==
    /\ Len(received[v]) < Len(accepted[v])
    /\ accepted'[v] # << >> /\ Settled(accepted'[v]) = Settled(accepted[v])
    /\ Fits(accepted'[v])
    /\ accepted' = [accepted EXCEPT ![v] = accepted'[v]]
    /\ UNCHANGED <<current, received>>

Receive ==
    /\ current \in Versions
    /\ Len(received[current]) < Len(accepted[current])
    /\ received' = [received EXCEPT
                      ![current] = Append(@, accepted[current][Len(@) + 1])]
    /\ UNCHANGED <<current, accepted>>

Forget(v) ==
    /\ v <= current
    /\ accepted' = [w \in Versions |-> IF w < v THEN << >> ELSE accepted[w]]
    /\ UNCHANGED <<current, received>>

Proceed ==
    \/ NextOperation \/ Receive
    \/ \E v \in Versions : Accept(v) \/ Withdraw(v) \/ Rewrite(v) \/ Forget(v)

Delivery == Start /\ [][Proceed]_deliveryVars
=============================================================================
