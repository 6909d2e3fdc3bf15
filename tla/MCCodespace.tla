---------------------------- MODULE MCCodespace -----------------------------
(***************************************************************************)
(* Codespace, and Codespace with a choice between several operations and   *)
(* disturbances: either nothing disturbs a sequence of operations, or all  *)
(* disturbances come while there is only the first one.                    *)
(***************************************************************************)
EXTENDS Codespace

OneTrouble == faults' = 0 \/ op'.version <= 1

MCFairSpec == Init /\ [][Next /\ OneTrouble]_vars /\ Fairness
=============================================================================
