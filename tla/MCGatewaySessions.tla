-------------------------- MODULE MCGatewaySessions --------------------------
(***************************************************************************)
(* GatewaySessions with two users, who open two endpoints of a codespace,  *)
(* at one replica; or with one user, whose tickets two replicas see, while *)
(* no connection begins.                                                   *)
(***************************************************************************)
EXTENDS GatewaySessions

VARIABLE setting

TwoUsers == {[user |-> 1, cs |-> "c", ep |-> "web"], [user |-> 2, cs |-> "c", ep |-> "port"]}

MCInit == Init /\ setting \in {"one replica", "one user"}

MCNext ==
    /\ Next /\ UNCHANGED setting
    /\ setting = "one replica" => reg'["r2"] = NewRegistry
    /\ setting = "one user" =>
          /\ \A id \in DOMAIN tickets' : tickets'[id].b.user = 1
          /\ \A r \in Replicas : reg'[r].nextLive = 0

MCSpec == MCInit /\ [][MCNext]_<<vars, setting>>
=============================================================================
