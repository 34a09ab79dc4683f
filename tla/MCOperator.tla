----------------------------- MODULE MCOperator -----------------------------
(***************************************************************************)
(* Small instances of Operator: two nodes and two epochs and a half.       *)
(***************************************************************************)
EXTENDS Operator

MCScenarios == {
    {"lag", "gossip"},
    {"lag", "gossip", "eject"},
    {"lag", "gossip", "cold", "driver"},
    {"lag", "cold", "restart"},
    {"lag", "fork"},
    {"gossip", "unsynced"},
    {"early"},
    {"replace"}}
=============================================================================
