--------------------------- MODULE MCRealtimeNode ---------------------------
(***************************************************************************)
(* Small instances of RealtimeNode.                                        *)
(***************************************************************************)
EXTENDS RealtimeNode

Base == [mode |-> "normal", faults |-> {}, txs |-> {}, ops |-> 1, time |-> 2, height |-> 3,
         boots |-> 1]

\* Every kind of failure that the node recovers from, the two special modes,
\* and the failures that some property has to exclude.
MCScenarios == {
    [Base EXCEPT !.txs = {10}, !.time = 3,
                 !.faults = {"scan", "advance", "simulate", "encode", "prove", "fiState",
                             "estimate"}],
    [Base EXCEPT !.time = 3, !.faults = {"revert"}],
    [Base EXCEPT !.height = 2, !.faults = {"role", "anchor"}],
    [Base EXCEPT !.txs = {10}, !.mode = "preconfOnly"],
    [Base EXCEPT !.txs = {10}, !.mode = "bypass"],
    [Base EXCEPT !.txs = {10}, !.boots = 2, !.faults = {"dormant", "due", "lag", "crash"}],
    [Base EXCEPT !.boots = 2, !.faults = {"send", "logs", "stop"}]}

\* A failed proof, with batches of one block.
MCProveScenarios == {[Base EXCEPT !.time = 3, !.faults = {"prove"}]}
=============================================================================
