--------------------------- MODULE MCShastaSystem ---------------------------
(* The Shasta node and its surroundings on small instances. *)
EXTENDS ShastaSystem, TLC

S(w, f, x, h, n, t) ==
    [windows |-> w, first |-> f, faults |-> x, height |-> h, fi |-> n, nonce |-> t]

\* The node alone in its turn: blocks, forced inclusions, proposals, retries.
MCOurs == {S({"ours"}, "ours", {}, 4, 2, 4)}

\* The epochs go round; the node takes over expired blocks with a forced
\* inclusion among them; a forced inclusion fails at each of its steps.
MCTurns ==
    {S(AllWindows, "other", {"silentRevert"}, 3, 1, 2),
     S(AllWindows \ {"closing"}, "other", {"stale", "emptyBlocks"}, 4, 1, 2),
     S({"ours"}, "ours",
       {"advanceFi", "fiBlob", "fiParams", "inboxState", "fiHead", "unsynced"}, 4, 1, 3)}

\* Restarts anywhere in the epochs; a forced inclusion falls due;
\* transactions fail, and the driver refuses blocks or takes them unheard.
MCFailures ==
    {S(AllWindows, "other", {"crash", "unsynced", "fiHead", "advance"}, 3, 0, 2),
     S({"ours"}, "ours", {"due", "unsynced", "stepRpc"}, 4, 1, 3),
     S({"ours"}, "ours",
       {"txError", "advance", "advanceLost", "startRpc", "txList", "verifierRpc"}, 2, 0, 2)}

\* The driver refuses a block after a forced inclusion.
MCForcedDropped == {S({"ours"}, "ours", {"advance"}, 4, 1, 2)}
=============================================================================
