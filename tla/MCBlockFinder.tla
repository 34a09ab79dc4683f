--------------------------- MODULE MCBlockFinder ---------------------------
(* BlockFinder with and without the faults.                                *)
EXTENDS BlockFinder

MCScenarios == {{}, {"late"}, {"reorg"}}
=============================================================================
