----------------------------- MODULE MCProcess -----------------------------
(* Small instances of the process. *)
EXTENDS Process

S(fork, faults, iters, blocks, height) ==
    [fork |-> fork, faults |-> faults, iters |-> iters, blocks |-> blocks, l1 |-> height]

\* Iterations come and go; geth reorgs; L1 has events; a node preconfirms.
MCScenarios ==
    {S("shasta", f, 3, 1, 0) : f \in {{"config"}, {"create"}, {"warmup", "funds"},
                                      {"signal", "slow"}}} \cup
    {S("shasta", f, 2, 1, 0) : f \in {{"panic"}, {"reorg", "warmup"}}} \cup
    {S("shasta", f, 1, 4, 0) : f \in {{"reorg", "expected"}, {"expected", "backlog"},
                                      {"reorg", "reconnect"}}} \cup
    {S("shasta", f, 2, 1, 3) : f \in {{"warmup"}, {"reconnect"}, {"slowpoll"}, {"rpclag"}}} \cup
    {S("permissionless", f, 2, 3, 0) : f \in {{"rpc"}, {"fatal", "timeout"}, {"lag"}, {"panic"},
                                              {"signal"}, {"fatal", "slow"}, {"old"},
                                              {"late", "other"}}} \cup
    {S("permissionless", {"dead"}, 3, 3, 0), S("permissionless", {}, 2, 6, 0)}
=============================================================================
