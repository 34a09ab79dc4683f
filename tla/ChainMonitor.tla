--------------------------- MODULE ChainMonitor ----------------------------
(***************************************************************************)
(* The chain monitor of an iteration (common/src/chain_monitor): a task    *)
(* that receives the headers of the L2 blocks as geth adopts them, a task  *)
(* that receives the events of an L1 contract (utils/event_listener.rs),   *)
(* and a dispatcher that counts the reorgs of geth that were not expected. *)
(*                                                                         *)
(* l2[n] is the version of block n: the number of reorgs before it was     *)
(* made, so that the number and the version stand for the hash.            *)
(***************************************************************************)
EXTENDS Supervisor

CONSTANTS
    MaxPerPoll,     \* MAX_BLOCKS_PER_POLL
    QueueSize,      \* MESSAGE_QUEUE_SIZE
    MaxReorgs       \* bound: the number of reorgs of geth

VARIABLES
    l2,         \* the chain of geth
    version,    \* the number of reorgs so far
    surprises,  \* the number of those that the node did not announce
    observed,   \* the metric: the reorgs that the dispatchers counted
    mon,        \* mon[i]: the state of the chain monitor of iteration i
    l1,         \* the height of L1; every block has one event
    ev          \* ev[i]: the event listener of iteration i

monVars == <<l2, version, surprises, observed, mon, l1, ev>>

NewMonitor == [height |-> 0, hash |-> 0, expected |-> 0, up |-> FALSE, queue |-> <<>>]
NewListener == [mode |-> "down", next |-> 0, out |-> <<>>]

MonitorInit ==
    /\ l2 = <<0>> /\ version = 0 /\ surprises = 0 /\ observed = 0
    /\ mon = [i \in Iter |-> NewMonitor]
    /\ l1 = 0
    /\ ev = [i \in Iter |-> NewListener]

----------------------------------------------------------------------------
(* geth and L1 (external). *)

Header(chain) ==
    [number |-> Len(chain), hash |-> chain[Len(chain)],
     parent |-> IF Len(chain) = 1 THEN 0 ELSE chain[Len(chain) - 1]]

\* geth adopts a block; the subscriptions that are up push its header.
Adopt(chain, m) ==
    /\ \A i \in Iter : Len(mon[i].queue) < QueueSize
    /\ l2' = chain
    /\ mon' = [i \in Iter |-> IF m[i].up THEN [m[i] EXCEPT !.queue = Append(@, Header(chain))]
                                         ELSE m[i]]

GethExtends ==
    /\ Len(l2) < scenario.blocks
    /\ Adopt(Append(l2, version), mon)
    /\ UNCHANGED <<version, surprises, observed, l1, ev>>

GethReorgs ==
    \E n \in 1 .. Len(l2) :
        /\ ~Without({"reorg"}) /\ version < MaxReorgs
        /\ version' = version + 1 /\ surprises' = surprises + 1
        /\ Adopt(Append(SubSeq(l2, 1, n - 1), version'), mon)
        /\ UNCHANGED <<observed, l1, ev>>

\* reanchor_blocks announces with set_expected_reorg the block it builds on and
\* then has the driver build, which first sets the head of geth back to that
\* block; the announcement is never taken back.
Announce ==
    \E n \in 1 .. Len(l2) - 1 :
        /\ ~Without({"expected"}) /\ "loop" \in tasks[sup.iter]
        /\ mon[sup.iter].queue = <<>> \/ ~Without({"backlog"})
        /\ mon' = [mon EXCEPT ![sup.iter].expected = n]
        /\ UNCHANGED <<l2, version, surprises, observed, l1, ev>>

NodeReanchors ==
    LET n == mon[sup.iter].expected
    IN /\ n \in 1 .. Len(l2) - 1 /\ version < MaxReorgs
       /\ "loop" \in tasks[sup.iter]
       /\ version' = version + 1
       /\ Adopt(SubSeq(l2, 1, n), mon)
       /\ UNCHANGED <<surprises, observed, l1, ev>>

\* A poller keeps up with L1, unless the scenario says otherwise.
L1Extends ==
    /\ l1 < scenario.l1
    /\ Without({"slowpoll"}) =>
          \A i \in Iter : ev[i].mode = "poll" => l1 + 1 <= ev[i].next + MaxPerPoll
    /\ l1' = l1 + 1
    /\ ev' = [i \in Iter |-> IF ev[i].mode = "sub" THEN [ev[i] EXCEPT !.out = Append(@, l1 + 1)]
                                                   ELSE ev[i]]
    /\ UNCHANGED <<l2, version, surprises, observed, mon>>

----------------------------------------------------------------------------
(***************************************************************************)
(* L2BlockReceiver: listen_for_blocks subscribes, and subscribes again     *)
(* when the subscription fails; what geth adopts in between is not seen.   *)
(***************************************************************************)
Subscribe(i) ==
    /\ "blocks" \in tasks[i] /\ ~mon[i].up /\ ~token[i]
    /\ mon' = [mon EXCEPT ![i].up = TRUE]
    /\ UNCHANGED <<l2, version, surprises, observed, l1, ev>>

Disconnect(i) ==
    /\ mon[i].up
    /\ ~Without({"reconnect"}) \/ "blocks" \notin tasks[i]
    /\ mon' = [mon EXCEPT ![i].up = FALSE]
    /\ UNCHANGED <<l2, version, surprises, observed, l1, ev>>

\* Faulty: an expected reorg leaves the status as it was.
DispatchSkipping(i) ==
    /\ "dispatcher" \in tasks[i] /\ mon[i].queue # <<>>
    /\ LET s == mon[i]
           b == Head(s.queue)
           reorg == s.height # 0 /\ (b.number # s.height + 1 \/ b.parent # s.hash)
           known == reorg /\ b.number = s.expected
       IN /\ observed' = observed + IF reorg /\ ~known THEN 1 ELSE 0
          /\ mon' = [mon EXCEPT ![i] =
                        [s EXCEPT !.queue = Tail(@),
                                  !.height = IF known THEN @ ELSE b.number,
                                  !.hash = IF known THEN @ ELSE b.hash]]
    /\ UNCHANGED <<l2, version, surprises, l1, ev>>

\* handle_incoming_messages, on an L2 block.
Dispatch(i) ==
    /\ "dispatcher" \in tasks[i] /\ mon[i].queue # <<>>
    /\ LET s == mon[i]
           b == Head(s.queue)
           reorg == s.height # 0 /\ (b.number # s.height + 1 \/ b.parent # s.hash)
       IN /\ observed' = observed + IF reorg /\ b.number # s.expected THEN 1 ELSE 0
          /\ mon' = [mon EXCEPT ![i] = [s EXCEPT !.queue = Tail(@),
                                                 !.height = b.number, !.hash = b.hash]]
    /\ UNCHANGED <<l2, version, surprises, l1, ev>>

----------------------------------------------------------------------------
(***************************************************************************)
(* listen_for_event: a subscription or, when that fails, polling from the  *)
(* block after the head; an error leads to a new connection.               *)
(***************************************************************************)
HeadsSeen == IF Without({"rpclag"}) THEN {l1} ELSE {l1, IF l1 = 0 THEN 0 ELSE l1 - 1}

Connect(i) ==
    /\ "events" \in tasks[i] /\ ev[i].mode = "down" /\ ~token[i]
    /\ \/ ev' = [ev EXCEPT ![i].mode = "sub"]
       \/ \E latest \in HeadsSeen :
             ev' = [ev EXCEPT ![i].mode = "poll", ![i].next = latest + 1]
    /\ UNCHANGED <<l2, version, surprises, observed, mon, l1>>

\* Faulty: the block after the last one is fetched again.
PollAgain(i) ==
    /\ "events" \in tasks[i] /\ ev[i].mode = "poll" /\ l1 >= ev[i].next
    /\ ev' = [ev EXCEPT ![i].next = l1,
                        ![i].out = @ \o [k \in 1 .. l1 - ev[i].next + 1 |-> ev[i].next + k - 1]]
    /\ UNCHANGED <<l2, version, surprises, observed, mon, l1>>

\* An iteration of run_polling_loop: after too large a gap, only the last blocks.
Poll(i) ==
    /\ "events" \in tasks[i] /\ ev[i].mode = "poll"
    /\ \E latest \in HeadsSeen :
          LET first == IF latest > ev[i].next + MaxPerPoll
                       THEN latest - MaxPerPoll ELSE ev[i].next
          IN /\ latest >= ev[i].next
             /\ ev' = [ev EXCEPT ![i].next = latest + 1,
                                 ![i].out = @ \o [k \in 1 .. latest - first + 1 |-> first + k - 1]]
    /\ UNCHANGED <<l2, version, surprises, observed, mon, l1>>

ListenerFails(i) ==
    /\ ev[i].mode # "down"
    /\ ~Without({"reconnect"}) \/ "events" \notin tasks[i]
    /\ ev' = [ev EXCEPT ![i].mode = "down"]
    /\ UNCHANGED <<l2, version, surprises, observed, mon, l1>>

ChainSteps == GethExtends \/ GethReorgs \/ Announce \/ NodeReanchors \/ L1Extends

MonitorSteps ==
    \E i \in Iter : Subscribe(i) \/ Disconnect(i) \/ Dispatch(i)
                    \/ Connect(i) \/ Poll(i) \/ ListenerFails(i)
=============================================================================
