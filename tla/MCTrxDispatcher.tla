-------------------------- MODULE MCTrxDispatcher --------------------------
(***************************************************************************)
(* A small instance of the transaction dispatcher for TLC: three events.  *)
(*   1: block 2, a1 -> a2, two logs, one with a routed topic, one not;    *)
(*   2: malformed (nil block or nil transaction);                          *)
(*   3: block 3, a2 deploys contract a1, no logs.                          *)
(* Event 1 has more derived work than event 3, so the waitAndStore of 3   *)
(* can finish first.  Queue capacities of 1 make every send able to block.*)
(***************************************************************************)
EXTENDS TrxDispatcher

CONSTANTS a1, a2, kRouted, kOther

MCNTx == 3
MCBlk == <<2, 2, 3>>
MCFrom == <<a1, a1, a2>>
MCTo == <<a2, Nil, Nil>>
MCContract == <<Nil, Nil, a1>>
MCLogs == <<<<kRouted, kOther>>, <<>>, <<>>>>
MCMalformed == {2}
MCAddr == {a1, a2}
MCTopics == {kRouted, kOther}
MCRouted == {kRouted}

(* Events for the checks of the specification's claims: event 1 sends to  *)
(* its own sender.                                                         *)
MCToSelf == <<a1, Nil, Nil>>
=============================================================================
