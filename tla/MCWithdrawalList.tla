-------------------------- MODULE MCWithdrawalList --------------------------
(***************************************************************************)
(* A small instance of the withdraw request list for TLC: three keys, two *)
(* creation times, page sizes from -2 to 2.                                *)
(***************************************************************************)
EXTENDS WithdrawalList

MCPks == 1..3
MCTimes == 1..2
MCCounts == -2..2
=============================================================================
