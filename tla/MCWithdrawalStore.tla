------------------------- MODULE MCWithdrawalStore -------------------------
(***************************************************************************)
(* Two delegators, one validator, two request IDs: two requests of each  *)
(* pair, each added up to twice (a log handled again after a restart adds *)
(* same request twice).                                                    *)
(***************************************************************************)
EXTENDS WithdrawalStore

CONSTANTS d1, d2, v1, r1, r2

=============================================================================
