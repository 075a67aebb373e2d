---------------------- MODULE MCTrxDispatcherRestart ----------------------
(***************************************************************************)
(* The instance of MCTrxDispatcher, with crashes of the process.          *)
(***************************************************************************)
EXTENDS TrxDispatcherRestart, MCTrxDispatcher

=============================================================================
