-------------------------------- MODULE MCWorker --------------------------------
(***************************************************************************)
(* Finite instances of WorkerProcess.                                      *)
(***************************************************************************)
EXTENDS WorkerProcess

=============================================================================
