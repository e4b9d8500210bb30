------------------------------ MODULE MCWorker ------------------------------
(* The worker for TLC: the constants are given in the cfg files.           *)
EXTENDS Worker

=============================================================================
