------------------------------ MODULE MCMaster ------------------------------
(* Small instances of the master for TLC.                                  *)
EXTENDS Master

CONSTANTS l1, l2

MCListeners == {l1, l2}
MCOneListener == {l1}

=============================================================================
