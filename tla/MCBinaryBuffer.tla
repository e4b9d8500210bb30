--------------------------- MODULE MCBinaryBuffer ---------------------------
(* The binary buffer for TLC: the constants are given in the cfg files.    *)
EXTENDS BinaryBuffer

=============================================================================
