--------------------------- MODULE MCKeyDerivation ---------------------------
(* One operation alone; a block of one byte and a single block are enough. *)
EXTENDS KeyDerivation
=============================================================================
