---------------------------- MODULE MCKeyStorage ----------------------------
(* Two keys; two key files of one size and a third of another size.        *)
EXTENDS KeyStorage, TLC

CONSTANTS f1, f2, f3   \* model values
MCSizeOf == (f1 :> 1) @@ (f2 :> 1) @@ (f3 :> 2)
=============================================================================
