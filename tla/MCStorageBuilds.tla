-------------------------- MODULE MCStorageBuilds --------------------------
(***************************************************************************)
(* Two uids; over NVS two key files of one size and a third of another.    *)
(* On flash uid 11 has the first place again, and 6 has none in the block. *)
(* A header fills a place.  Of the files one loses its end at the first    *)
(* place, and one lands even when it is written at the second.             *)
(***************************************************************************)
EXTENDS StorageBuilds, TLC

CONSTANTS f1, f2, f3   \* model values
MCSizeOf == (f1 :> 1) @@ (f2 :> 1) @@ (f3 :> 2)
MCFileSizeOf == (f1 :> 1) @@ (f2 :> 2)
MCCellsOf == (f2 :> 3) @@ (f3 :> 5)
=============================================================================
