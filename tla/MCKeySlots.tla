----------------------------- MODULE MCKeySlots -----------------------------
EXTENDS KeySlots, TLC

(* Two slots and three persistent ids, so that keys compete for slots; the *)
(* volatile ids follow the slots.                                          *)
MCPersistentIds == 1 .. 3
MCVolatileMin == 4

MCSymmetry == Permutations(Materials) \cup Permutations(Tasks)
=============================================================================
