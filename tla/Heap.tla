-------------------------------- MODULE Heap --------------------------------
(***************************************************************************)
(* The C heap, as the operation objects of the PSA core use it: the AES    *)
(* contexts of cipher operations and the SHA-256 states of hash operations *)
(* are blocks of it.  malloc returns NULL when no block is left.           *)
(***************************************************************************)
EXTENDS Integers, Sequences, FiniteSets

CONSTANT HeapSize       \* blocks that the rest of the program leaves free

ASSUME HeapAssumption == HeapSize \in Nat

VARIABLE heap           \* heap[b]: what block b holds

Null == 0
Blocks == 1 .. HeapSize

FreeBlock == [use |-> "free", absorbed |-> <<>>]
AesBlock == [use |-> "aes", absorbed |-> <<>>]
ShaBlock(absorbed) == [use |-> "sha", absorbed |-> absorbed]

FreeBlocks == {b \in Blocks : heap[b].use = "free"}

(* malloc takes a free block.  Which one it takes changes nothing.         *)
OneOf(blocks) == CHOOSE b \in blocks : TRUE
FirstFree == OneOf(FreeBlocks)

HeapInit == heap = [b \in Blocks |-> FreeBlock]
=============================================================================
