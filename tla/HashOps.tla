------------------------------ MODULE HashOps -------------------------------
(***************************************************************************)
(* Multi-part hash operations: the state checks of psa_hash_xxx            *)
(* (psa_crypto.c) over iotex_sha256_xxx (psa_crypto_porting.c), which      *)
(* keeps every SHA-256 state in a block of the heap.  An operation whose   *)
(* state could not be allocated works on a NULL pointer, which TinyCrypt   *)
(* refuses and the porting layer does not report.                          *)
(*                                                                         *)
(* The digest of a message is the message.  A call that fails does what    *)
(* psa_hash_abort does and nothing else; an empty update does nothing.     *)
(***************************************************************************)
EXTENDS Heap

CONSTANTS
    HashObjects,    \* the operation objects of the application
    Fragments,      \* what it passes to psa_hash_update
    MaxFragments    \* bound on the number of fragments of a message

ASSUME HashAssumption == MaxFragments \in Nat /\ "!" \notin Fragments

VARIABLES
    hash,           \* hash[o]: the operation object, and its message
    computed        \* whether the last one-shot hash gave a digest

hashVars == <<hash, computed>>

Messages == UNION {[1 .. n -> Fragments] : n \in 0 .. MaxFragments}

(* What the output buffer was filled with before the hash.                 *)
NoDigest == <<"!">>
Digests == Messages \cup {NoDigest}

(* PSA_HASH_OPERATION_INIT clears the algorithm and not the pointer, which *)
(* may hold what was in that memory before.                                *)
Stale == -1

(* id and ptr are the object's.  The rest is the application's: what it    *)
(* has passed, the digest it got and whether psa_hash_finish succeeded.    *)
HashOperation ==
    [id : BOOLEAN, ptr : {Stale, Null} \cup Blocks, said : Messages,
     digest : Digests, finished : BOOLEAN]

HashZero == [id |-> FALSE, ptr |-> Null, said |-> <<>>, digest |-> NoDigest,
             finished |-> FALSE]

FreshObjects == [HashObjects -> {[HashZero EXCEPT !.ptr = p] :
                                    p \in {Null, Stale}}]

HashInit ==
    /\ hash \in FreshObjects
    /\ computed = TRUE

(* iotex_sha256_init: what malloc returns, and the heap after it.          *)
Allocated == IF FreeBlocks = {} THEN Null ELSE FirstFree
With(h, p, block) == IF p = Null THEN h ELSE [h EXCEPT ![p] = block]

(* psa_hash_setup: whether there is a state is not looked at.              *)
HashSetup(o) ==
    /\ ~hash[o].id
    /\ hash' = [hash EXCEPT ![o] =
                    [HashZero EXCEPT !.id = TRUE, !.ptr = Allocated]]
    /\ heap' = With(heap, Allocated, ShaBlock(<<>>))
    /\ UNCHANGED computed

(* psa_hash_update: a NULL state absorbs nothing, and the call succeeds.   *)
HashUpdate(o, f) ==
    LET h == hash[o]
    IN  /\ h.id
        /\ Len(h.said) < MaxFragments
        /\ hash' = [hash EXCEPT ![o].said = Append(@, f)]
        /\ heap' = IF h.ptr = Null THEN heap
                   ELSE [heap EXCEPT ![h.ptr].absorbed = Append(@, f)]
        /\ UNCHANGED computed

DigestOf(p) == IF p = Null THEN NoDigest ELSE heap[p].absorbed

(* psa_hash_finish, and psa_hash_verify before it compares.  psa_hash_abort*)
(* ends it, and frees the state.                                           *)
HashFinish(o) ==
    LET h == hash[o]
    IN  /\ h.id
        /\ hash' = [hash EXCEPT ![o] =
                        [HashZero EXCEPT !.said = h.said,
                                         !.digest = DigestOf(h.ptr),
                                         !.finished = TRUE]]
        /\ heap' = With(heap, h.ptr, FreeBlock)
        /\ UNCHANGED computed

HashAbort(o) ==
    /\ hash[o].id
    /\ hash' = [hash EXCEPT ![o] = HashZero]
    /\ heap' = With(heap, hash[o].ptr, FreeBlock)
    /\ UNCHANGED computed

(* iotex_sha256_clone: a target without a state is given one by            *)
(* iotex_sha256_init, and then another.  The first is never freed.         *)
CloneAllocates(dst) == IF hash[dst].ptr = Null THEN 2 ELSE 1

CloneTarget(dst) ==
    OneOf(FreeBlocks \ (IF hash[dst].ptr = Null THEN {FirstFree} ELSE {}))

CanClone(src, dst) == hash[src].id /\ ~hash[dst].id

(* A copy from or to NULL stops the processor.                             *)
CloneFaults(src, dst) ==
    \/ hash[src].ptr = Null
    \/ Cardinality(FreeBlocks) < CloneAllocates(dst)

HashClone_Shallow(src, dst) ==  \* mutant: the state is not copied
    /\ CanClone(src, dst)
    /\ hash' = [hash EXCEPT ![dst] =
                    [HashZero EXCEPT !.id = TRUE, !.ptr = hash[src].ptr,
                                     !.said = hash[src].said]]
    /\ UNCHANGED <<heap, computed>>

HashClone_Empty(src, dst) ==    \* mutant: the new state is not filled
    /\ CanClone(src, dst) /\ ~CloneFaults(src, dst)
    /\ heap' = With(heap, FirstFree, ShaBlock(<<>>))
    /\ hash' = [hash EXCEPT ![dst] =
                    [HashZero EXCEPT !.id = TRUE, !.ptr = FirstFree,
                                     !.said = hash[src].said]]
    /\ UNCHANGED computed

HashClone(src, dst) ==
    LET copy == heap[hash[src].ptr]
        leaked == IF hash[dst].ptr = Null
                  THEN With(heap, FirstFree, ShaBlock(<<>>)) ELSE heap
    IN  /\ CanClone(src, dst)
        /\ ~CloneFaults(src, dst)
        /\ heap' = With(leaked, CloneTarget(dst), copy)
        /\ hash' = [hash EXCEPT ![dst] =
                        [HashZero EXCEPT !.id = TRUE,
                                         !.ptr = CloneTarget(dst),
                                         !.said = hash[src].said]]
        /\ UNCHANGED computed

(* psa_hash_compute: an operation of its own, begun and ended in one call, *)
(* which reports success.                                                  *)
HashCompute ==
    /\ computed' = (Allocated # Null)
    /\ UNCHANGED <<hash, heap>>

HashNext ==
    \/ \E o \in HashObjects :
        \/ HashSetup(o)
        \/ \E f \in Fragments : HashUpdate(o, f)
        \/ HashFinish(o)
        \/ HashAbort(o)
    \/ \E src, dst \in HashObjects : HashClone(src, dst)
    \/ HashCompute

(***************************************************************************)
(* Properties                                                              *)
(***************************************************************************)
HashTypeOK ==
    /\ hash \in [HashObjects -> HashOperation]
    /\ computed \in BOOLEAN

(* Every active operation that has a state has one of its own, which was   *)
(* not freed under it and has absorbed what was passed to this operation   *)
(* and nothing else, clones included (the comment of iotex_sha256_clone).  *)
OwnState ==
    \A o \in HashObjects :
        LET h == hash[o]
        IN  h.id /\ h.ptr # Null =>
                /\ h.ptr \in Blocks /\ heap[h.ptr] = ShaBlock(h.said)
                /\ \A p \in HashObjects \ {o} :
                        hash[p].id => hash[p].ptr # h.ptr

(* psa_hash_finish: a digest, where there is one, is that of the           *)
(* operation's own input, clones included.                                 *)
DigestIsRightOrMissing ==
    \A o \in HashObjects :
        hash[o].finished => hash[o].digest \in {hash[o].said, NoDigest}
=============================================================================
