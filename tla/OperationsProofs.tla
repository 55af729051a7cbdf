-------------------------- MODULE OperationsProofs --------------------------
(***************************************************************************)
(* For a heap of any size, any objects and any messages: hash operations   *)
(* never share a state or use one that was freed, whatever the cipher      *)
(* operations beside them take from the heap.  For any block size and any  *)
(* messages, cut in any way: ciphers lose and move no byte.                *)
(***************************************************************************)
EXTENDS Operations, FiniteSetTheorems, SequenceTheorems, TLAPS

(* The digest of an operation is that of its input: it needs the state to  *)
(* be the operation's own, and that no active operation has a digest yet.  *)
HashInv ==
    /\ HeapTypeOK
    /\ HashTypeOK
    /\ OwnState
    /\ DigestIsRightOrMissing
    /\ \A o \in HashObjects : hash[o].id => ~hash[o].finished

LEMMA FirstFreeIsFree ==
    ASSUME FreeBlocks # {} PROVE FirstFree \in FreeBlocks
BY DEF FirstFree, OneOf

LEMMA AppendIsMessage ==
    ASSUME NEW m \in Messages, NEW f \in Fragments, Len(m) < MaxFragments
    PROVE  Append(m, f) \in Messages
<1>1. PICK n \in 0 .. MaxFragments : m \in [1 .. n -> Fragments]
    BY DEF Messages
<1>2. m \in Seq(Fragments) /\ Len(m) = n
    BY <1>1, HashAssumption
<1>3. Append(m, f) \in [1 .. n + 1 -> Fragments]
    <2>1. Append(m, f) \in Seq(Fragments) /\ Len(Append(m, f)) = n + 1
        BY <1>2, AppendProperties
    <2> QED
        BY <2>1, LenProperties
<1>4. n + 1 \in 0 .. MaxFragments
    BY <1>1, <1>2, HashAssumption
<1> QED
    BY <1>3, <1>4 DEF Messages

LEMMA NoMessage == <<>> \in Messages
<1>1. 0 \in 0 .. MaxFragments /\ <<>> \in [1 .. 0 -> Fragments]
    BY HashAssumption
<1> QED
    BY <1>1 DEF Messages

(* The clone goes to a free block, and to another than the state that is   *)
(* leaked before it.                                                       *)
LEMMA CloneTargetIsFree ==
    ASSUME NEW src \in HashObjects, NEW dst \in HashObjects,
           ~CloneFaults(src, dst)
    PROVE  /\ CloneTarget(dst) \in FreeBlocks
           /\ FirstFree \in FreeBlocks
           /\ hash[dst].ptr = Null => CloneTarget(dst) # FirstFree
<1>1. IsFiniteSet(FreeBlocks) /\ Cardinality(FreeBlocks) \in Nat
    <2>1. IsFiniteSet(Blocks)
        BY FS_Interval, HeapAssumption DEF Blocks
    <2>2. FreeBlocks \subseteq Blocks
        BY DEF FreeBlocks
    <2> QED
        BY <2>1, <2>2, FS_Subset, FS_CardinalityType
<1>2. FreeBlocks # {}
    BY <1>1, FS_EmptySet DEF CloneFaults, CloneAllocates
<1>3. FirstFree \in FreeBlocks
    BY <1>2, FirstFreeIsFree
<1>4. CASE hash[dst].ptr = Null
    <2>1. Cardinality(FreeBlocks \ {FirstFree}) = Cardinality(FreeBlocks) - 1
        BY <1>1, <1>3, FS_RemoveElement
    <2>2. Cardinality(FreeBlocks) >= 2
        BY <1>1, <1>4 DEF CloneFaults, CloneAllocates
    <2>3. FreeBlocks \ {FirstFree} # {}
        BY <1>1, <2>1, <2>2, FS_EmptySet
    <2> QED
        BY <1>3, <1>4, <2>3 DEF CloneTarget, OneOf
<1>5. CASE hash[dst].ptr # Null
    BY <1>2, <1>3, <1>5 DEF CloneTarget, OneOf
<1> QED
    BY <1>4, <1>5

LEMMA InitHolds == Init => HashInv
<1> SUFFICES ASSUME Init PROVE HashInv
    OBVIOUS
<1> USE DEF Init, HeapInit, HashInit, FreshObjects, HashZero, FreeBlock, Null, Stale
<1>1. HeapTypeOK
    BY DEF HeapTypeOK
<1>2. HashTypeOK
    <2>1. \A p \in {Null, Stale} : [HashZero EXCEPT !.ptr = p] \in HashOperation
        BY NoMessage DEF HashOperation, Digests
    <2> QED
        BY <2>1 DEF HashTypeOK
<1> QED
    BY <1>1, <1>2 DEF HashInv, OwnState, DigestIsRightOrMissing

(* What the cipher operations do to the heap, and psa_hash_compute not.    *)
LEMMA TakingAFreeBlock ==
    ASSUME HashInv, hash' = hash, computed' \in BOOLEAN,
           \/ heap' = heap
           \/ FreeBlocks # {} /\ heap' = [heap EXCEPT ![FirstFree] = AesBlock]
    PROVE  HashInv'
<1>1. CASE heap' = heap
    BY <1>1 DEF HashInv, HeapTypeOK, HashTypeOK, OwnState, DigestIsRightOrMissing
<1>2. CASE FreeBlocks # {} /\ heap' = [heap EXCEPT ![FirstFree] = AesBlock]
    <2>1. FirstFree \in Blocks /\ heap[FirstFree].use = "free"
        BY <1>2, FirstFreeIsFree DEF FreeBlocks
    <2>2. HeapTypeOK'
        BY <1>2, <2>1 DEF HashInv, HeapTypeOK
    <2>3. HashTypeOK'
        BY DEF HashInv, HashTypeOK
    <2>4. OwnState'
        <3> SUFFICES ASSUME NEW o \in HashObjects, hash[o].id, hash[o].ptr # Null
                     PROVE  /\ hash[o].ptr \in Blocks
                            /\ heap'[hash[o].ptr] = ShaBlock(hash[o].said)
                            /\ \A p \in HashObjects \ {o} :
                                  hash[p].id => hash[p].ptr # hash[o].ptr
            BY DEF OwnState
        <3>1. /\ hash[o].ptr \in Blocks
              /\ heap[hash[o].ptr] = ShaBlock(hash[o].said)
            BY DEF HashInv, OwnState
        <3>2. hash[o].ptr # FirstFree
            BY <2>1, <3>1 DEF ShaBlock
        <3>3. heap'[hash[o].ptr] = heap[hash[o].ptr]
            BY <1>2, <3>1, <3>2 DEF HashInv, HeapTypeOK
        <3> QED
            BY <3>1, <3>3 DEF HashInv, OwnState
    <2> QED
        BY <2>2, <2>3, <2>4 DEF HashInv, DigestIsRightOrMissing
<1> QED
    BY <1>1, <1>2

LEMMA CipherStep ==
    ASSUME HashInv, CipherNext, UNCHANGED hashVars PROVE HashInv'
<1>1. hash' = hash /\ computed' \in BOOLEAN
    BY DEF hashVars, HashInv, HashTypeOK
<1>2. \/ heap' = heap
      \/ FreeBlocks # {} /\ heap' = [heap EXCEPT ![FirstFree] = AesBlock]
    BY DEF CipherNext, CipherCall, CipherSetup, CipherSetupFails, CipherSetIv,
           CipherUpdate, CipherFinish, CipherAbort, CipherOneShot
<1> QED
    BY <1>1, <1>2, TakingAFreeBlock

(* A call on object o leaves it as h: what the heap after the call must    *)
(* hold for the invariant to survive.                                      *)
LEMMA ObjectChanges ==
    ASSUME HashInv, NEW o \in HashObjects, NEW h \in HashOperation,
           hash' = [hash EXCEPT ![o] = h], computed' = computed,
           HeapTypeOK',
           \A p \in HashObjects \ {o} :
              hash[p].id /\ hash[p].ptr # Null =>
                 /\ heap'[hash[p].ptr] = heap[hash[p].ptr]
                 /\ h.id => hash[p].ptr # h.ptr,
           h.id /\ h.ptr # Null =>
              h.ptr \in Blocks /\ heap'[h.ptr] = ShaBlock(h.said),
           h.id => ~h.finished,
           h.finished => h.digest \in {h.said, NoDigest}
    PROVE  HashInv'
<1>1. /\ \A p \in HashObjects : hash'[p] = IF p = o THEN h ELSE hash[p]
      /\ hash' \in [HashObjects -> HashOperation]
    BY DEF HashInv, HashTypeOK
<1>2. HashTypeOK'
    BY <1>1 DEF HashInv, HashTypeOK
<1>3. OwnState'
    <2> SUFFICES ASSUME NEW p \in HashObjects, hash'[p].id, hash'[p].ptr # Null
                 PROVE  /\ hash'[p].ptr \in Blocks
                        /\ heap'[hash'[p].ptr] = ShaBlock(hash'[p].said)
                        /\ \A q \in HashObjects \ {p} :
                              hash'[q].id => hash'[q].ptr # hash'[p].ptr
        BY DEF OwnState
    <2>1. CASE p = o
        BY <1>1, <2>1
    <2>2. CASE p # o
        <3>1. /\ hash[p].ptr \in Blocks
              /\ heap[hash[p].ptr] = ShaBlock(hash[p].said)
              /\ \A q \in HashObjects \ {p} :
                    hash[q].id => hash[q].ptr # hash[p].ptr
            BY <1>1, <2>2 DEF HashInv, OwnState
        <3> QED
            BY <1>1, <2>2, <3>1
    <2> QED
        BY <2>1, <2>2
<1>4. DigestIsRightOrMissing'
    BY <1>1 DEF HashInv, DigestIsRightOrMissing
<1>5. \A p \in HashObjects : hash'[p].id => ~hash'[p].finished
    BY <1>1 DEF HashInv
<1> QED
    BY <1>2, <1>3, <1>4, <1>5 DEF HashInv

(* Blocks that the operations own are not free.                            *)
LEMMA OwnedIsNotFree ==
    ASSUME HashInv, NEW p \in HashObjects, hash[p].id, hash[p].ptr # Null
    PROVE  hash[p].ptr \in Blocks \ FreeBlocks
<1>1. hash[p].ptr \in Blocks /\ heap[hash[p].ptr] = ShaBlock(hash[p].said)
    BY DEF HashInv, OwnState
<1>2. heap[hash[p].ptr].use # "free"
    BY <1>1 DEF ShaBlock
<1> QED
    BY <1>1, <1>2 DEF FreeBlocks

LEMMA SetupStep ==
    ASSUME HashInv, NEW o \in HashObjects, HashSetup(o) PROVE HashInv'
<1> DEFINE h == [HashZero EXCEPT !.id = TRUE, !.ptr = Allocated]
<1>1. Allocated = Null \/ Allocated \in FreeBlocks
    BY FirstFreeIsFree DEF Allocated
<1>2. FreeBlocks \subseteq Blocks /\ Null \notin Blocks
    BY HeapAssumption DEF FreeBlocks, Blocks, Null
<1>3. h \in HashOperation
    BY <1>1, <1>2, NoMessage DEF HashZero, HashOperation, Digests
<1>4. HeapTypeOK'
    BY <1>1, <1>2, NoMessage DEF HashSetup, With, HashInv, HeapTypeOK
<1>5. ASSUME NEW p \in HashObjects \ {o}, hash[p].id, hash[p].ptr # Null
      PROVE  heap'[hash[p].ptr] = heap[hash[p].ptr] /\ hash[p].ptr # Allocated
    BY <1>1, <1>2, <1>5, OwnedIsNotFree DEF HashSetup, With, HashInv, HeapTypeOK
<1>6. Allocated # Null => Allocated \in Blocks /\ heap'[Allocated] = ShaBlock(<<>>)
    BY <1>1, <1>2 DEF HashSetup, With, HashInv, HeapTypeOK
<1>7. /\ h.id /\ h.ptr = Allocated /\ h.said = <<>> /\ ~h.finished
      /\ hash' = [hash EXCEPT ![o] = h] /\ computed' = computed
    BY DEF HashZero, HashSetup
<1> HIDE DEF h
<1>8. \A p \in HashObjects \ {o} :
        hash[p].id /\ hash[p].ptr # Null =>
            heap'[hash[p].ptr] = heap[hash[p].ptr] /\ hash[p].ptr # h.ptr
    BY <1>5, <1>7
<1>9. h.ptr # Null => h.ptr \in Blocks /\ heap'[h.ptr] = ShaBlock(h.said)
    BY <1>6, <1>7
<1> QED
    BY <1>3, <1>4, <1>7, <1>8, <1>9, ObjectChanges

LEMMA UpdateStep ==
    ASSUME HashInv, NEW o \in HashObjects, NEW f \in Fragments, HashUpdate(o, f)
    PROVE  HashInv'
<1> DEFINE h == [hash[o] EXCEPT !.said = Append(hash[o].said, f)]
<1>1. hash[o] \in HashOperation /\ hash[o].id /\ ~hash[o].finished
    BY DEF HashInv, HashTypeOK, HashUpdate
<1>2. Append(hash[o].said, f) \in Messages
    BY <1>1, AppendIsMessage DEF HashOperation, HashUpdate
<1>3. h \in HashOperation /\ h.id /\ h.ptr = hash[o].ptr /\ ~h.finished
      /\ h.said = Append(hash[o].said, f)
    BY <1>1, <1>2 DEF HashOperation
<1>4. hash' = [hash EXCEPT ![o] = h] /\ computed' = computed
    BY DEF HashUpdate
<1>5. h.ptr # Null => /\ h.ptr \in Blocks
                      /\ heap' = [heap EXCEPT ![h.ptr] = ShaBlock(h.said)]
    <2> SUFFICES ASSUME hash[o].ptr # Null
                 PROVE  /\ hash[o].ptr \in Blocks
                        /\ heap' = [heap EXCEPT ![hash[o].ptr] = ShaBlock(h.said)]
        BY <1>3
    <2>1. hash[o].ptr \in Blocks /\ heap[hash[o].ptr] = ShaBlock(hash[o].said)
        BY <1>1 DEF HashInv, OwnState
    <2>2. heap' = [heap EXCEPT ![hash[o].ptr].absorbed = Append(@, f)]
        BY DEF HashUpdate
    <2>3. [heap[hash[o].ptr] EXCEPT !.absorbed = Append(hash[o].said, f)]
            = ShaBlock(Append(hash[o].said, f))
        BY <2>1 DEF ShaBlock
    <2>4. heap[hash[o].ptr].absorbed = hash[o].said
        BY <2>1 DEF ShaBlock
    <2> HIDE DEF h
    <2> QED
        BY <1>3, <2>1, <2>2, <2>3, <2>4
<1>6. h.ptr = Null => heap' = heap
    BY <1>3 DEF HashUpdate
<1>7. HeapTypeOK'
    BY <1>2, <1>3, <1>5, <1>6 DEF HashInv, HeapTypeOK
<1>8. ASSUME NEW p \in HashObjects \ {o}, hash[p].id, hash[p].ptr # Null
      PROVE  heap'[hash[p].ptr] = heap[hash[p].ptr] /\ hash[p].ptr # h.ptr
    <2>1. hash[p].ptr \in Blocks /\ hash[p].ptr # hash[o].ptr
        BY <1>1, <1>8 DEF HashInv, OwnState
    <2> QED
        BY <1>3, <1>5, <1>6, <2>1 DEF HashInv, HeapTypeOK
<1>9. h.ptr # Null => heap'[h.ptr] = ShaBlock(h.said)
    BY <1>5 DEF HashInv, HeapTypeOK
<1> HIDE DEF h
<1>10. \A p \in HashObjects \ {o} :
        hash[p].id /\ hash[p].ptr # Null =>
            heap'[hash[p].ptr] = heap[hash[p].ptr] /\ hash[p].ptr # h.ptr
    BY <1>8
<1>11. h.ptr # Null => h.ptr \in Blocks /\ heap'[h.ptr] = ShaBlock(h.said)
    BY <1>5, <1>9
<1> QED
    BY <1>3, <1>4, <1>7, <1>10, <1>11, ObjectChanges

(* psa_hash_finish and psa_hash_abort both free the state.                 *)
LEMMA FreeingAState ==
    ASSUME HashInv, NEW o \in HashObjects, hash[o].id,
           heap' = With(heap, hash[o].ptr, FreeBlock)
    PROVE  /\ HeapTypeOK'
           /\ \A p \in HashObjects \ {o} :
                hash[p].id /\ hash[p].ptr # Null =>
                    heap'[hash[p].ptr] = heap[hash[p].ptr]
<1>1. hash[o].ptr # Null => hash[o].ptr \in Blocks
    BY DEF HashInv, OwnState
<1>2. HeapTypeOK'
    BY <1>1 DEF With, HashInv, HeapTypeOK
<1>3. ASSUME NEW p \in HashObjects \ {o}, hash[p].id, hash[p].ptr # Null
      PROVE  heap'[hash[p].ptr] = heap[hash[p].ptr]
    <2>1. hash[p].ptr \in Blocks /\ hash[p].ptr # hash[o].ptr
        BY <1>3 DEF HashInv, OwnState
    <2> QED
        BY <2>1 DEF With, HashInv, HeapTypeOK
<1> QED
    BY <1>2, <1>3

LEMMA FinishStep ==
    ASSUME HashInv, NEW o \in HashObjects, HashFinish(o) PROVE HashInv'
<1> DEFINE h == [HashZero EXCEPT !.said = hash[o].said,
                                 !.digest = DigestOf(hash[o].ptr),
                                 !.finished = TRUE]
<1>1. hash[o] \in HashOperation /\ hash[o].id
    BY DEF HashInv, HashTypeOK, HashFinish
<1>2. DigestOf(hash[o].ptr) \in {hash[o].said, NoDigest}
    <2>1. hash[o].ptr # Null => heap[hash[o].ptr] = ShaBlock(hash[o].said)
        BY <1>1 DEF HashInv, OwnState
    <2> QED
        BY <2>1 DEF DigestOf, ShaBlock
<1>3. h \in HashOperation
    BY <1>1, <1>2 DEF HashZero, HashOperation, Digests
<1>4. /\ ~h.id /\ h.digest \in {h.said, NoDigest}
      /\ hash' = [hash EXCEPT ![o] = h] /\ computed' = computed
    BY <1>2 DEF HashZero, HashFinish
<1>5. heap' = With(heap, hash[o].ptr, FreeBlock)
    BY DEF HashFinish
<1> HIDE DEF h
<1> QED
    BY <1>1, <1>3, <1>4, <1>5, FreeingAState, ObjectChanges

LEMMA AbortStep ==
    ASSUME HashInv, NEW o \in HashObjects, HashAbort(o) PROVE HashInv'
<1>1. hash[o].id /\ heap' = With(heap, hash[o].ptr, FreeBlock)
    BY DEF HashAbort
<1>2. HashZero \in HashOperation
    BY NoMessage DEF HashZero, HashOperation, Digests
<1>3. ~HashZero.id /\ ~HashZero.finished
    BY DEF HashZero
<1>4. hash' = [hash EXCEPT ![o] = HashZero] /\ computed' = computed
    BY DEF HashAbort
<1> QED
    BY <1>1, <1>2, <1>3, <1>4, FreeingAState, ObjectChanges

LEMMA CloneStep ==
    ASSUME HashInv, NEW src \in HashObjects, NEW dst \in HashObjects,
           HashClone(src, dst)
    PROVE  HashInv'
<1> DEFINE target == CloneTarget(dst)
           h == [HashZero EXCEPT !.id = TRUE, !.ptr = target,
                                 !.said = hash[src].said]
           leaked == IF hash[dst].ptr = Null
                     THEN With(heap, FirstFree, ShaBlock(<<>>)) ELSE heap
<1>1. /\ target \in FreeBlocks /\ FirstFree \in FreeBlocks
      /\ FreeBlocks \subseteq Blocks /\ Null \notin Blocks
    BY CloneTargetIsFree, HeapAssumption
       DEF HashClone, FreeBlocks, Blocks, Null
<1>2. /\ hash[src] \in HashOperation /\ hash[src].id /\ hash[src].ptr # Null
    BY DEF HashClone, CanClone, CloneFaults, HashInv, HashTypeOK
<1>3. heap[hash[src].ptr] = ShaBlock(hash[src].said)
    BY <1>2 DEF HashInv, OwnState
<1>4. /\ hash[src].said \in Messages
      /\ target \in Blocks
    BY <1>1, <1>2 DEF HashOperation
<1>5. h \in HashOperation
    BY <1>4, NoMessage DEF HashZero, HashOperation, Digests
<1>6. /\ h.id /\ ~h.finished /\ h.ptr = target /\ h.said = hash[src].said
      /\ hash' = [hash EXCEPT ![dst] = h] /\ computed' = computed
    BY DEF HashZero, HashClone
<1>7. /\ leaked \in [Blocks -> {FreeBlock, AesBlock}
                                \cup {ShaBlock(m) : m \in Messages}]
      /\ \A b \in Blocks \ FreeBlocks : leaked[b] = heap[b]
    BY <1>1, NoMessage DEF With, HashInv, HeapTypeOK
<1>8. heap' = [leaked EXCEPT ![target] = ShaBlock(hash[src].said)]
    BY <1>1, <1>3 DEF HashClone, With
<1> HIDE DEF h, leaked, target
<1>9. HeapTypeOK'
    BY <1>4, <1>7, <1>8 DEF HeapTypeOK
<1>10. heap'[h.ptr] = ShaBlock(h.said)
    BY <1>4, <1>6, <1>7, <1>8
<1>11. ASSUME NEW p \in HashObjects \ {dst}, hash[p].id, hash[p].ptr # Null
       PROVE  heap'[hash[p].ptr] = heap[hash[p].ptr] /\ hash[p].ptr # h.ptr
    <2>1. hash[p].ptr \in Blocks \ FreeBlocks
        BY <1>11, OwnedIsNotFree
    <2> QED
        BY <1>1, <1>6, <1>7, <1>8, <2>1
<1> QED
    BY <1>4, <1>5, <1>6, <1>9, <1>10, <1>11, ObjectChanges

LEMMA HashStep == ASSUME HashInv, HashNext PROVE HashInv'
<1>1. ASSUME HashCompute PROVE HashInv'
    <2>1. hash' = hash /\ heap' = heap /\ computed' \in BOOLEAN
        BY <1>1 DEF HashCompute
    <2> QED
        BY <2>1, TakingAFreeBlock
<1> QED
    BY <1>1, SetupStep, UpdateStep, FinishStep, AbortStep, CloneStep DEF HashNext

LEMMA PanicStep == Panic => HashInv'
<1> SUFFICES ASSUME Panic PROVE HashInv'
    OBVIOUS
<1> USE DEF Panic, FreshObjects, HashZero, FreeBlock, Null, Stale
<1>1. HeapTypeOK'
    BY DEF HeapTypeOK
<1>2. HashTypeOK'
    <2>1. \A p \in {Null, Stale} : [HashZero EXCEPT !.ptr = p] \in HashOperation
        BY NoMessage DEF HashOperation, Digests
    <2> QED
        BY <2>1 DEF HashTypeOK
<1> QED
    BY <1>1, <1>2 DEF HashInv, OwnState, DigestIsRightOrMissing

LEMMA NextKeepsHashInv == HashInv /\ [Next]_vars => HashInv'
<1> SUFFICES ASSUME HashInv, [Next]_vars PROVE HashInv'
    OBVIOUS
<1>1. CASE UNCHANGED vars
    BY <1>1 DEF vars, hashVars, HashInv, HeapTypeOK, HashTypeOK, OwnState,
                DigestIsRightOrMissing
<1>2. CASE CipherNext /\ UNCHANGED hashVars
    BY <1>2, CipherStep
<1>3. CASE HashNext /\ UNCHANGED cipherVars
    BY <1>3, HashStep
<1>4. CASE Panic
    BY <1>4, PanicStep
<1> QED
    BY <1>1, <1>2, <1>3, <1>4 DEF Next

LEMMA HashInvHolds == Spec => []HashInv
<1> QED
    BY InitHolds, NextKeepsHashInv, PTL DEF Spec

(* Every active hash operation that has a state has its own, with all of   *)
(* its input in it, after any clones, ends and exhaustion of the heap.     *)
THEOREM StatesAreOwned == Spec => []OwnState
<1>1. HashInv => OwnState
    BY DEF HashInv
<1> QED
    BY <1>1, HashInvHolds, PTL

(* A digest that psa_hash_finish gives is that of the operation's input.   *)
THEOREM DigestsAreRight == Spec => []DigestIsRightOrMissing
<1>1. HashInv => DigestIsRightOrMissing
    BY DEF HashInv
<1> QED
    BY <1>1, HashInvHolds, PTL

(***************************************************************************)
(* Ciphers, for any block size, message length and cut of the message.     *)
(*                                                                         *)
(* The argument has two halves.  CipherInv is about lengths: the bytes     *)
(* that an operation keeps are the run of the message that follows what    *)
(* came out, and whole blocks came out, as many as were chained.  It holds *)
(* for any keys.  RightInv is about contents: while the schedule is held,  *)
(* all active operations share it rightly, and each byte that came out was *)
(* made from its own byte of the message, under the key of its operation,  *)
(* in its block.  A call of psa_cipher_update is one case for both: it     *)
(* appends the bytes made from the next run of the message (Effect), which *)
(* is what the right output goes on with (RightGoesOn).                    *)
(***************************************************************************)

LEMMA DivisionIsUnique ==
    ASSUME NEW h \in Nat \ {0}, NEW b \in Nat, NEW r \in 0 .. h - 1
    PROVE  (b * h + r) \div h = b /\ (b * h + r) % h = r
<1> DEFINE x == b * h + r
           q == x \div h
           m == x % h
<1>1. x \in Nat
    OBVIOUS
<1>2. q \in Int /\ m \in 0 .. h - 1 /\ x = h * q + m
    BY <1>1
<1> HIDE DEF q, m
<1>3. h * (q - b) = r - m
    BY <1>2
<1>4. q - b < 1
    <2> SUFFICES ASSUME q - b >= 1 PROVE FALSE
        BY <1>2
    <2>1. h * (q - b) >= h
        BY <1>2
    <2> QED
        BY <1>2, <1>3, <2>1
<1>5. b - q < 1
    <2> SUFFICES ASSUME b - q >= 1 PROVE FALSE
        BY <1>2
    <2>1. h * (b - q) >= h /\ h * (b - q) = m - r
        BY <1>2
    <2> QED
        BY <1>2, <2>1
<1>6. q = b
    BY <1>2, <1>4, <1>5
<1>7. m = r
    BY <1>2, <1>3, <1>6
<1> QED
    BY <1>6, <1>7 DEF q, m

(* A number of bytes is so many blocks and a rest.                         *)
LEMMA Blockwise ==
    ASSUME NEW x \in Nat
    PROVE  /\ x \div BlockSize \in Nat
           /\ x % BlockSize \in 0 .. BlockSize - 1
           /\ x = (x \div BlockSize) * BlockSize + (x % BlockSize)
<1>1. BlockSize \in Nat /\ BlockSize > 0
    BY CipherAssumption
<1>2. PICK q \in Int, m \in 0 .. BlockSize - 1 :
            q = x \div BlockSize /\ m = x % BlockSize /\ x = BlockSize * q + m
    BY <1>1
<1>3. q >= 0
    <2> SUFFICES ASSUME q <= -1 PROVE FALSE
        BY <1>2
    <2>1. BlockSize * q <= -BlockSize
        BY <1>1, <1>2
    <2> QED
        BY <1>1, <1>2, <2>1
<1>4. q \in Nat /\ m \in 0 .. BlockSize - 1 /\ x = q * BlockSize + m
    BY <1>1, <1>2, <1>3
<1> QED
    BY <1>2, <1>4

(* Whole blocks before a byte add to its block and not to its offset.      *)
LEMMA BlocksBefore ==
    ASSUME NEW p \in Nat, NEW x \in Nat
    PROVE  /\ p * BlockSize \in Nat
           /\ (p * BlockSize + x) \div BlockSize = p + x \div BlockSize
           /\ (p * BlockSize + x) % BlockSize = x % BlockSize
<1>1. PICK q \in Nat, m \in 0 .. BlockSize - 1 :
            q = x \div BlockSize /\ m = x % BlockSize /\ x = q * BlockSize + m
    BY Blockwise
<1>2. BlockSize \in Nat \ {0}
    BY CipherAssumption
<1>3. p * BlockSize + x = (p + q) * BlockSize + m
    BY <1>1, <1>2
<1>4. /\ ((p + q) * BlockSize + m) \div BlockSize = p + q
      /\ ((p + q) * BlockSize + m) % BlockSize = m
    <2>1. p + q \in Nat
        BY <1>1
    <2> QED
        BY <1>1, <1>2, <2>1, DivisionIsUnique
<1>5. p * BlockSize \in Nat
    BY <1>2
<1> QED
    BY <1>1, <1>3, <1>4, <1>5

(* m bytes of the message, the ones after the first a.                     *)
Run(a, m) == [i \in 1 .. m |-> a + i]

LEMMA RunIsSequence ==
    ASSUME NEW a \in Nat, NEW m \in Nat
    PROVE  /\ Run(a, m) \in Seq(Nat) /\ Len(Run(a, m)) = m
           /\ DOMAIN Run(a, m) = 1 .. m
           /\ \A i \in 1 .. m : Run(a, m)[i] = a + i
           /\ m = 0 <=> Run(a, m) = <<>>
<1>1. Run(a, m) \in Seq(Nat) /\ Len(Run(a, m)) = m
    BY DEF Run
<1> QED
    BY <1>1, EmptySeq DEF Run

(* The bytes of x after the first i, up to the first j.                    *)
Part(x, i, j) == SubSeq(x, i + 1, j)
Joined(x, y) == x \o y

LEMMA JoinIs ==
    ASSUME NEW S, NEW old \in Seq(S), NEW new \in Seq(S), NEW all \in Seq(S),
           Len(all) = Len(old) + Len(new),
           \A i \in 1 .. Len(old) : old[i] = all[i],
           \A j \in 1 .. Len(new) : new[j] = all[Len(old) + j]
    PROVE  old \o new = all
<1>1. Len(old) \in Nat /\ Len(new) \in Nat
    BY LenProperties
<1>2. /\ old \o new \in Seq(S)
      /\ Len(old \o new) = Len(old) + Len(new)
      /\ \A i \in 1 .. Len(old) + Len(new) :
            (old \o new)[i] = IF i <= Len(old) THEN old[i] ELSE new[i - Len(old)]
    BY ConcatProperties
<1>3. ASSUME NEW i \in 1 .. Len(old) + Len(new) PROVE (old \o new)[i] = all[i]
    <2>1. CASE i <= Len(old)
        BY <1>1, <1>2, <2>1
    <2>2. CASE i > Len(old)
        <3>1. i - Len(old) \in 1 .. Len(new) /\ Len(old) + (i - Len(old)) = i
            BY <1>1, <2>2
        <3> QED
            BY <1>2, <2>2, <3>1
    <2> QED
        BY <1>1, <2>1, <2>2
<1> QED
    BY <1>2, <1>3, SeqEqual

LEMMA RunsJoin ==
    ASSUME NEW a \in Nat, NEW m \in Nat, NEW p \in Nat
    PROVE  Run(a, m) \o Run(a + m, p) = Run(a, m + p)
<1> DEFINE old == Run(a, m)
           new == Run(a + m, p)
           all == Run(a, m + p)
<1>1. a + m \in Nat /\ m + p \in Nat
    OBVIOUS
<1>2. /\ old \in Seq(Nat) /\ Len(old) = m /\ \A i \in 1 .. m : old[i] = a + i
      /\ new \in Seq(Nat) /\ Len(new) = p
      /\ \A i \in 1 .. p : new[i] = (a + m) + i
      /\ all \in Seq(Nat) /\ Len(all) = m + p
      /\ \A i \in 1 .. m + p : all[i] = a + i
    BY <1>1, RunIsSequence
<1> HIDE DEF old, new, all
<1>3. \A i \in 1 .. m : old[i] = all[i]
    <2>1. \A i \in 1 .. m : i \in 1 .. m + p
        OBVIOUS
    <2> QED
        BY <1>2, <2>1, Zenon
<1>4. \A j \in 1 .. p : new[j] = all[m + j]
    <2>1. \A j \in 1 .. p : m + j \in 1 .. m + p /\ (a + m) + j = a + (m + j)
        OBVIOUS
    <2> QED
        BY <1>2, <2>1, Zenon
<1>5. old \o new = all
    <2>1. /\ Len(all) = Len(old) + Len(new)
          /\ \A i \in 1 .. Len(old) : old[i] = all[i]
          /\ \A j \in 1 .. Len(new) : new[j] = all[Len(old) + j]
        BY <1>2, <1>3, <1>4, Zenon
    <2>2. old \in Seq(Nat) /\ new \in Seq(Nat) /\ all \in Seq(Nat)
        BY <1>2, Zenon
    <2> QED
        BY <2>1, <2>2, JoinIs, Zenon
<1> QED
    BY <1>5 DEF old, new, all

LEMMA PartOfRun ==
    ASSUME NEW a \in Nat, NEW m \in Nat, NEW i \in Nat, NEW j \in Nat,
           i <= j, j <= m
    PROVE  Part(Run(a, m), i, j) = Run(a + i, j - i)
<1>1. \A q \in i + 1 .. j : Run(a, m)[q] = a + q
    BY DEF Run
<1>2. /\ SubSeq(Run(a, m), i + 1, j) \in Seq(Nat)
      /\ Len(SubSeq(Run(a, m), i + 1, j)) = IF i + 1 <= j THEN j - (i + 1) + 1 ELSE 0
      /\ \A q \in 1 .. j - (i + 1) + 1 :
            SubSeq(Run(a, m), i + 1, j)[q] = Run(a, m)[i + 1 + q - 1]
    <2>1. \A q \in i + 1 .. j : Run(a, m)[q] \in Nat
        BY <1>1
    <2>2. i + 1 \in Int /\ j \in Int
        OBVIOUS
    <2> QED
        BY <2>1, <2>2, SubSeqProperties
<1>3. /\ Run(a + i, j - i) \in Seq(Nat) /\ Len(Run(a + i, j - i)) = j - i
      /\ \A q \in 1 .. j - i : Run(a + i, j - i)[q] = a + i + q
    <2>1. a + i \in Nat /\ j - i \in Nat
        OBVIOUS
    <2> QED
        BY <2>1, RunIsSequence
<1>4. Len(SubSeq(Run(a, m), i + 1, j)) = j - i
    BY <1>2
<1>5. \A q \in 1 .. j - i : SubSeq(Run(a, m), i + 1, j)[q] = a + i + q
    <2> SUFFICES ASSUME NEW q \in 1 .. j - i
                 PROVE  SubSeq(Run(a, m), i + 1, j)[q] = a + i + q
        OBVIOUS
    <2>1. SubSeq(Run(a, m), i + 1, j)[q] = Run(a, m)[i + q]
        BY <1>2
    <2> QED
        BY <1>1, <2>1
<1>6. SubSeq(Run(a, m), i + 1, j) = Run(a + i, j - i)
    BY <1>2, <1>3, <1>4, <1>5, SeqEqual
<1> QED
    BY <1>6, Zenon DEF Part

CbcAlgs == {"CBC_NO_PADDING", "CBC_PKCS7"}

(* Bytes made from a run of the message are output, as many of them.       *)
LEMMA BytesAreOutput ==
    ASSUME s \in Keys \cup {NoKey}, NEW c, c.iv \in Nat,
           NEW a \in Nat, NEW m \in Nat
    PROVE  /\ CbcBytes(c, Run(a, m)) \in Seq(OutputByte)
           /\ Len(CbcBytes(c, Run(a, m))) = m
           /\ EcbBytes(c, Run(a, m)) \in Seq(OutputByte)
           /\ Len(EcbBytes(c, Run(a, m))) = m
<1>1. DOMAIN Run(a, m) = 1 .. m /\ \A i \in 1 .. m : Run(a, m)[i] = a + i
    BY RunIsSequence
<1>2. \A i \in 1 .. m : /\ (i - 1) \div BlockSize \in Nat
                        /\ (i - 1) % BlockSize \in 0 .. BlockSize - 1
    <2> TAKE i \in 1 .. m
    <2>1. i - 1 \in Nat
        OBVIOUS
    <2> QED
        BY <2>1, Blockwise
<1>3. \A i \in 1 .. m :
        [pos |-> a + i, key |-> s, blk |-> c.iv + (i - 1) \div BlockSize,
         off |-> (i - 1) % BlockSize] \in OutputByte
    <2> TAKE i \in 1 .. m
    <2>1. a + i \in Nat /\ c.iv + (i - 1) \div BlockSize \in Nat
        BY <1>2
    <2> QED
        BY <1>2, <2>1 DEF OutputByte
<1>4. \A i \in 1 .. m :
        [pos |-> IF c.enc THEN 0 ELSE a + i, key |-> s, blk |-> 0,
         off |-> (i - 1) % BlockSize] \in OutputByte
    <2> TAKE i \in 1 .. m
    <2>1. (IF c.enc THEN 0 ELSE a + i) \in Nat /\ 0 \in Nat
        OBVIOUS
    <2> QED
        BY <1>2, <2>1 DEF OutputByte
<1>5. CbcBytes(c, Run(a, m)) \in [1 .. m -> OutputByte]
    BY <1>1, <1>3 DEF CbcBytes
<1>6. EcbBytes(c, Run(a, m)) \in [1 .. m -> OutputByte]
    BY <1>1, <1>4 DEF EcbBytes
<1> QED
    BY <1>5, <1>6, LenProperties

LEMMA RightIsSequence ==
    ASSUME NEW c, c.key \in Keys \cup {NoKey}, NEW n \in Nat
    PROVE  /\ Right(c, n) \in Seq(OutputByte) /\ Len(Right(c, n)) = n
           /\ \A j \in 0 .. n : SubSeq(Right(c, n), 1, j) = Right(c, j)
           /\ Right(c, 0) = <<>>
<1>1. ASSUME NEW m \in Nat
      PROVE  Right(c, m) \in Seq(OutputByte) /\ Len(Right(c, m)) = m
    <2>1. \A q \in 1 .. m : (q - 1) \div BlockSize \in Nat
                            /\ (q - 1) % BlockSize \in 0 .. BlockSize - 1
        <3> TAKE q \in 1 .. m
        <3>1. q - 1 \in Nat
            OBVIOUS
        <3> QED
            BY <3>1, Blockwise
    <2>2. \A q \in 1 .. m :
            [pos |-> q, key |-> c.key,
             blk |-> IF c.alg = "ECB_NO_PADDING" THEN 0
                     ELSE (q - 1) \div BlockSize,
             off |-> (q - 1) % BlockSize] \in OutputByte
        <3> TAKE q \in 1 .. m
        <3>1. (IF c.alg = "ECB_NO_PADDING" THEN 0
                ELSE (q - 1) \div BlockSize) \in Nat /\ q \in Nat
            BY <2>1
        <3> QED
            BY <2>1, <3>1 DEF OutputByte
    <2>3. Right(c, m) \in [1 .. m -> OutputByte]
        BY <2>2 DEF Right
    <2> QED
        BY <2>3, LenProperties
<1>2. ASSUME NEW j \in 0 .. n PROVE SubSeq(Right(c, n), 1, j) = Right(c, j)
    <2>1. j \in Nat /\ Right(c, j) \in Seq(OutputByte) /\ Len(Right(c, j)) = j
        BY <1>1
    <2>2. \A i \in 1 .. j : Right(c, n)[i] \in OutputByte
                            /\ Right(c, n)[i] = Right(c, j)[i]
        <3>1. \A i \in 1 .. j : Right(c, n)[i] = Right(c, j)[i]
            BY DEF Right
        <3> QED
            BY <2>1, <3>1, ElementOfSeq
    <2>3. /\ SubSeq(Right(c, n), 1, j) \in Seq(OutputByte)
          /\ Len(SubSeq(Right(c, n), 1, j)) = IF 1 <= j THEN j - 1 + 1 ELSE 0
          /\ \A i \in 1 .. j - 1 + 1 :
                SubSeq(Right(c, n), 1, j)[i] = Right(c, n)[1 + i - 1]
        <3>1. 1 \in Int /\ j \in Int
            OBVIOUS
        <3> QED
            BY <2>2, <3>1, SubSeqProperties
    <2>4. Len(SubSeq(Right(c, n), 1, j)) = j
        BY <2>3
    <2>5. \A i \in 1 .. j : SubSeq(Right(c, n), 1, j)[i] = Right(c, j)[i]
        BY <2>2, <2>3
    <2> QED
        BY <2>1, <2>3, <2>4, <2>5, SeqEqual
<1>3. Right(c, 0) = <<>>
    BY <1>1, EmptySeq
<1> QED
    BY <1>1, <1>2, <1>3

(* Whole blocks of the right output go on with the bytes made next.        *)
LEMMA RightGoesOn ==
    ASSUME NEW c, c.key \in Keys \cup {NoKey}, s = c.key,
           c.alg # "ECB_NO_PADDING", c.iv \in Nat,
           NEW n \in Nat, n = c.iv * BlockSize, NEW m \in Nat
    PROVE  Right(c, n) \o CbcBytes(c, Run(n, m)) = Right(c, n + m)
<1>1. /\ Right(c, n) \in Seq(OutputByte) /\ Len(Right(c, n)) = n
    BY RightIsSequence
<1>2. /\ Right(c, n + m) \in Seq(OutputByte) /\ Len(Right(c, n + m)) = n + m
    <2>1. n + m \in Nat
        OBVIOUS
    <2> QED
        BY <2>1, RightIsSequence
<1>3. /\ CbcBytes(c, Run(n, m)) \in Seq(OutputByte)
      /\ Len(CbcBytes(c, Run(n, m))) = m
    BY BytesAreOutput
<1> DEFINE old == Right(c, n)
           new == CbcBytes(c, Run(n, m))
<1> HIDE DEF old, new
<1>5. \A i \in 1 .. n : old[i] = Right(c, n + m)[i]
    BY DEF Right, old
<1>6. \A j \in 1 .. m : new[j] = Right(c, n + m)[n + j]
    <2> TAKE j \in 1 .. m
    <2>1. new[j] =
            [pos |-> n + j, key |-> s, blk |-> c.iv + (j - 1) \div BlockSize,
             off |-> (j - 1) % BlockSize]
        BY RunIsSequence DEF CbcBytes, new
    <2>2. Right(c, n + m)[n + j] =
            [pos |-> n + j, key |-> c.key, blk |-> (n + j - 1) \div BlockSize,
             off |-> (n + j - 1) % BlockSize]
        <3>1. n + j \in 1 .. n + m
            OBVIOUS
        <3> QED
            BY <3>1 DEF Right
    <2>3. /\ (n + j - 1) \div BlockSize = c.iv + (j - 1) \div BlockSize
          /\ (n + j - 1) % BlockSize = (j - 1) % BlockSize
        <3>1. j - 1 \in Nat /\ n + j - 1 = c.iv * BlockSize + (j - 1)
            OBVIOUS
        <3> QED
            BY <3>1, BlocksBefore
    <2> QED
        BY <2>1, <2>2, <2>3
<1>7. /\ old \in Seq(OutputByte) /\ Len(old) = n
      /\ new \in Seq(OutputByte) /\ Len(new) = m
    BY <1>1, <1>3 DEF old, new
<1>8. old \o new = Right(c, n + m)
    <2>1. /\ Len(Right(c, n + m)) = Len(old) + Len(new)
          /\ \A i \in 1 .. Len(old) : old[i] = Right(c, n + m)[i]
          /\ \A j \in 1 .. Len(new) : new[j] = Right(c, n + m)[Len(old) + j]
        BY <1>2, <1>5, <1>6, <1>7, Zenon
    <2> QED
        BY <1>2, <1>7, <2>1, JoinIs, Zenon
<1> QED
    BY <1>8 DEF old, new

(***************************************************************************)
(* What a call of psa_cipher_update does to the bytes kept and given.      *)
(***************************************************************************)

(* The bytes kept fit, and a padded decryption keeps some of what it has.  *)
Holdable(c, fed, kept) ==
    IF HoldsBack(c) THEN kept <= BlockSize /\ (fed > 0 => kept > 0)
    ELSE kept < BlockSize

LEMMA KeepsPart ==
    ASSUME NEW c, NEW m \in Nat
    PROVE  /\ KeptLength(c, m) \in 0 .. m
           /\ \E p \in Nat : m - KeptLength(c, m) = p * BlockSize
           /\ Holdable(c, m, KeptLength(c, m))
<1>1. PICK q \in Nat, r \in 0 .. BlockSize - 1 :
            q = m \div BlockSize /\ r = m % BlockSize /\ m = q * BlockSize + r
    BY Blockwise
<1>2. BlockSize \in Nat /\ BlockSize > 0
    BY CipherAssumption
<1>3. CASE HoldsBack(c) /\ m > 0 /\ r = 0
    <2>1. q > 0
        BY <1>1, <1>2, <1>3
    <2>2. q - 1 \in Nat /\ m - BlockSize = (q - 1) * BlockSize
        BY <1>1, <1>2, <1>3, <2>1
    <2>3. (q - 1) * BlockSize >= 0
        BY <1>2, <2>2
    <2>4. KeptLength(c, m) = BlockSize
        BY <1>1, <1>3 DEF KeptLength
    <2>5. BlockSize \in 0 .. m
        BY <1>2, <2>2, <2>3
    <2> QED
        BY <1>2, <1>3, <2>2, <2>4, <2>5 DEF Holdable
<1>4. CASE ~(HoldsBack(c) /\ m > 0 /\ r = 0)
    <2>1. KeptLength(c, m) = r
        BY <1>1, <1>4 DEF KeptLength
    <2>2. q * BlockSize \in Nat
        BY <1>2
    <2>3. r \in 0 .. m /\ m - r = q * BlockSize
        BY <1>1, <2>2
    <2> QED
        BY <1>1, <1>2, <1>4, <2>1, <2>3 DEF Holdable
<1> QED
    BY <1>3, <1>4

(* A fragment cut in three: what fills the block kept, whole blocks, and   *)
(* what is kept next.                                                      *)
LEMMA RunParts ==
    /\ \A a, m \in Nat : Len(Run(a, m)) = m
    /\ \A a, m, i, j \in Nat :
            i <= j /\ j <= m => Part(Run(a, m), i, j) = Run(a + i, j - i)
    /\ \A a, m, b, p \in Nat :
            b = a + m => Joined(Run(a, m), Run(b, p)) = Run(a, m + p)
<1>1. \A a, m \in Nat : Len(Run(a, m)) = m
    BY RunIsSequence
<1>2. ASSUME NEW a \in Nat, NEW m \in Nat, NEW i \in Nat, NEW j \in Nat,
             i <= j, j <= m
      PROVE  Part(Run(a, m), i, j) = Run(a + i, j - i)
    BY <1>2, PartOfRun
<1>3. ASSUME NEW a \in Nat, NEW m \in Nat, NEW b \in Nat, NEW p \in Nat,
             b = a + m
      PROVE  Joined(Run(a, m), Run(b, p)) = Run(a, m + p)
    BY <1>3, RunsJoin, Zenon DEF Joined
<1> QED
    BY <1>1, <1>2, <1>3

FragmentCut(a, u, n, r, k) ==
    LET input == Run(a + u, n)
        rest == Part(input, r, n)
        body == Part(rest, 0, (n - r) - k)
    IN  /\ Len(rest) = n - r
        /\ Len(body) = (n - r) - k
        /\ Joined(Joined(Run(a, u), Part(input, 0, r)), body)
            = Run(a, (u + n) - k)
        /\ Part(rest, Len(body), Len(rest)) = Run(a + u + n - k, k)

LEMMA CutFragment ==
    ASSUME NEW a \in Nat, NEW u \in Nat, NEW n \in Nat, NEW r \in Nat,
           NEW k \in Nat, r + k <= n
    PROVE  FragmentCut(a, u, n, r, k)
<1> DEFINE rest == Part(Run(a + u, n), r, n)
           body == Part(rest, 0, (n - r) - k)
<1>1. /\ a + u \in Nat /\ a + u + r \in Nat /\ u + r \in Nat
      /\ n - r \in Nat /\ (n - r) - k \in Nat
    OBVIOUS
<1>2. Part(Run(a + u, n), 0, r) = Run(a + u, r)
    BY <1>1, RunParts
<1>3. rest = Run(a + u + r, n - r)
    <2>1. r <= n /\ n <= n
        OBVIOUS
    <2> QED
        BY <1>1, <2>1, RunParts
<1> HIDE DEF rest
<1>4. Len(rest) = n - r
    <2>1. Len(Run(a + u + r, n - r)) = n - r
        BY <1>1, RunParts
    <2> QED
        BY <1>3, <2>1, Zenon
<1>5. body = Run(a + u + r, (n - r) - k)
    <2>1. 0 <= (n - r) - k /\ (n - r) - k <= n - r /\ 0 \in Nat
        OBVIOUS
    <2>2. Part(Run(a + u + r, n - r), 0, (n - r) - k)
            = Run((a + u + r) + 0, ((n - r) - k) - 0)
        BY <1>1, <2>1, RunParts
    <2> QED
        BY <1>1, <1>3, <2>2
<1> HIDE DEF body
<1>6. Len(body) = (n - r) - k
    <2>1. Len(Run(a + u + r, (n - r) - k)) = (n - r) - k
        BY <1>1, RunParts
    <2> QED
        BY <1>5, <2>1, Zenon
<1>7. Joined(Run(a, u), Part(Run(a + u, n), 0, r)) = Run(a, u + r)
    BY <1>1, <1>2, RunParts
<1>8. Joined(Run(a, u + r), body) = Run(a, (u + n) - k)
    BY <1>1, <1>5, RunParts
<1>9. Part(rest, (n - r) - k, n - r) = Run(a + u + n - k, k)
    BY <1>1, <1>3, RunParts
<1> QED
    BY <1>4, <1>6, <1>7, <1>8, <1>9, Zenon DEF FragmentCut, rest, body

(* CBC: whole blocks out, in order, and the rest kept.                     *)
LEMMA CbcUpdateEffect ==
    ASSUME NEW c \in CipherOperation, s \in Keys \cup {NoKey},
           NEW n \in Nat \ {0}, NEW a \in Nat, NEW u \in Nat,
           c.fed = a + u, c.unprocessed = Run(a, u), Holdable(c, a + u, u)
    PROVE  \E q \in Nat, k \in Nat :
            /\ u + n = q * BlockSize + k
            /\ Holdable(c, a + u + n, k)
            /\ CbcUpdate(c, Run(c.fed, n)) =
                Processed(c, CbcBytes(c, Run(a, q * BlockSize)),
                          Run(a + q * BlockSize, k), q)
<1> DEFINE input == Run(a + u, n)
<1>1. input = Run(c.fed, n)
    OBVIOUS
<1> HIDE DEF input
<1>2. BlockSize \in Nat /\ BlockSize > 0
    BY CipherAssumption
<1>3. Len(c.unprocessed) = u /\ Len(input) = n /\ (u = 0 <=> c.unprocessed = <<>>)
    <2>1. a + u \in Nat /\ n \in Nat
        OBVIOUS
    <2> QED
        BY <2>1, RunIsSequence DEF input
<1>4. u <= BlockSize
    BY <1>2 DEF Holdable
<1>5. CASE CachesFragment(c, n)
    <2>1. CbcUpdate(c, input) = [c EXCEPT !.unprocessed = c.unprocessed \o input]
        BY <1>3, <1>5 DEF CbcUpdate
    <2>2. c.unprocessed \o input = Run(a, u + n)
        <3>1. Run(a, u) \o Run(a + u, n) = Run(a, u + n)
            BY RunsJoin, Zenon
        <3> QED
            BY <3>1, Zenon DEF input
    <2>3. c.out \in Seq(OutputByte) /\ c.iv \in Nat
        BY DEF CipherOperation
    <2>4. CbcBytes(c, Run(a, 0)) = <<>>
        BY <2>3, BytesAreOutput, EmptySeq
    <2>5. c.out \o <<>> = c.out /\ c.iv + 0 = c.iv
        BY <2>3, ConcatEmptySeq
    <2>6. CbcUpdate(c, input) =
            Processed(c, CbcBytes(c, Run(a, 0)), Run(a, u + n), 0)
        BY <2>1, <2>2, <2>4, <2>5 DEF Processed, CipherOperation
    <2>7. Holdable(c, a + u + n, u + n)
        BY <1>2, <1>3, <1>5 DEF Holdable, CachesFragment
    <2>8. /\ 0 * BlockSize = 0 /\ a + 0 = a /\ 0 \in Nat /\ u + n \in Nat
          /\ u + n = 0 + (u + n)
        BY <1>2
    <2> QED
        BY <1>1, <2>6, <2>7, <2>8
<1>6. CASE ~CachesFragment(c, n)
    <2>1. PICK r \in Nat : r = IF u = 0 THEN 0 ELSE BlockSize - u
        <3>1. (IF u = 0 THEN 0 ELSE BlockSize - u) \in Nat
            BY <1>2, <1>4
        <3> QED
            BY <3>1, Zenon
    <2>2. r <= n /\ (HoldsBack(c) => n > r)
        BY <1>2, <1>3, <1>4, <1>6, <2>1 DEF CachesFragment
    <2>3. PICK m \in Nat : m = n - r
        BY <2>2
    <2>4. PICK k \in 0 .. m : /\ k = KeptLength(c, m)
                              /\ \E p \in Nat : m - k = p * BlockSize
                              /\ Holdable(c, m, k)
        BY KeepsPart
    <2>5. PICK p \in Nat : m - k = p * BlockSize
        BY <2>4
    <2> DEFINE rest == Part(input, r, n)
               body == Part(rest, 0, (n - r) - k)
    <2> HIDE DEF rest, body
    <2>7. /\ Len(rest) = n - r
          /\ Len(body) = (n - r) - k
          /\ Joined(Joined(Run(a, u), Part(input, 0, r)), body)
                = Run(a, (u + n) - k)
          /\ Part(rest, Len(body), Len(rest)) = Run(a + u + n - k, k)
        <3>1. k \in Nat /\ r + k <= n
            BY <2>2, <2>3, <2>4
        <3> QED
            <4>1. FragmentCut(a, u, n, r, k)
                BY <3>1, CutFragment
            <4> QED
                BY <4>1, Zenon DEF FragmentCut, input, rest, body
    <2>8. PICK q \in Nat : (u + n) - k = q * BlockSize
        <3>1. (u + n) - k = (u + r) + p * BlockSize
            BY <1>2, <2>1, <2>3, <2>5
        <3>2. CASE u = 0
            <4>1. u + r = 0
                BY <2>1, <3>2
            <4>2. (u + n) - k = p * BlockSize
                BY <1>2, <3>1, <4>1
            <4> QED
                BY <4>2
        <3>3. CASE u # 0
            <4>1. u + r = BlockSize
                BY <1>2, <2>1, <3>3
            <4>2. (u + n) - k = (p + 1) * BlockSize /\ p + 1 \in Nat
                BY <1>2, <3>1, <4>1
            <4> QED
                BY <4>2
        <3> QED
            BY <3>2, <3>3
    <2>9. Len(Run(a, (u + n) - k)) \div BlockSize = q
        <3>1. (u + n) - k \in Nat
            BY <2>2, <2>3, <2>4
        <3>2. Len(Run(a, (u + n) - k)) = (u + n) - k
            BY <3>1, RunIsSequence
        <3>3. (q * BlockSize + 0) \div BlockSize = q
            BY <1>2, DivisionIsUnique
        <3>4. q * BlockSize + 0 = q * BlockSize
            BY <1>2
        <3> QED
            BY <2>8, <3>2, <3>3, <3>4
    <2>10. CbcUpdate(c, input) =
            Processed(c, CbcBytes(c, Run(a, (u + n) - k)),
                      Run(a + u + n - k, k), q)
        <3> DEFINE room == IF c.unprocessed = <<>> THEN 0
                           ELSE BlockSize - Len(c.unprocessed)
                   after == SubSeq(input, room + 1, Len(input))
                   whole == SubSeq(after, 1, Len(after) - KeptLength(c, Len(after)))
                   blocks == c.unprocessed \o SubSeq(input, 1, room) \o whole
                   kept == SubSeq(after, Len(whole) + 1, Len(after))
        <3>1. CbcUpdate(c, input) =
                Processed(c, CbcBytes(c, blocks), kept, Len(blocks) \div BlockSize)
            <4>1. ~CachesFragment(c, Len(input))
                BY <1>3, <1>6
            <4> QED
                BY <4>1, Zenon DEF CbcUpdate
        <3>2. room = r
            BY <1>3, <2>1
        <3> HIDE DEF room
        <3>3. after = rest
            BY <1>3, <3>2, Zenon DEF rest, Part
        <3> HIDE DEF after
        <3>4. whole = body
            <4>1. 0 + 1 = 1 /\ Len(after) - KeptLength(c, Len(after)) = (n - r) - k
                <5>1. Len(after) = m
                    BY <2>3, <2>7, <3>3, Zenon
                <5>2. Len(after) - KeptLength(c, Len(after)) = m - k
                    BY <2>4, <5>1, Zenon
                <5> QED
                    BY <2>3, <5>2
            <4> QED
                BY <3>3, <4>1, Zenon DEF body, Part
        <3> HIDE DEF whole
        <3>5. blocks = Run(a, (u + n) - k)
            <4>1. 0 + 1 = 1
                OBVIOUS
            <4> QED
                BY <2>7, <3>2, <3>4, <4>1, Zenon DEF Part, Joined
        <3>6. kept = Run(a + u + n - k, k)
            BY <2>7, <3>3, <3>4, Zenon DEF Part
        <3> HIDE DEF blocks, kept
        <3> QED
            BY <2>9, <3>1, <3>5, <3>6, Zenon
    <2>11. a + u + n - k = a + q * BlockSize /\ k \in Nat
           /\ u + n = q * BlockSize + k
        <3>1. k \in Nat /\ q * BlockSize \in Nat
            BY <1>2, <2>3, <2>4
        <3> QED
            BY <2>8, <3>1
    <2>12. Holdable(c, a + u + n, k)
        BY <1>2, <2>2, <2>3, <2>4 DEF Holdable
    <2> QED
        BY <1>1, <2>8, <2>10, <2>11, <2>12
<1> QED
    BY <1>5, <1>6

(* ECB: the same, but for the counter.                                     *)
LEMMA EcbUpdateEffect ==
    ASSUME NEW c \in CipherOperation,
           NEW n \in Nat \ {0}, NEW a \in Nat, NEW u \in Nat,
           c.fed = a + u, c.unprocessed = Run(a, u)
    PROVE  \E q \in Nat, k \in Nat :
            /\ u + n = q * BlockSize + k /\ k < BlockSize
            /\ EcbUpdate(c, Run(c.fed, n)) =
                Processed(c, EcbBytes(c, Run(a, q * BlockSize)),
                          Run(a + q * BlockSize, k), 0)
<1>1. PICK q \in Nat, k \in Nat :
        /\ q = (u + n) \div BlockSize /\ u + n = q * BlockSize + k
        /\ k < BlockSize
    <2>1. u + n \in Nat
        OBVIOUS
    <2> QED
        <3>1. PICK q \in Nat, k \in 0 .. BlockSize - 1 :
                q = (u + n) \div BlockSize /\ u + n = q * BlockSize + k
            BY <2>1, Blockwise
        <3>2. k \in Nat /\ k < BlockSize
            BY CipherAssumption
        <3> QED
            BY <3>1, <3>2
<1>2. PICK w \in Nat : w = q * BlockSize
    <2>1. BlockSize \in Nat
        BY CipherAssumption
    <2> QED
        BY <2>1
<1> DEFINE all == Run(a, u + n)
<1>3. c.unprocessed \o Run(c.fed, n) = all
    <2>1. Run(a, u) \o Run(a + u, n) = Run(a, u + n)
        BY RunsJoin, Zenon
    <2> QED
        BY <2>1, Zenon
<1>4. Len(all) = u + n
    <2>1. u + n \in Nat
        OBVIOUS
    <2> QED
        BY <2>1, RunIsSequence
<1>5. w + k = u + n /\ w <= u + n /\ u + n \in Nat /\ k \in Nat
    BY <1>1, <1>2
<1>6. SubSeq(all, 1, w) = Run(a, w)
    <2>1. 0 + 1 = 1 /\ a + 0 = a /\ w - 0 = w /\ 0 <= w /\ 0 \in Nat
        OBVIOUS
    <2>2. Part(all, 0, w) = Run(a + 0, w - 0)
        BY <1>5, <2>1, RunParts
    <2> QED
        BY <2>1, <2>2, Zenon DEF Part
<1>7. SubSeq(all, w + 1, Len(all)) = Run(a + w, k)
    <2>1. u + n - w = k /\ u + n <= u + n
        BY <1>5
    <2>2. Part(all, w, u + n) = Run(a + w, u + n - w)
        BY <1>5, <2>1, RunParts
    <2> QED
        BY <1>4, <2>1, <2>2, Zenon DEF Part
<1> HIDE DEF all
<1>8. EcbUpdate(c, Run(c.fed, n)) =
        Processed(c, EcbBytes(c, SubSeq(all, 1, w)),
                  SubSeq(all, w + 1, Len(all)), 0)
    <2>1. (Len(all) \div BlockSize) * BlockSize = w
        BY <1>1, <1>2, <1>4, Zenon
    <2> QED
        BY <1>3, <2>1, Zenon DEF EcbUpdate
<1> QED
    BY <1>1, <1>2, <1>6, <1>7, <1>8, Zenon

(* CTR: everything out.                                                    *)
LEMMA CtrUpdateEffect ==
    ASSUME NEW c, NEW n \in Nat \ {0}
    PROVE  \E b \in Nat :
            /\ b = (n + BlockSize - 1) \div BlockSize
            /\ CtrUpdate(c, Run(c.fed, n)) =
                Processed(c, CbcBytes(c, Run(c.fed, n)), <<>>, b)
<1>1. Len(Run(c.fed, n)) = n
    <2>1. Run(c.fed, n) \in [1 .. n -> {c.fed + i : i \in 1 .. n}]
        BY DEF Run
    <2> QED
        BY <2>1, LenProperties
<1>2. (n + BlockSize - 1) \div BlockSize \in Nat
    <2>1. n + BlockSize - 1 \in Nat
        BY CipherAssumption
    <2> QED
        BY <2>1, Blockwise
<1> QED
    BY <1>1, <1>2, Zenon DEF CtrUpdate, CtrBytes

(***************************************************************************)
(* The bytes of one operation, in and out.                                 *)
(***************************************************************************)
Ordered(c) ==
    IF c.id
    THEN /\ ~c.finished
         /\ c.iv_required = IvRequired(c.alg)
         /\ ~IvReady(c) => c.fed = 0
         /\ Len(c.out) <= c.fed
         /\ c.unprocessed = Run(Len(c.out), c.fed - Len(c.out))
         /\ IF c.alg = "CTR" THEN Len(c.out) = c.fed
            ELSE Holdable(c, c.fed, c.fed - Len(c.out))
         /\ c.alg = "ECB_NO_PADDING" => \E q \in Nat : Len(c.out) = q * BlockSize
         /\ c.alg \in CbcAlgs => Len(c.out) = c.iv * BlockSize
    ELSE c.unprocessed = <<>>

(* The operation after n more bytes, of which the context made bytes.      *)
Advanced(c, n, bytes, kept, blocks) ==
    [Processed(c, bytes, kept, blocks) EXCEPT
        !.fed = @ + n, !.cut = @ \/ c.fed % BlockSize # 0]

LEMMA AdvancedFields ==
    ASSUME NEW c \in CipherOperation, NEW n \in Nat,
           NEW bytes \in Seq(OutputByte), NEW kept \in Seq(Nat),
           NEW blocks \in Nat,
           NEW d, d = Advanced(c, n, bytes, kept, blocks)
    PROVE  /\ d \in CipherOperation
           /\ d.out = c.out \o bytes /\ Len(d.out) = Len(c.out) + Len(bytes)
           /\ d.unprocessed = kept /\ d.iv = c.iv + blocks
           /\ d.fed = c.fed + n
           /\ d.id = c.id /\ d.finished = c.finished
           /\ d.iv_required = c.iv_required /\ d.iv_set = c.iv_set
           /\ d.alg = c.alg /\ d.enc = c.enc /\ d.key = c.key
           /\ d.len = c.len
           /\ ~d.cut => ~c.cut /\ c.fed % BlockSize = 0
<1>1. /\ c.out \in Seq(OutputByte) /\ c.iv \in Nat /\ c.fed \in Nat
      /\ c.cut \in BOOLEAN
    BY DEF CipherOperation
<1>2. /\ c.out \o bytes \in Seq(OutputByte)
      /\ Len(c.out \o bytes) = Len(c.out) + Len(bytes)
    BY <1>1, ConcatProperties
<1>3. PICK out \in Seq(OutputByte) : out = c.out \o bytes
    BY <1>2, Zenon
<1>4. PICK cut \in BOOLEAN : cut = (c.cut \/ c.fed % BlockSize # 0)
    BY <1>1, Zenon
<1>5. PICK iv \in Nat : iv = c.iv + blocks
    BY <1>1
<1>6. PICK fed \in Nat : fed = c.fed + n
    BY <1>1
<1> DEFINE e == [c EXCEPT !.out = out, !.unprocessed = kept, !.iv = iv,
                          !.fed = fed, !.cut = cut]
<1>7. Advanced(c, n, bytes, kept, blocks) = e
    BY <1>3, <1>4, <1>5, <1>6 DEF Advanced, Processed, CipherOperation
<1>8. /\ e \in CipherOperation
      /\ e.out = out /\ e.unprocessed = kept /\ e.iv = iv
      /\ e.fed = fed /\ e.cut = cut
      /\ e.id = c.id /\ e.finished = c.finished
      /\ e.iv_required = c.iv_required /\ e.iv_set = c.iv_set
      /\ e.alg = c.alg /\ e.enc = c.enc /\ e.key = c.key
      /\ e.len = c.len
    BY DEF CipherOperation
<1> HIDE DEF e
<1> QED
    BY <1>2, <1>3, <1>4, <1>5, <1>6, <1>7, <1>8, Zenon

(* What a fragment does: so many bytes come out, and the rest is kept.     *)
Effect(c, n, bytes, kept, blocks) ==
    LET done == Len(c.out) + Len(bytes)
    IN  /\ UpdateContext(c, Run(c.fed, n))
            = Processed(c, bytes, Run(done, kept), blocks)
        /\ done + kept = c.fed + n
        /\ IF c.alg = "CTR" THEN kept = 0 ELSE Holdable(c, c.fed + n, kept)
        /\ c.alg = "ECB_NO_PADDING" => \E q \in Nat : done = q * BlockSize
        /\ c.alg \in CbcAlgs =>
            /\ done = (c.iv + blocks) * BlockSize
            /\ bytes = CbcBytes(c, Run(Len(c.out), Len(bytes)))
        /\ c.alg = "CTR" =>
            /\ bytes = CbcBytes(c, Run(c.fed, n))
            /\ Len(bytes) = n
            /\ blocks = (n + BlockSize - 1) \div BlockSize

LEMMA UpdateEffect ==
    ASSUME NEW c \in CipherOperation, Ordered(c), c.id, s \in Keys \cup {NoKey},
           NEW n \in Nat \ {0}
    PROVE  \E bytes \in Seq(OutputByte), kept \in Nat, blocks \in Nat :
                Effect(c, n, bytes, kept, blocks)
<1>1. /\ c.alg \in Algorithms /\ c.iv \in Nat /\ c.fed \in Nat
      /\ c.out \in Seq(OutputByte)
    BY DEF CipherOperation
<1>8. \A x, y \in Nat : /\ CbcBytes(c, Run(x, y)) \in Seq(OutputByte)
                        /\ Len(CbcBytes(c, Run(x, y))) = y
                        /\ EcbBytes(c, Run(x, y)) \in Seq(OutputByte)
                        /\ Len(EcbBytes(c, Run(x, y))) = y
    BY <1>1, BytesAreOutput
<1>2. PICK a \in Nat : a = Len(c.out)
    BY <1>1, LenProperties
<1>3. PICK u \in Nat : u = c.fed - a
    BY <1>1, <1>2 DEF Ordered
<1>4. c.fed = a + u /\ c.unprocessed = Run(a, u)
    BY <1>1, <1>2, <1>3 DEF Ordered
<1>5. CASE c.alg = "ECB_NO_PADDING"
    <2>1. PICK q \in Nat, k \in Nat :
            /\ u + n = q * BlockSize + k /\ k < BlockSize
            /\ EcbUpdate(c, Run(c.fed, n)) =
                Processed(c, EcbBytes(c, Run(a, q * BlockSize)),
                          Run(a + q * BlockSize, k), 0)
        BY <1>4, EcbUpdateEffect
    <2>2. PICK p \in Nat : a = p * BlockSize
        BY <1>2, <1>5 DEF Ordered
    <2>3. PICK w \in Nat : w = q * BlockSize
        <3>1. BlockSize \in Nat
            BY CipherAssumption
        <3> QED
            BY <3>1
    <2> DEFINE bytes == EcbBytes(c, Run(a, w))
    <2>4. bytes \in Seq(OutputByte) /\ Len(bytes) = w
        BY <1>1, <1>8
    <2> HIDE DEF bytes
    <2>5. UpdateContext(c, Run(c.fed, n)) = Processed(c, bytes, Run(a + w, k), 0)
        BY <1>5, <2>1, <2>3, Zenon DEF UpdateContext, bytes
    <2>6. a + w = (p + q) * BlockSize /\ p + q \in Nat
        <3>1. BlockSize \in Nat
            BY CipherAssumption
        <3> QED
            BY <2>2, <2>3, <3>1
    <2>7. (a + w) + k = c.fed + n /\ k \in Nat
        <3>1. w + k = u + n
            BY <2>1, <2>3
        <3> QED
            BY <1>4, <3>1
    <2>8. c.alg # "CTR" /\ c.alg \notin CbcAlgs /\ Holdable(c, c.fed + n, k)
        BY <1>5, <2>1 DEF CbcAlgs, Holdable, HoldsBack
    <2>9. Effect(c, n, bytes, k, 0)
        BY <1>2, <2>4, <2>5, <2>6, <2>7, <2>8, Zenon DEF Effect
    <2> QED
        BY <2>4, <2>7, <2>9
<1>6. CASE c.alg = "CTR"
    <2>1. PICK b \in Nat :
            /\ b = (n + BlockSize - 1) \div BlockSize
            /\ CtrUpdate(c, Run(c.fed, n)) =
                Processed(c, CbcBytes(c, Run(c.fed, n)), <<>>, b)
        BY CtrUpdateEffect
    <2> DEFINE bytes == CbcBytes(c, Run(c.fed, n))
    <2>2. bytes \in Seq(OutputByte) /\ Len(bytes) = n
        BY <1>1, <1>8
    <2>3. UpdateContext(c, Run(c.fed, n)) = Processed(c, bytes, <<>>, b)
        BY <1>6, <2>1 DEF UpdateContext
    <2> HIDE DEF bytes
    <2>4. a = c.fed
        BY <1>2, <1>6 DEF Ordered
    <2>5. Run(a + n, 0) = <<>> /\ (a + n) + 0 = c.fed + n /\ 0 \in Nat
        <3>1. a + n \in Nat /\ 0 \in Nat /\ (a + n) + 0 = c.fed + n
            BY <2>4
        <3>2. Run(a + n, 0) = <<>>
            BY <3>1, RunIsSequence, Zenon
        <3> QED
            BY <3>1, <3>2, Zenon
    <2>6. c.alg # "ECB_NO_PADDING" /\ c.alg \notin CbcAlgs
        BY <1>6 DEF CbcAlgs
    <2>7. bytes = CbcBytes(c, Run(c.fed, n))
        BY DEF bytes
    <2>8. Effect(c, n, bytes, 0, b)
        BY <1>2, <1>6, <2>1, <2>2, <2>3, <2>5, <2>6, <2>7, Zenon DEF Effect
    <2> QED
        BY <2>2, <2>5, <2>8
<1>7. CASE c.alg \in CbcAlgs
    <2>1. Holdable(c, a + u, u)
        BY <1>2, <1>3, <1>4, <1>7 DEF Ordered, CbcAlgs
    <2>2. PICK q \in Nat, k \in Nat :
            /\ u + n = q * BlockSize + k
            /\ Holdable(c, a + u + n, k)
            /\ CbcUpdate(c, Run(c.fed, n)) =
                Processed(c, CbcBytes(c, Run(a, q * BlockSize)),
                          Run(a + q * BlockSize, k), q)
        BY <1>4, <2>1, CbcUpdateEffect
    <2>3. PICK w \in Nat : w = q * BlockSize
        <3>1. BlockSize \in Nat
            BY CipherAssumption
        <3> QED
            BY <3>1
    <2> DEFINE bytes == CbcBytes(c, Run(a, w))
    <2>4. bytes \in Seq(OutputByte) /\ Len(bytes) = w
        BY <1>1, <1>8
    <2> HIDE DEF bytes
    <2>5. UpdateContext(c, Run(c.fed, n)) = Processed(c, bytes, Run(a + w, k), q)
        <3>1. UpdateContext(c, Run(c.fed, n)) = CbcUpdate(c, Run(c.fed, n))
            BY <1>7 DEF UpdateContext, CbcAlgs
        <3> QED
            BY <2>2, <2>3, <3>1, Zenon DEF bytes
    <2>6. a + w = (c.iv + q) * BlockSize
        <3>1. BlockSize \in Nat
            BY CipherAssumption
        <3>2. a = c.iv * BlockSize
            BY <1>2, <1>7 DEF Ordered
        <3> QED
            BY <1>1, <2>3, <3>1, <3>2
    <2>7. (a + w) + k = c.fed + n /\ a + u + n = c.fed + n
        BY <1>4, <2>2, <2>3
    <2>8. c.alg # "CTR" /\ c.alg # "ECB_NO_PADDING" /\ Holdable(c, c.fed + n, k)
        BY <1>7, <2>2, <2>7 DEF CbcAlgs
    <2>9. bytes = CbcBytes(c, Run(Len(c.out), Len(bytes)))
        BY <1>2, <2>4, Zenon DEF bytes
    <2>10. Effect(c, n, bytes, k, q)
        BY <1>2, <2>4, <2>5, <2>6, <2>7, <2>8, <2>9, Zenon DEF Effect
    <2> QED
        BY <2>4, <2>10
<1> QED
    BY <1>1, <1>5, <1>6, <1>7 DEF Algorithms, CbcAlgs

LEMMA UpdateKeepsOrder ==
    ASSUME NEW c \in CipherOperation, NEW n \in Nat,
           NEW bytes \in Seq(OutputByte), NEW kept \in Nat, NEW blocks \in Nat,
           NEW rest, rest = Run(Len(c.out) + Len(bytes), kept),
           NEW d, d = Advanced(c, n, bytes, rest, blocks)
    PROVE  Ordered(c) /\ c.id /\ IvReady(c) /\ Effect(c, n, bytes, kept, blocks)
            => d \in CipherOperation /\ Ordered(d)
<1>1. /\ c.fed \in Nat /\ c.out \in Seq(OutputByte) /\ Len(c.out) \in Nat
      /\ Len(bytes) \in Nat
    BY LenProperties DEF CipherOperation
<1>2. PICK done \in Nat : done = Len(c.out) + Len(bytes)
    BY <1>1
<1>3. rest \in Seq(Nat)
    BY <1>2, RunIsSequence
<1>4. /\ d \in CipherOperation
      /\ Len(d.out) = done
      /\ d.unprocessed = rest /\ d.iv = c.iv + blocks
      /\ d.fed = c.fed + n
      /\ d.id = c.id /\ d.finished = c.finished
      /\ d.iv_required = c.iv_required /\ d.iv_set = c.iv_set
      /\ d.alg = c.alg /\ d.enc = c.enc
    BY <1>2, <1>3, AdvancedFields
<1>0. SUFFICES ASSUME Ordered(c), c.id, IvReady(c),
                      Effect(c, n, bytes, kept, blocks)
               PROVE  Ordered(d)
    BY <1>4
<1>5. /\ done + kept = c.fed + n
      /\ IF c.alg = "CTR" THEN kept = 0 ELSE Holdable(c, c.fed + n, kept)
      /\ c.alg = "ECB_NO_PADDING" => \E q \in Nat : done = q * BlockSize
      /\ c.alg \in CbcAlgs => done = (c.iv + blocks) * BlockSize
    BY <1>0, <1>2, Zenon DEF Effect
<1>6. /\ Len(d.out) <= d.fed /\ d.fed - Len(d.out) = kept
      /\ (kept = 0 => Len(d.out) = d.fed)
    <2>1. done + kept = c.fed + n
        BY <1>5, Zenon
    <2>2. Len(d.out) = done /\ d.fed = c.fed + n
        BY <1>4, Zenon
    <2>3. c.fed \in Nat
        BY <1>1, Zenon
    <2> QED
        BY <2>1, <2>2, <2>3
<1>7. d.unprocessed = Run(Len(d.out), d.fed - Len(d.out))
    BY <1>2, <1>4, <1>6, Zenon
<1>8. IF d.alg = "CTR" THEN Len(d.out) = d.fed
      ELSE Holdable(d, d.fed, d.fed - Len(d.out))
    BY <1>4, <1>5, <1>6, Zenon DEF Holdable, HoldsBack
<1>9. IvReady(d) /\ ~d.finished /\ d.iv_required = IvRequired(d.alg)
    BY <1>0, <1>4, Zenon DEF IvReady, Ordered
<1> QED
    BY <1>0, <1>4, <1>5, <1>6, <1>7, <1>8, <1>9, Zenon DEF Ordered

(***************************************************************************)
(* psa_cipher_finish.                                                      *)
(***************************************************************************)
LEMMA PaddingFits ==
    ASSUME NEW n \in Nat
    PROVE  /\ PaddedLength(n) \in Nat
           /\ PaddedLength(n) - n \in 1 .. BlockSize
           /\ (PaddedLength(n) - n = BlockSize <=> n % BlockSize = 0)
<1>1. PICK q \in Nat, r \in 0 .. BlockSize - 1 :
        q = n \div BlockSize /\ r = n % BlockSize /\ n = q * BlockSize + r
    BY Blockwise
<1>2. BlockSize \in Nat \ {0}
    BY CipherAssumption
<1>3. PICK w \in Nat : w = q * BlockSize
    BY <1>2
<1>4. PaddedLength(n) = w + BlockSize
    <2>1. (q + 1) * BlockSize = w + BlockSize
        BY <1>2, <1>3
    <2> QED
        BY <1>1, <2>1 DEF PaddedLength
<1>5. n = w + r
    BY <1>1, <1>3
<1> QED
    BY <1>1, <1>2, <1>4, <1>5

LEMMA DataLengthsFit ==
    ASSUME NEW c, c.len \in Nat, NEW block
    PROVE  DataLengths(c, block) \subseteq 1 .. BlockSize
           /\ DataLengths(c, block) # {}
<1>1. PaddedLength(c.len) - c.len \in 1 .. BlockSize
    BY PaddingFits
<1>2. BlockSize \in Nat \ {0}
    BY CipherAssumption
<1>3. PICK p \in 1 .. BlockSize : p = PaddedLength(c.len) - c.len
    BY <1>1
<1>4. \/ DataLengths(c, block) \in {1 .. BlockSize, {BlockSize}}
      \/ p < BlockSize /\ DataLengths(c, block) = {BlockSize - p}
    BY <1>2, <1>3 DEF DataLengths
<1>5. BlockSize \in 1 .. BlockSize /\ (p < BlockSize => BlockSize - p \in 1 .. BlockSize)
    BY <1>2
<1> QED
    BY <1>4, <1>5

(* The last block of a padded message follows what came out before.        *)
LEMMA PaddingFollows ==
    ASSUME NEW c, NEW a \in Nat, NEW u \in Nat, c.fed = a + u, u <= BlockSize,
           c.unprocessed = Run(a, u)
    PROVE  AddPadding(c) = Run(a, BlockSize)
<1>1. Len(c.unprocessed) = u
    BY RunIsSequence
<1>2. \A i \in 1 .. BlockSize :
        (IF i <= Len(c.unprocessed) THEN c.unprocessed[i]
         ELSE c.fed + i - Len(c.unprocessed)) = a + i
    BY <1>1, CipherAssumption DEF Run
<1> QED
    BY <1>2 DEF AddPadding, Run

LEMMA FinishGivesBytes ==
    ASSUME NEW c \in CipherOperation, Ordered(c), c.id, s \in Keys \cup {NoKey},
           NEW out \in FinishOutputs(c)
    PROVE  out \in Seq(OutputByte)
<1>1. /\ c.alg \in Algorithms /\ c.iv \in Nat /\ c.fed \in Nat /\ c.len \in Nat
      /\ c.out \in Seq(OutputByte) /\ c.enc \in BOOLEAN
    BY DEF CipherOperation
<1>2. \A x, y \in Nat : /\ CbcBytes(c, Run(x, y)) \in Seq(OutputByte)
                        /\ Len(CbcBytes(c, Run(x, y))) = y
    BY <1>1, BytesAreOutput
<1>3. <<>> \in Seq(OutputByte)
    OBVIOUS
<1>4. BlockSize \in Nat \ {0}
    BY CipherAssumption
<1>5. PICK a \in Nat : a = Len(c.out)
    BY <1>1, LenProperties
<1>6. PICK u \in Nat : u = c.fed - a
    BY <1>1, <1>5 DEF Ordered
<1>7. c.fed = a + u /\ c.unprocessed = Run(a, u)
    BY <1>1, <1>5, <1>6 DEF Ordered
<1>8. CASE c.alg = "CBC_PKCS7" /\ c.enc
    <2>1. u <= BlockSize
        BY <1>4, <1>5, <1>6, <1>8 DEF Ordered, Holdable
    <2>2. AddPadding(c) = Run(a, BlockSize)
        BY <1>7, <2>1, PaddingFollows
    <2>3. out = CbcBytes(c, Run(a, BlockSize))
        BY <1>8, <2>2 DEF FinishOutputs
    <2> QED
        BY <1>2, <1>4, <2>3
<1>9. CASE c.alg = "CBC_PKCS7" /\ ~c.enc
    <2> DEFINE block == CbcBytes(c, c.unprocessed)
    <2>1. block \in Seq(OutputByte)
        BY <1>2, <1>7
    <2>2. Len(block) = BlockSize
          /\ \E n \in DataLengths(c, block) : out = SubSeq(block, 1, n)
        BY <1>9 DEF FinishOutputs
    <2> HIDE DEF block
    <2>3. PICK n \in DataLengths(c, block) : out = SubSeq(block, 1, n)
        BY <2>2
    <2>4. n \in 1 .. BlockSize
        BY <1>1, DataLengthsFit
    <2>5. \A i \in 1 .. n : block[i] \in OutputByte
        BY <1>4, <2>1, <2>2, <2>4, ElementOfSeq
    <2>6. 1 \in Int /\ n \in Int
        BY <2>4
    <2> QED
        BY <2>3, <2>5, <2>6, SubSeqProperties
<1> QED
    BY <1>1, <1>3, <1>8, <1>9 DEF FinishOutputs, Algorithms

(***************************************************************************)
(* All operations.                                                         *)
(***************************************************************************)
CipherInv == CipherTypeOK /\ \A o \in CipherObjects : Ordered(cipher[o])

LEMMA OneOperationChanges ==
    ASSUME CipherInv, NEW o \in CipherObjects, NEW d \in CipherOperation,
           Ordered(d), cipher' = [cipher EXCEPT ![o] = d],
           s' \in Keys \cup {NoKey}
    PROVE  CipherInv'
<1>1. cipher' \in [CipherObjects -> CipherOperation]
    BY DEF CipherInv, CipherTypeOK
<1>2. \A p \in CipherObjects : cipher'[p] = IF p = o THEN d ELSE cipher[p]
    BY DEF CipherInv, CipherTypeOK
<1>3. \A p \in CipherObjects : Ordered(cipher'[p])
    BY <1>2 DEF CipherInv
<1> QED
    BY <1>1, <1>3 DEF CipherInv, CipherTypeOK

LEMMA NoOperation == CipherZero \in CipherOperation /\ Ordered(CipherZero)
<1>1. <<>> \in Seq(Nat) /\ <<>> \in Seq(OutputByte)
    OBVIOUS
<1>2. CipherZero \in CipherOperation
    BY <1>1 DEF CipherZero, CipherOperation, Algorithms
<1> QED
    BY <1>2 DEF CipherZero, Ordered

LEMMA SetupKeepsOrder ==
    ASSUME CipherInv, NEW o \in CipherObjects, NEW k \in Keys, NEW a \in Algs,
           NEW e \in BOOLEAN, NEW n \in Nat, CipherSetup(o, k, a, e, n)
    PROVE  CipherInv'
<1> DEFINE d == [CipherZero EXCEPT !.id = TRUE, !.iv_required = IvRequired(a),
                                   !.alg = a, !.enc = e, !.key = k, !.len = n]
<1>1. a \in Algorithms /\ IvRequired(a) \in BOOLEAN
    BY CipherAssumption DEF IvRequired
<1>2. d \in CipherOperation
    BY <1>1, NoOperation DEF CipherOperation
<1>3. /\ d.id /\ ~d.finished /\ d.iv_required = IvRequired(d.alg)
      /\ d.fed = 0 /\ d.out = <<>> /\ d.unprocessed = <<>> /\ d.iv = 0
    BY DEF CipherZero
<1>4. cipher' = [cipher EXCEPT ![o] = d] /\ s' = k
    BY DEF CipherSetup
<1> HIDE DEF d
<1>5. Len(d.out) = 0 /\ d.fed - Len(d.out) = 0
    <2>1. Len(<<>>) = 0 /\ 0 - 0 = 0
        BY EmptySeq
    <2> QED
        BY <1>3, <2>1, Zenon
<1>6. d.unprocessed = Run(Len(d.out), d.fed - Len(d.out))
    <2>1. Run(0, 0) = <<>>
        BY RunIsSequence
    <2> QED
        BY <1>3, <1>5, <2>1, Zenon
<1>7. Holdable(d, d.fed, d.fed - Len(d.out)) /\ Len(d.out) = d.fed
      /\ Len(d.out) <= d.fed
    BY <1>3, <1>5, CipherAssumption DEF Holdable
<1>8. Len(d.out) = 0 * BlockSize /\ 0 \in Nat
    BY <1>5, CipherAssumption
<1>9. Ordered(d)
    BY <1>3, <1>6, <1>7, <1>8, Zenon DEF Ordered
<1> QED
    BY <1>2, <1>4, <1>9, OneOperationChanges

LEMMA SetIvKeepsOrder ==
    ASSUME CipherInv, NEW o \in CipherObjects, CipherSetIv(o)
    PROVE  CipherInv'
<1> DEFINE c == cipher[o]
           d == [c EXCEPT !.iv_set = TRUE, !.iv = 0]
<1>1. c \in CipherOperation /\ Ordered(c)
    BY DEF CipherInv, CipherTypeOK
<1>2. c.id /\ c.iv_required /\ ~c.iv_set
    BY DEF CipherSetIv
<1>3. cipher' = [cipher EXCEPT ![o] = d] /\ s' = s /\ s \in Keys \cup {NoKey}
    <2>1. cipher' = [cipher EXCEPT ![o].iv_set = TRUE, ![o].iv = 0] /\ s' = s
        BY DEF CipherSetIv
    <2> QED
        BY <1>1, <2>1 DEF CipherInv, CipherTypeOK
<1>4. d \in CipherOperation
    BY <1>1 DEF CipherOperation
<1>5. /\ d.id = c.id /\ d.finished = c.finished /\ d.iv_required = c.iv_required
      /\ d.alg = c.alg /\ d.enc = c.enc /\ d.fed = c.fed /\ d.out = c.out
      /\ d.unprocessed = c.unprocessed /\ d.iv = 0 /\ d.iv_set
    BY <1>1 DEF CipherOperation
<1> HIDE DEF c, d
<1>6. c.fed = 0 /\ Len(c.out) = 0
    <2>1. c.fed = 0 /\ Len(c.out) <= c.fed
        BY <1>1, <1>2, Zenon DEF Ordered, IvReady
    <2>2. Len(c.out) \in Nat
        BY <1>1, LenProperties DEF CipherOperation
    <2> QED
        BY <2>1, <2>2
<1>7. Len(c.out) = 0 * BlockSize
    BY <1>6, CipherAssumption
<1>8. Ordered(d)
    BY <1>1, <1>2, <1>5, <1>7, Zenon DEF Ordered, IvReady, Holdable, HoldsBack
<1> QED
    BY <1>3, <1>4, <1>8, OneOperationChanges, Zenon

LEMMA UpdateKeepsAll ==
    ASSUME CipherInv, NEW o \in CipherObjects, NEW n \in Nat, CipherUpdate(o, n)
    PROVE  /\ CipherInv'
           /\ \E bytes \in Seq(OutputByte), kept \in Nat, blocks \in Nat :
                /\ Effect(cipher[o], n, bytes, kept, blocks)
                /\ cipher' = [cipher EXCEPT ![o] =
                    Advanced(cipher[o], n, bytes,
                             Run(Len(cipher[o].out) + Len(bytes), kept), blocks)]
<1> DEFINE c == cipher[o]
<1>1. c \in CipherOperation /\ Ordered(c) /\ s \in Keys \cup {NoKey}
    BY DEF CipherInv, CipherTypeOK
<1>2. c.id /\ IvReady(c) /\ n > 0 /\ s' = s
    BY DEF CipherUpdate
<1>3. cipher' = [cipher EXCEPT ![o] =
                    [UpdateContext(c, Run(c.fed, n)) EXCEPT
                        !.fed = @ + n, !.cut = @ \/ c.fed % BlockSize # 0]]
    BY DEF CipherUpdate, Run
<1> HIDE DEF c
<1>4. PICK bytes \in Seq(OutputByte), kept \in Nat, blocks \in Nat :
        Effect(c, n, bytes, kept, blocks)
    <2>1. n \in Nat \ {0}
        BY <1>2
    <2> QED
        BY <1>1, <1>2, <2>1, UpdateEffect
<1>5. PICK rest : rest = Run(Len(c.out) + Len(bytes), kept)
    OBVIOUS
<1>6. PICK d : d = Advanced(c, n, bytes, rest, blocks)
    OBVIOUS
<1>7. UpdateContext(c, Run(c.fed, n)) = Processed(c, bytes, rest, blocks)
    BY <1>4, <1>5, Zenon DEF Effect
<1>8. d = [UpdateContext(c, Run(c.fed, n)) EXCEPT
                !.fed = @ + n, !.cut = @ \/ c.fed % BlockSize # 0]
    <2>1. Processed(c, bytes, rest, blocks).fed = c.fed
        BY <1>1 DEF Processed, CipherOperation
    <2>2. Processed(c, bytes, rest, blocks).cut = c.cut
        BY <1>1 DEF Processed, CipherOperation
    <2> QED
        BY <1>6, <1>7, <2>1, <2>2, Zenon DEF Advanced
<1>9. cipher' = [cipher EXCEPT ![o] = d]
    BY <1>3, <1>8, Zenon
<1>10. d \in CipherOperation /\ Ordered(d)
    BY <1>1, <1>2, <1>4, <1>5, <1>6, UpdateKeepsOrder
<1>11. CipherInv'
    BY <1>1, <1>2, <1>9, <1>10, OneOperationChanges
<1> QED
    BY <1>4, <1>5, <1>6, <1>9, <1>11, Zenon DEF c

LEMMA FinishKeepsOrder ==
    ASSUME CipherInv, NEW o \in CipherObjects, CipherFinish(o)
    PROVE  /\ CipherInv'
           /\ \E out \in FinishOutputs(cipher[o]) :
                cipher' = [cipher EXCEPT ![o] =
                    [CipherZero EXCEPT
                        !.alg = cipher[o].alg, !.enc = cipher[o].enc,
                        !.key = cipher[o].key, !.len = cipher[o].len,
                        !.fed = cipher[o].fed, !.cut = cipher[o].cut,
                        !.out = cipher[o].out \o out, !.finished = TRUE]]
<1> DEFINE c == cipher[o]
<1>1. c \in CipherOperation /\ Ordered(c) /\ s \in Keys \cup {NoKey}
    BY DEF CipherInv, CipherTypeOK
<1>2. PICK out \in FinishOutputs(c) :
        cipher' = [cipher EXCEPT ![o] =
            [CipherZero EXCEPT
                !.alg = c.alg, !.enc = c.enc, !.key = c.key, !.len = c.len,
                !.fed = c.fed, !.cut = c.cut, !.out = c.out \o out,
                !.finished = TRUE]]
    BY DEF CipherFinish
<1>3. c.id /\ s' = s
    BY DEF CipherFinish
<1> HIDE DEF c
<1>4. out \in Seq(OutputByte)
    BY <1>1, <1>3, FinishGivesBytes
<1>5. c.out \in Seq(OutputByte) /\ c.out \o out \in Seq(OutputByte)
    <2>1. c.out \in Seq(OutputByte)
        BY <1>1 DEF CipherOperation
    <2> QED
        BY <1>4, <2>1, ConcatProperties
<1>6. PICK all \in Seq(OutputByte) : all = c.out \o out
    BY <1>5, Zenon
<1> DEFINE d == [CipherZero EXCEPT
                    !.alg = c.alg, !.enc = c.enc, !.key = c.key, !.len = c.len,
                    !.fed = c.fed, !.cut = c.cut, !.out = all, !.finished = TRUE]
<1>7. d \in CipherOperation
    BY <1>1, NoOperation DEF CipherOperation
<1>8. ~d.id /\ d.unprocessed = <<>>
    BY DEF CipherZero
<1>9. cipher' = [cipher EXCEPT ![o] = d]
    BY <1>2, <1>6, Zenon
<1> HIDE DEF d
<1>10. Ordered(d)
    BY <1>8, Zenon DEF Ordered
<1>11. CipherInv'
    BY <1>1, <1>3, <1>7, <1>9, <1>10, OneOperationChanges
<1> QED
    BY <1>2, <1>11, Zenon DEF c

LEMMA CipherNextKeepsOrder == ASSUME CipherInv, CipherNext PROVE CipherInv'
<1>1. cipher \in [CipherObjects -> CipherOperation] /\ s \in Keys \cup {NoKey}
    BY DEF CipherInv, CipherTypeOK
<1>2. ASSUME NEW o \in CipherObjects, CipherCall(o) PROVE CipherInv'
    <2>1. CASE \E k \in Keys, a \in Algs, e \in BOOLEAN :
                    \E n \in Lengths(a, e) : CipherSetup(o, k, a, e, n)
        <3>3. PICK k \in Keys, a \in Algs, e \in BOOLEAN :
                    \E n \in Lengths(a, e) : CipherSetup(o, k, a, e, n)
            BY <2>1
        <3>1. PICK n \in Lengths(a, e) : CipherSetup(o, k, a, e, n)
            BY <3>3
        <3>2. n \in Nat
            BY CipherAssumption DEF Lengths
        <3> QED
            BY <3>1, <3>2, SetupKeepsOrder
    <2>2. CASE CipherSetupFails(o)
        <3>1. cipher' = [cipher EXCEPT ![o] = CipherZero] /\ s' = s
            BY <2>2 DEF CipherSetupFails
        <3> QED
            BY <1>1, <3>1, NoOperation, OneOperationChanges
    <2>3. CASE CipherSetIv(o)
        BY <2>3, SetIvKeepsOrder
    <2>4. CASE \E n \in 1 .. MaxMessage + BlockSize : CipherUpdate(o, n)
        <3>1. PICK n \in 1 .. MaxMessage + BlockSize : CipherUpdate(o, n)
            BY <2>4
        <3>2. n \in Nat
            BY CipherAssumption
        <3> QED
            BY <3>1, <3>2, UpdateKeepsAll
    <2>5. CASE CipherFinish(o)
        BY <2>5, FinishKeepsOrder
    <2>6. CASE CipherAbort(o)
        <3>1. cipher' = [cipher EXCEPT ![o] = CipherZero] /\ s' = s
            BY <2>6 DEF CipherAbort
        <3> QED
            BY <1>1, <3>1, NoOperation, OneOperationChanges
    <2> QED
        BY <1>2, <2>1, <2>2, <2>3, <2>4, <2>5, <2>6 DEF CipherCall
<1>3. ASSUME NEW k \in Keys, CipherOneShot(k) PROVE CipherInv'
    BY <1>3 DEF CipherOneShot, CipherInv, CipherTypeOK
<1> QED
    BY <1>2, <1>3 DEF CipherNext

LEMMA NoOperations ==
    ASSUME cipher = [o \in CipherObjects |-> CipherZero], s = NoKey
    PROVE  CipherInv
BY NoOperation DEF CipherInv, CipherTypeOK

LEMMA NextKeepsOrder == CipherInv /\ [Next]_vars => CipherInv'
<1> SUFFICES ASSUME CipherInv, [Next]_vars PROVE CipherInv'
    OBVIOUS
<1>1. CASE CipherNext
    BY <1>1, CipherNextKeepsOrder
<1>2. CASE UNCHANGED cipherVars
    BY <1>2 DEF cipherVars, CipherInv, CipherTypeOK
<1>3. CASE Panic
    <2>1. cipher' = [o \in CipherObjects |-> CipherZero] /\ s' = NoKey
        BY <1>3 DEF Panic
    <2>2. cipher' \in [CipherObjects -> CipherOperation]
        BY <2>1, NoOperation
    <2>3. \A o \in CipherObjects : Ordered(cipher'[o])
        BY <2>1, NoOperation
    <2> QED
        BY <2>1, <2>2, <2>3 DEF CipherInv, CipherTypeOK
<1> QED
    BY <1>1, <1>2, <1>3 DEF Next, vars, cipherVars

LEMMA CipherInvHolds == Spec => []CipherInv
<1>1. Init => CipherInv
    BY NoOperations DEF Init, CipherInit
<1> QED
    BY <1>1, NextKeepsOrder, PTL DEF Spec

(* However its message is cut, the bytes that an operation keeps between   *)
(* two calls fit in unprocessed_data (psa_cipher_update).                  *)
THEOREM FragmentsFit == Spec => []UnprocessedFits
<1>1. CipherInv => UnprocessedFits
    <2> SUFFICES ASSUME CipherInv, NEW o \in CipherObjects
                 PROVE  IF HoldsBack(cipher[o])
                        THEN Len(cipher[o].unprocessed) <= BlockSize
                        ELSE Len(cipher[o].unprocessed) < BlockSize
        BY DEF UnprocessedFits
    <2> DEFINE c == cipher[o]
    <2>1. c \in CipherOperation /\ Ordered(c)
        BY DEF CipherInv, CipherTypeOK
    <2>2. c.fed \in Nat /\ c.out \in Seq(OutputByte)
        BY <2>1 DEF CipherOperation
    <2>3. Len(c.out) \in Nat
        BY <2>2, LenProperties
    <2> HIDE DEF c
    <2>4. BlockSize \in Nat \ {0}
        BY CipherAssumption
    <2>5. CASE c.id
        <3>1. PICK u \in Nat : u = c.fed - Len(c.out)
            BY <2>1, <2>2, <2>3, <2>5 DEF Ordered
        <3>2. Len(c.unprocessed) = u
            <4>1. c.unprocessed = Run(Len(c.out), u)
                BY <2>1, <2>5, <3>1 DEF Ordered
            <4>2. Len(Run(Len(c.out), u)) = u
                BY <2>3, RunIsSequence
            <4> QED
                BY <4>1, <4>2, Zenon
        <3>3. CASE c.alg = "CTR"
            <4>1. u = 0 /\ ~HoldsBack(c)
                BY <2>1, <2>3, <2>5, <3>1, <3>3 DEF Ordered, HoldsBack
            <4> QED
                BY <2>4, <3>2, <4>1 DEF c
        <3>4. CASE c.alg # "CTR"
            <4>1. Holdable(c, c.fed, u)
                BY <2>1, <2>5, <3>1, <3>4 DEF Ordered
            <4> QED
                BY <3>2, <4>1 DEF c, Holdable
        <3> QED
            BY <3>3, <3>4
    <2>6. CASE ~c.id
        <3>1. c.unprocessed = <<>> /\ Len(<<>>) = 0
            BY <2>1, <2>6, EmptySeq DEF Ordered
        <3> QED
            BY <2>4, <3>1 DEF c
    <2> QED
        BY <2>5, <2>6
<1> QED
    BY <1>1, CipherInvHolds, PTL

(* The objects, the heap and the key schedule hold values of their types   *)
(* after any calls, clones, failures and restarts.                         *)
THEOREM TypesHold == Spec => []TypeOK
<1>1. HashInv /\ CipherInv => TypeOK
    BY DEF HashInv, CipherInv, TypeOK
<1> QED
    BY <1>1, HashInvHolds, CipherInvHolds, PTL

LEMMA WholeInputFinishes ==
    ASSUME NEW c \in CipherOperation, Ordered(c), c.id, s \in Keys \cup {NoKey},
           IF HoldsBack(c) THEN c.fed = InputLength(c)
           ELSE c.fed % BlockSize = 0
    PROVE  FinishOutputs(c) # {}
<1>1. /\ c.fed \in Nat /\ c.out \in Seq(OutputByte) /\ c.alg \in Algorithms
      /\ c.len \in Nat /\ c.iv \in Nat
    BY DEF CipherOperation
<1>2. BlockSize \in Nat \ {0}
    BY CipherAssumption
<1>3. PICK a \in Nat : a = Len(c.out)
    BY <1>1, LenProperties
<1>4. PICK u \in Nat : u = c.fed - a
    BY <1>1, <1>3 DEF Ordered
<1>5. c.fed = a + u /\ c.unprocessed = Run(a, u)
    BY <1>1, <1>3, <1>4 DEF Ordered
<1>6. CASE c.alg = "CTR" \/ (c.alg = "CBC_PKCS7" /\ c.enc)
    BY <1>6 DEF FinishOutputs
<1>7. CASE c.alg \in {"ECB_NO_PADDING", "CBC_NO_PADDING"}
    <2>1. ~HoldsBack(c) /\ c.fed % BlockSize = 0
        BY <1>7 DEF HoldsBack
    <2>2. u < BlockSize
        BY <1>3, <1>4, <1>7, <2>1 DEF Ordered, Holdable
    <2>3. PICK q \in Nat : a = q * BlockSize
        BY <1>1, <1>3, <1>7 DEF Ordered, CbcAlgs
    <2>4. (q * BlockSize + u) % BlockSize = u
        <3>1. u \in 0 .. BlockSize - 1
            BY <1>2, <2>2
        <3> QED
            BY <1>2, <3>1, DivisionIsUnique
    <2>5. u = 0
        BY <1>5, <2>1, <2>3, <2>4, Zenon
    <2>6. c.unprocessed = <<>>
        BY <1>5, <2>5, RunIsSequence
    <2> QED
        BY <1>7, <2>6 DEF FinishOutputs
<1>8. CASE c.alg = "CBC_PKCS7" /\ ~c.enc
    <2>1. HoldsBack(c) /\ c.fed = PaddedLength(c.len)
        BY <1>8 DEF HoldsBack, InputLength
    <2>2. PICK p \in Nat : c.fed = p * BlockSize /\ p > 0
        <3>1. PICK q \in Nat : q = c.len \div BlockSize
            BY <1>1, Blockwise
        <3>2. c.fed = (q + 1) * BlockSize
            BY <2>1, <3>1 DEF PaddedLength
        <3> QED
            BY <3>2
    <2>3. c.fed > 0
        BY <1>2, <2>2
    <2>4. u <= BlockSize /\ u > 0
        BY <1>3, <1>4, <1>8, <2>1, <2>3 DEF Ordered, Holdable
    <2>5. a = c.iv * BlockSize
        BY <1>3, <1>8 DEF Ordered, CbcAlgs
    <2>6. u = BlockSize
        <3>1. p * BlockSize = c.iv * BlockSize + u
            BY <1>5, <2>2, <2>5
        <3>2. CASE u < BlockSize
            <4>1. u \in 0 .. BlockSize - 1 /\ 0 \in 0 .. BlockSize - 1
                BY <1>2, <3>2
            <4>2. (c.iv * BlockSize + u) % BlockSize = u
                BY <1>1, <1>2, <4>1, DivisionIsUnique
            <4>3. (p * BlockSize + 0) % BlockSize = 0
                BY <1>2, <4>1, DivisionIsUnique
            <4>4. p * BlockSize + 0 = p * BlockSize
                BY <1>2
            <4>5. u = 0
                BY <3>1, <4>2, <4>3, <4>4, Zenon
            <4> QED
                BY <2>4, <4>5
        <3> QED
            BY <1>2, <2>4, <3>2
    <2> DEFINE block == CbcBytes(c, c.unprocessed)
    <2>7. Len(block) = BlockSize
        BY <1>1, <1>2, <1>5, <2>6, BytesAreOutput
    <2>8. DataLengths(c, block) # {}
        BY <1>1, DataLengthsFit
    <2>9. FinishOutputs(c) = {SubSeq(block, 1, n) : n \in DataLengths(c, block)}
        BY <1>8, <2>7 DEF FinishOutputs
    <2> QED
        BY <2>8, <2>9
<1> QED
    BY <1>1, <1>6, <1>7, <1>8 DEF Algorithms

(* However its message was cut, an operation that was passed all of it can *)
(* finish: nothing that psa_cipher_finish needs was given out too early.   *)
THEOREM WholeMessagesFinish == Spec => []WholeMessageFinishes
<1>1. CipherInv => WholeMessageFinishes
    BY WholeInputFinishes DEF CipherInv, CipherTypeOK, WholeMessageFinishes
<1> QED
    BY <1>1, CipherInvHolds, PTL

(***************************************************************************)
(* When an application holds the schedule while an operation is active,    *)
(* the schedule is the one of every active operation: the bytes are right. *)
(***************************************************************************)
KeptPadding(c) == HoldsBack(c) /\ c.len % BlockSize = 0

Contents(c) ==
    /\ c.id /\ c.alg \in CbcAlgs => c.out = Right(c, Len(c.out))
    /\ c.alg = "CTR" /\ ~c.cut =>
        /\ c.out = Right(c, c.fed)
        /\ c.id => c.iv = (c.fed + BlockSize - 1) \div BlockSize
    /\ Completed(c) /\ c.alg \in CbcAlgs =>
        c.out = Right(c, IF KeptPadding(c) THEN InputLength(c)
                         ELSE MessageLength(c))

RightInv ==
    /\ CipherInv
    /\ \A o \in CipherObjects : Contents(cipher[o])
    /\ \A o \in CipherObjects : cipher[o].id => s = cipher[o].key

LEMMA NothingToDivide == (0 + BlockSize - 1) \div BlockSize = 0
<1>1. BlockSize \in Nat \ {0}
    BY CipherAssumption
<1>2. (0 * BlockSize + (BlockSize - 1)) \div BlockSize = 0
    <2>1. BlockSize - 1 \in 0 .. BlockSize - 1 /\ 0 \in Nat
        BY <1>1
    <2> QED
        BY <1>1, <2>1, DivisionIsUnique
<1>3. 0 * BlockSize + (BlockSize - 1) = 0 + BlockSize - 1
    BY <1>1
<1> QED
    BY <1>2, <1>3, Zenon

LEMMA SameRight ==
    ASSUME NEW c, NEW d, d.key = c.key, d.alg = c.alg
    PROVE  \A n : Right(d, n) = Right(c, n)
BY DEF Right

(* An operation that has given nothing has given nothing wrong.            *)
LEMMA NothingIsRight ==
    ASSUME NEW c \in CipherOperation, c.fed = 0, c.out = <<>>, ~c.finished,
           c.id => c.iv = 0
    PROVE  Contents(c)
<1>1. c.key \in Keys \cup {NoKey}
    BY DEF CipherOperation
<1>2. Right(c, 0) = <<>> /\ Len(<<>>) = 0
    BY <1>1, RightIsSequence, EmptySeq
<1> QED
    BY <1>2, NothingToDivide DEF Contents, Completed

LEMMA UpdateIsRight ==
    ASSUME NEW c \in CipherOperation, NEW n \in Nat,
           NEW bytes \in Seq(OutputByte), NEW kept \in Nat, NEW blocks \in Nat,
           NEW rest \in Seq(Nat), NEW d, d = Advanced(c, n, bytes, rest, blocks)
    PROVE  /\ Ordered(c) /\ c.id /\ Contents(c) /\ s = c.key
           /\ Effect(c, n, bytes, kept, blocks)
           => Contents(d)
<1>1. /\ c.fed \in Nat /\ c.out \in Seq(OutputByte) /\ c.iv \in Nat
      /\ c.key \in Keys \cup {NoKey} /\ Len(c.out) \in Nat /\ Len(bytes) \in Nat
    BY LenProperties DEF CipherOperation
<1>2. /\ d.out = c.out \o bytes /\ Len(d.out) = Len(c.out) + Len(bytes)
      /\ d.iv = c.iv + blocks /\ d.fed = c.fed + n
      /\ d.id = c.id /\ d.finished = c.finished
      /\ d.alg = c.alg /\ d.enc = c.enc /\ d.key = c.key
    BY AdvancedFields
<1>9. ~d.cut => ~c.cut /\ c.fed % BlockSize = 0
    BY AdvancedFields
<1>3. SUFFICES ASSUME Ordered(c), c.id, Contents(c), s = c.key,
                      Effect(c, n, bytes, kept, blocks)
               PROVE  Contents(d)
    OBVIOUS
<1>4. \A m : Right(d, m) = Right(c, m)
    BY <1>2, SameRight, Zenon
<1>5. s = c.key
    BY <1>3
<1>6. ASSUME c.alg \in CbcAlgs PROVE d.out = Right(d, Len(d.out))
    <2>1. PICK m \in Nat : m = Len(c.out)
        BY <1>1
    <2>2. PICK w \in Nat : w = Len(bytes)
        BY <1>1
    <2>3. bytes = CbcBytes(c, Run(m, w))
        BY <1>3, <1>6, <2>1, <2>2, Zenon DEF Effect
    <2>4. m = c.iv * BlockSize
        BY <1>3, <1>6, <2>1 DEF Ordered
    <2>5. c.out = Right(c, m)
        BY <1>3, <1>6, <2>1, Zenon DEF Contents
    <2>6. c.alg # "ECB_NO_PADDING"
        BY <1>6 DEF CbcAlgs
    <2>7. Right(c, m) \o CbcBytes(c, Run(m, w)) = Right(c, m + w)
        BY <1>1, <1>5, <2>4, <2>6, RightGoesOn
    <2> QED
        BY <1>2, <1>4, <2>1, <2>2, <2>3, <2>5, <2>7, Zenon
<1>7. ASSUME c.alg = "CTR", ~d.cut
      PROVE  /\ d.out = Right(d, d.fed)
             /\ d.iv = (d.fed + BlockSize - 1) \div BlockSize
    <2>1. ~c.cut /\ c.fed % BlockSize = 0
        BY <1>7, <1>9, Zenon
    <2>2. PICK q \in Nat : c.fed = q * BlockSize
        <3>1. PICK q \in Nat, r \in 0 .. BlockSize - 1 :
                r = c.fed % BlockSize /\ c.fed = q * BlockSize + r
            BY <1>1, Blockwise
        <3>2. r = 0
            BY <2>1, <3>1, Zenon
        <3>3. q * BlockSize + 0 = q * BlockSize
            BY CipherAssumption
        <3> QED
            BY <3>1, <3>2, <3>3, Zenon
    <2>3. BlockSize \in Nat \ {0}
        BY CipherAssumption
    <2>4. c.out = Right(c, c.fed) /\ c.iv = (c.fed + BlockSize - 1) \div BlockSize
        BY <1>3, <1>7, <2>1, Zenon DEF Contents
    <2>5. c.iv = q
        <3>1. BlockSize - 1 \in 0 .. BlockSize - 1
            BY <2>3
        <3>2. (q * BlockSize + (BlockSize - 1)) \div BlockSize = q
            BY <2>3, <3>1, DivisionIsUnique
        <3>3. c.fed + BlockSize - 1 = q * BlockSize + (BlockSize - 1)
            BY <1>1, <2>2, <2>3
        <3> QED
            BY <2>4, <3>2, <3>3, Zenon
    <2>6. bytes = CbcBytes(c, Run(c.fed, n))
          /\ blocks = (n + BlockSize - 1) \div BlockSize
        BY <1>3, <1>7, Zenon DEF Effect
    <2>7. Right(c, c.fed) \o CbcBytes(c, Run(c.fed, n)) = Right(c, c.fed + n)
        <3>1. c.alg # "ECB_NO_PADDING" /\ n \in Nat
            BY <1>7
        <3>2. c.fed = c.iv * BlockSize
            BY <2>2, <2>5, Zenon
        <3> QED
            BY <1>1, <1>5, <3>1, <3>2, RightGoesOn
    <2>8. (d.fed + BlockSize - 1) \div BlockSize = q + blocks
        <3>1. n + BlockSize - 1 \in Nat
            BY <2>3
        <3>2. (q * BlockSize + (n + BlockSize - 1)) \div BlockSize
                = q + (n + BlockSize - 1) \div BlockSize
            BY <3>1, BlocksBefore
        <3>3. d.fed + BlockSize - 1 = q * BlockSize + (n + BlockSize - 1)
            BY <1>1, <1>2, <2>2, <2>3
        <3> QED
            BY <2>6, <3>2, <3>3, Zenon
    <2> QED
        BY <1>2, <1>4, <2>4, <2>5, <2>6, <2>7, <2>8, Zenon
<1>8. ~d.finished
    BY <1>2, <1>3, Zenon DEF Ordered
<1> QED
    BY <1>2, <1>5, <1>6, <1>7, <1>8, Zenon DEF Contents, Completed

LEMMA SequenceStarts ==
    ASSUME NEW S, NEW all \in Seq(S), NEW n \in Nat, n <= Len(all),
           NEW start \in Seq(S), Len(start) = n,
           \A i \in 1 .. n : start[i] = all[i]
    PROVE  SubSeq(all, 1, n) = start
<1>1. \A i \in 1 .. n : all[i] \in S
    BY ElementOfSeq, LenProperties
<1>2. /\ SubSeq(all, 1, n) \in Seq(S)
      /\ Len(SubSeq(all, 1, n)) = n
      /\ \A i \in 1 .. n : SubSeq(all, 1, n)[i] = all[i]
    <2>1. 1 \in Int /\ n \in Int
        OBVIOUS
    <2>2. /\ SubSeq(all, 1, n) \in Seq(S)
          /\ Len(SubSeq(all, 1, n)) = IF 1 <= n THEN n - 1 + 1 ELSE 0
          /\ \A i \in 1 .. n - 1 + 1 : SubSeq(all, 1, n)[i] = all[1 + i - 1]
        BY <1>1, <2>1, SubSeqProperties
    <2> QED
        BY <2>2
<1> QED
    BY <1>2, SeqEqual

LEMMA BlockStarts ==
    ASSUME s \in Keys \cup {NoKey}, NEW c, c.iv \in Nat, NEW a \in Nat,
           NEW m \in Nat, NEW n \in Nat, n <= m
    PROVE  SubSeq(CbcBytes(c, Run(a, m)), 1, n) = CbcBytes(c, Run(a, n))
<1>1. /\ CbcBytes(c, Run(a, m)) \in Seq(OutputByte)
      /\ Len(CbcBytes(c, Run(a, m))) = m
      /\ CbcBytes(c, Run(a, n)) \in Seq(OutputByte)
      /\ Len(CbcBytes(c, Run(a, n))) = n
    <2>1. \A w \in Nat : /\ CbcBytes(c, Run(a, w)) \in Seq(OutputByte)
                        /\ Len(CbcBytes(c, Run(a, w))) = w
        <3> TAKE w \in Nat
        <3> QED
            BY BytesAreOutput
    <2> QED
        BY <2>1, Zenon
<1>2. \A i \in 1 .. n : CbcBytes(c, Run(a, n))[i] = CbcBytes(c, Run(a, m))[i]
    <2>1. \A w \in Nat : \A i \in 1 .. w : CbcBytes(c, Run(a, w))[i] =
            [pos |-> a + i, key |-> s, blk |-> c.iv + (i - 1) \div BlockSize,
             off |-> (i - 1) % BlockSize]
        <3> TAKE w \in Nat
        <3>1. DOMAIN Run(a, w) = 1 .. w /\ \A i \in 1 .. w : Run(a, w)[i] = a + i
            BY RunIsSequence
        <3> QED
            BY <3>1 DEF CbcBytes
    <2>2. \A i \in 1 .. n : i \in 1 .. m
        OBVIOUS
    <2> QED
        BY <2>1, <2>2
<1> DEFINE all == CbcBytes(c, Run(a, m))
           start == CbcBytes(c, Run(a, n))
<1>3. /\ all \in Seq(OutputByte) /\ n <= Len(all)
      /\ start \in Seq(OutputByte) /\ Len(start) = n
      /\ \A i \in 1 .. n : start[i] = all[i]
    BY <1>1, <1>2
<1> HIDE DEF all, start
<1>4. SubSeq(all, 1, n) = start
    BY <1>3, SequenceStarts
<1> QED
    BY <1>4 DEF all, start

(* The block that a padded decryption kept is the end of the padded text.  *)
LEMMA LastBlockIsLast ==
    ASSUME NEW c, c.key \in Keys \cup {NoKey}, s = c.key, c.iv \in Nat,
           c.alg # "ECB_NO_PADDING", NEW a \in Nat, a = c.iv * BlockSize
    PROVE  CbcBytes(c, Run(a, BlockSize))
            = SubSeq(Right(c, a + BlockSize), (a + BlockSize) - BlockSize + 1,
                     a + BlockSize)
<1>1. PICK size \in Nat : size = BlockSize
    BY CipherAssumption
<1> DEFINE old == Right(c, a)
           new == CbcBytes(c, Run(a, size))
           all == Right(c, a + size)
<1>2. old \in Seq(OutputByte) /\ Len(old) = a
    BY RightIsSequence
<1>3. all \in Seq(OutputByte) /\ Len(all) = a + size
    <2>1. a + size \in Nat
        OBVIOUS
    <2> QED
        BY <2>1, RightIsSequence
<1>4. new \in Seq(OutputByte) /\ Len(new) = size
    BY BytesAreOutput
<1>5. old \o new = all
    BY RightGoesOn
<1> HIDE DEF old, new, all
<1>6. \A i \in 1 .. size : all[a + i] = new[i]
    <2>1. \A i \in 1 .. Len(old) + Len(new) :
            (old \o new)[i] = IF i <= Len(old) THEN old[i] ELSE new[i - Len(old)]
        BY <1>2, <1>4, ConcatProperties
    <2> TAKE i \in 1 .. size
    <2>2. a + i \in 1 .. a + size /\ ~(a + i <= a) /\ (a + i) - a = i
        OBVIOUS
    <2>3. (old \o new)[a + i] = new[(a + i) - a]
        BY <1>2, <1>4, <2>1, <2>2
    <2> QED
        BY <1>5, <2>2, <2>3, Zenon
<1>7. \A j \in a + 1 .. a + size : all[j] \in OutputByte
    <2>1. \A j \in a + 1 .. a + size : j \in 1 .. Len(all)
        BY <1>3
    <2> QED
        BY <1>3, <2>1, ElementOfSeq
<1>8. /\ SubSeq(all, a + 1, a + size) \in Seq(OutputByte)
      /\ Len(SubSeq(all, a + 1, a + size)) = size
      /\ \A i \in 1 .. size : SubSeq(all, a + 1, a + size)[i] = all[a + i]
    <2>1. a + 1 \in Int /\ a + size \in Int
        OBVIOUS
    <2>2. /\ SubSeq(all, a + 1, a + size) \in Seq(OutputByte)
          /\ Len(SubSeq(all, a + 1, a + size)) =
                IF a + 1 <= a + size THEN (a + size) - (a + 1) + 1 ELSE 0
          /\ \A i \in 1 .. (a + size) - (a + 1) + 1 :
                SubSeq(all, a + 1, a + size)[i] = all[(a + 1) + i - 1]
        BY <1>7, <2>1, SubSeqProperties
    <2>3. /\ (IF a + 1 <= a + size THEN (a + size) - (a + 1) + 1 ELSE 0) = size
          /\ (a + size) - (a + 1) + 1 = size
          /\ \A i \in 1 .. size : (a + 1) + i - 1 = a + i
        OBVIOUS
    <2> QED
        BY <2>2, <2>3
<1>9. SubSeq(all, a + 1, a + size) = new
    <2>1. \A i \in 1 .. size : SubSeq(all, a + 1, a + size)[i] = new[i]
        BY <1>6, <1>8
    <2> QED
        BY <1>4, <1>8, <2>1, SeqEqual
<1>10. (a + size) - size + 1 = a + 1
    OBVIOUS
<1>11. new = SubSeq(all, (a + size) - size + 1, a + size)
    BY <1>9, <1>10, Zenon
<1> QED
    BY <1>1, <1>11, Zenon DEF new, all
LEMMA FinishIsRight ==
    ASSUME NEW c \in CipherOperation, NEW out \in FinishOutputs(c),
           s \in Keys \cup {NoKey}, NEW d \in CipherOperation, d.id = FALSE,
           d.alg = c.alg, d.enc = c.enc, d.key = c.key, d.len = c.len,
           d.fed = c.fed, d.cut = c.cut, d.out = c.out \o out
    PROVE  Ordered(c) /\ c.id /\ Contents(c) /\ s = c.key => Contents(d)
<1>1. SUFFICES ASSUME Ordered(c), c.id, Contents(c), s = c.key
               PROVE  Contents(d)
    OBVIOUS
<1>2. /\ c.fed \in Nat /\ c.out \in Seq(OutputByte) /\ c.alg \in Algorithms
      /\ c.len \in Nat /\ c.iv \in Nat /\ c.key \in Keys \cup {NoKey}
      /\ c.enc \in BOOLEAN
    BY DEF CipherOperation
<1>3. BlockSize \in Nat \ {0}
    BY CipherAssumption
<1>4. PICK a \in Nat : a = Len(c.out)
    BY <1>2, LenProperties
<1>5. PICK u \in Nat : u = c.fed - a
    BY <1>1, <1>2, <1>4 DEF Ordered
<1>6. c.fed = a + u /\ c.unprocessed = Run(a, u)
    BY <1>1, <1>2, <1>4, <1>5 DEF Ordered
<1>7. \A m : Right(d, m) = Right(c, m)
    BY SameRight, Zenon
<1>8. s = c.key
    BY <1>1
<1>9. CASE c.alg = "ECB_NO_PADDING"
    BY <1>9 DEF Contents, CbcAlgs
<1>10. CASE c.alg = "CTR"
    <2>1. out = <<>>
        BY <1>10 DEF FinishOutputs
    <2>2. d.out = c.out
        BY <1>2, <2>1, ConcatEmptySeq
    <2>3. ~d.cut => c.out = Right(c, c.fed)
        BY <1>1, <1>10, Zenon DEF Contents
    <2>4. ~d.cut => d.out = Right(d, d.fed)
        BY <1>7, <2>2, <2>3, Zenon
    <2>5. d.alg \notin CbcAlgs
        BY <1>10 DEF CbcAlgs
    <2> QED
        BY <2>4, <2>5, Zenon DEF Contents
<1>11. CASE c.alg \in CbcAlgs
    <2>0. c.out = Right(c, a) /\ a = c.iv * BlockSize /\ c.alg # "ECB_NO_PADDING"
        <3>1. c.out = Right(c, a)
            BY <1>1, <1>4, <1>11, Zenon DEF Contents
        <3> QED
            BY <1>1, <1>4, <1>11, <3>1 DEF Ordered, CbcAlgs
    <2>1. SUFFICES ASSUME Completed(d)
                   PROVE  d.out = Right(d, IF KeptPadding(d) THEN InputLength(d)
                                           ELSE MessageLength(d))
        <3>1. d.alg # "CTR"
            BY <1>11 DEF CbcAlgs
        <3> QED
            BY <2>1, <3>1 DEF Contents
    <2>2. CASE c.alg = "CBC_NO_PADDING"
        <3>1. out = <<>> /\ c.unprocessed = <<>>
            BY <2>2 DEF FinishOutputs
        <3>2. u = 0
            BY <1>6, <3>1, RunIsSequence
        <3>3. d.out = c.out
            BY <1>2, <3>1, ConcatEmptySeq
        <3>4. a = d.fed
            BY <1>6, <3>2
        <3>5. ~KeptPadding(d) /\ MessageLength(d) = d.fed
            BY <2>2 DEF KeptPadding, HoldsBack, MessageLength
        <3> QED
            BY <1>7, <2>0, <3>3, <3>4, <3>5, Zenon
    <2>3. CASE c.alg = "CBC_PKCS7" /\ c.enc
        <3>1. u < BlockSize
            BY <1>1, <1>4, <1>5, <2>3 DEF Ordered, Holdable, HoldsBack
        <3>2. AddPadding(c) = Run(a, BlockSize)
            BY <1>3, <1>6, <3>1, PaddingFollows
        <3>3. out = CbcBytes(c, Run(a, BlockSize))
            BY <2>3, <3>2 DEF FinishOutputs
        <3>4. Right(c, a) \o CbcBytes(c, Run(a, BlockSize)) = Right(c, a + BlockSize)
            BY <1>2, <1>3, <1>8, <2>0, RightGoesOn
        <3>5. PaddedLength(c.fed) = a + BlockSize
            <4>1. (c.iv * BlockSize + u) \div BlockSize = c.iv
                <5>1. u \in 0 .. BlockSize - 1
                    BY <1>3, <3>1
                <5> QED
                    BY <1>2, <1>3, <5>1, DivisionIsUnique
            <4>2. c.fed \div BlockSize = c.iv
                BY <1>6, <2>0, <4>1, Zenon
            <4>3. (c.iv + 1) * BlockSize = c.iv * BlockSize + BlockSize
                BY <1>2, <1>3
            <4> QED
                BY <2>0, <4>2, <4>3, Zenon DEF PaddedLength
        <3>6. ~KeptPadding(d) /\ MessageLength(d) = PaddedLength(c.fed)
            BY <2>3 DEF KeptPadding, HoldsBack, MessageLength
        <3> QED
            BY <1>7, <2>0, <3>3, <3>4, <3>5, <3>6, Zenon
    <2>4. CASE c.alg = "CBC_PKCS7" /\ ~c.enc
        <3> DEFINE block == CbcBytes(c, c.unprocessed)
        <3>1. Len(block) = BlockSize
              /\ \E n \in DataLengths(c, block) : out = SubSeq(block, 1, n)
            BY <2>4 DEF FinishOutputs
        <3>2. Len(block) = u
            BY <1>2, <1>6, <1>8, BytesAreOutput
        <3>3. u = BlockSize /\ block = CbcBytes(c, Run(a, BlockSize))
            BY <1>6, <3>1, <3>2
        <3> HIDE DEF block
        <3>4. PICK n \in DataLengths(c, block) : out = SubSeq(block, 1, n)
            BY <3>1
        <3>5. n \in 1 .. BlockSize
            BY <1>2, DataLengthsFit
        <3>6. SubSeq(block, 1, n) = CbcBytes(c, Run(a, n))
            <4>1. n \in Nat /\ BlockSize \in Nat /\ n <= BlockSize
                BY <1>3, <3>5
            <4>2. s \in Keys \cup {NoKey} /\ c.iv \in Nat
                BY <1>2
            <4>3. ASSUME NEW m \in Nat, NEW w \in Nat, w <= m
                  PROVE  SubSeq(CbcBytes(c, Run(a, m)), 1, w)
                            = CbcBytes(c, Run(a, w))
                BY <4>2, <4>3, BlockStarts
            <4>4. SubSeq(CbcBytes(c, Run(a, BlockSize)), 1, n)
                    = CbcBytes(c, Run(a, n))
                BY <4>1, <4>3, Zenon
            <4> QED
                BY <3>3, <4>4, Zenon
        <3>7. d.out = Right(d, a + n)
            <4>1. n \in Nat
                BY <3>5
            <4>2. Right(c, a) \o CbcBytes(c, Run(a, n)) = Right(c, a + n)
                BY <1>2, <1>8, <2>0, <4>1, RightGoesOn
            <4> QED
                BY <1>7, <2>0, <3>4, <3>6, <4>2, Zenon
        <3>8. PICK padded \in Nat : padded = PaddedLength(c.len)
            BY <1>2, PaddingFits
        <3>9. padded = a + BlockSize
            <4>1. HoldsBack(d) /\ InputLength(d) = PaddedLength(c.len)
                BY <2>4 DEF HoldsBack, InputLength
            <4>2. c.fed = padded
                BY <2>1, <3>8, <4>1 DEF Completed
            <4> QED
                BY <1>6, <3>3, <4>2
        <3>10. block = SubSeq(Right(c, padded), padded - BlockSize + 1, padded)
            BY <1>2, <1>8, <2>0, <3>3, <3>9, LastBlockIsLast
        <3>11. PICK p \in 1 .. BlockSize : p = padded - c.len
            BY <1>2, <3>8, PaddingFits
        <3>12. p = BlockSize <=> c.len % BlockSize = 0
            BY <1>2, <3>8, <3>11, PaddingFits
        <3>13. n = IF p >= BlockSize THEN BlockSize ELSE BlockSize - p
            BY <3>8, <3>10, <3>11 DEF DataLengths
        <3>14. a + n = IF KeptPadding(d) THEN InputLength(d) ELSE MessageLength(d)
            <4>1. /\ KeptPadding(d) <=> c.len % BlockSize = 0
                  /\ InputLength(d) = padded /\ MessageLength(d) = c.len
                BY <2>4, <3>8 DEF KeptPadding, HoldsBack, InputLength, MessageLength
            <4>2. /\ p = BlockSize => a + n = padded
                  /\ p # BlockSize => a + n = c.len
                BY <1>2, <1>3, <3>9, <3>11, <3>13
            <4> QED
                BY <3>12, <4>1, <4>2, Zenon
        <3> QED
            BY <3>7, <3>14, Zenon
    <2> QED
        BY <1>2, <1>11, <2>2, <2>3, <2>4 DEF CbcAlgs
<1> QED
    BY <1>2, <1>9, <1>10, <1>11 DEF Algorithms, CbcAlgs
LEMMA OneContentsChanges ==
    ASSUME RightInv, CipherInv', ScheduleHeld, NEW o \in CipherObjects, NEW d,
           Contents(d), cipher' = [cipher EXCEPT ![o] = d], d.id => s' = d.key
    PROVE  RightInv'
<1>1. \A p \in CipherObjects : cipher'[p] = IF p = o THEN d ELSE cipher[p]
    BY DEF RightInv, CipherInv, CipherTypeOK
<1>2. \A p \in CipherObjects : Contents(cipher'[p])
    BY <1>1, Zenon DEF RightInv
<1>3. ASSUME NEW p \in CipherObjects, cipher'[p].id
      PROVE  s' = cipher'[p].key
    <2>1. CASE p = o
        BY <1>1, <1>3, <2>1
    <2>2. CASE p # o
        <3>1. cipher'[p] = cipher[p]
            BY <1>1, <2>2
        <3>2. s = cipher[p].key /\ s' = s
            BY <1>3, <3>1 DEF RightInv, ScheduleHeld
        <3> QED
            BY <3>1, <3>2
    <2> QED
        BY <2>1, <2>2
<1> QED
    BY <1>2, <1>3, Zenon DEF RightInv

LEMMA NoContents == Contents(CipherZero)
<1>1. CipherZero \in CipherOperation
    BY NoOperation
<1>2. /\ CipherZero.fed = 0 /\ CipherZero.out = <<>> /\ ~CipherZero.finished
      /\ ~CipherZero.id
    BY DEF CipherZero
<1> QED
    BY <1>1, <1>2, NothingIsRight, Zenon

LEMMA CallKeepsRight ==
    ASSUME RightInv, NEW o \in CipherObjects, CipherCall(o), ScheduleHeld,
           CipherInv'
    PROVE  RightInv'
<1> DEFINE c == cipher[o]
<1>1. CipherInv /\ c \in CipherOperation /\ Ordered(c) /\ Contents(c)
      /\ (c.id => s = c.key) /\ s \in Keys \cup {NoKey}
    BY DEF RightInv, CipherInv, CipherTypeOK
<1>2. CASE \E q \in Keys, a \in Algs, e \in BOOLEAN :
                \E n \in Lengths(a, e) : CipherSetup(o, q, a, e, n)
    <2>1. PICK k \in Keys, a \in Algs, e \in BOOLEAN :
                \E n \in Lengths(a, e) : CipherSetup(o, k, a, e, n)
        BY <1>2
    <2>2. PICK n \in Lengths(a, e) : CipherSetup(o, k, a, e, n)
        BY <2>1
    <2> DEFINE d == [CipherZero EXCEPT !.id = TRUE,
                                       !.iv_required = IvRequired(a),
                                       !.alg = a, !.enc = e,
                                       !.key = k, !.len = n]
    <2>3. cipher' = [cipher EXCEPT ![o] = d] /\ s' = k
        BY <2>2 DEF CipherSetup
    <2>4. cipher'[o] = d /\ cipher' \in [CipherObjects -> CipherOperation]
        BY <2>3 DEF RightInv, CipherInv, CipherTypeOK
    <2>5. d \in CipherOperation
        BY <2>4, Zenon
    <2>6. d.fed = 0 /\ d.out = <<>> /\ ~d.finished /\ d.key = k /\ d.iv = 0
        BY DEF CipherZero
    <2> HIDE DEF d
    <2>7. Contents(d)
        BY <2>5, <2>6, NothingIsRight, Zenon
    <2> QED
        BY <2>3, <2>6, <2>7, OneContentsChanges
<1>3. CASE \/ CipherSetupFails(o)
           \/ CipherAbort(o)
    <2>1. cipher' = [cipher EXCEPT ![o] = CipherZero] /\ s' = s
        BY <1>3 DEF CipherSetupFails, CipherAbort
    <2>2. ~CipherZero.id
        BY DEF CipherZero
    <2> QED
        BY <2>1, <2>2, NoContents, OneContentsChanges
<1>4. CASE CipherSetIv(o)
    <2> DEFINE d == [c EXCEPT !.iv_set = TRUE, !.iv = 0]
    <2>1. c.id /\ c.iv_required /\ ~c.iv_set /\ s' = s
        BY <1>4 DEF CipherSetIv
    <2>2. cipher' = [cipher EXCEPT ![o] = d]
        <3>1. cipher' = [cipher EXCEPT ![o].iv_set = TRUE, ![o].iv = 0]
            BY <1>4 DEF CipherSetIv
        <3> QED
            BY <3>1, <1>1 DEF CipherInv, CipherTypeOK
    <2>3. /\ d \in CipherOperation /\ d.fed = c.fed /\ d.out = c.out
          /\ d.finished = c.finished /\ d.key = c.key /\ d.iv = 0
        BY <1>1 DEF CipherOperation
    <2> HIDE DEF c, d
    <2>4. c.fed = 0 /\ Len(c.out) <= c.fed /\ ~c.finished
        BY <1>1, <2>1, Zenon DEF Ordered, IvReady
    <2>5. c.out = <<>>
        <3>1. c.out \in Seq(OutputByte)
            BY <1>1 DEF CipherOperation
        <3>2. Len(c.out) = 0
            BY <2>4, <3>1, LenProperties
        <3> QED
            BY <3>1, <3>2, EmptySeq
    <2>6. Contents(d)
        BY <2>3, <2>4, <2>5, NothingIsRight, Zenon
    <2>7. s' = d.key
        BY <1>1, <2>1, <2>3
    <2> QED
        BY <2>2, <2>6, <2>7, OneContentsChanges
<1>5. CASE \E n \in 1 .. MaxMessage + BlockSize : CipherUpdate(o, n)
    <2>1. PICK n \in 1 .. MaxMessage + BlockSize : CipherUpdate(o, n)
        BY <1>5
    <2>2. n \in Nat
        BY CipherAssumption
    <2>3. c.id /\ s' = s
        BY <2>1 DEF CipherUpdate
    <2>4. PICK bytes \in Seq(OutputByte), kept \in Nat, blocks \in Nat :
            /\ Effect(c, n, bytes, kept, blocks)
            /\ cipher' = [cipher EXCEPT ![o] =
                Advanced(c, n, bytes, Run(Len(c.out) + Len(bytes), kept), blocks)]
        BY <1>1, <2>1, <2>2, UpdateKeepsAll, Zenon
    <2> HIDE DEF c
    <2>5. PICK done \in Nat : done = Len(c.out) + Len(bytes)
        <3>1. c.out \in Seq(OutputByte)
            BY <1>1 DEF CipherOperation
        <3>2. Len(c.out) \in Nat /\ Len(bytes) \in Nat
            BY <3>1, LenProperties
        <3> QED
            BY <3>2
    <2>6. PICK rest \in Seq(Nat) : rest = Run(done, kept)
        BY RunIsSequence
    <2>7. PICK d : d = Advanced(c, n, bytes, rest, blocks)
        OBVIOUS
    <2>8. cipher' = [cipher EXCEPT ![o] = d]
        BY <2>4, <2>5, <2>6, <2>7, Zenon
    <2>9. s = c.key /\ d.key = c.key
        BY <1>1, <2>2, <2>3, <2>7, AdvancedFields
    <2>10. Contents(d)
        BY <1>1, <2>2, <2>3, <2>4, <2>7, <2>9, UpdateIsRight
    <2> QED
        BY <2>3, <2>8, <2>9, <2>10, OneContentsChanges
<1>6. CASE CipherFinish(o)
    <2>1. c.id /\ s' = s
        BY <1>6 DEF CipherFinish
    <2>2. PICK out \in FinishOutputs(c) :
            cipher' = [cipher EXCEPT ![o] =
                [CipherZero EXCEPT
                    !.alg = c.alg, !.enc = c.enc, !.key = c.key, !.len = c.len,
                    !.fed = c.fed, !.cut = c.cut, !.out = c.out \o out,
                    !.finished = TRUE]]
        BY <1>1, <1>6, FinishKeepsOrder, Zenon
    <2>3. PICK all : all = c.out \o out
        OBVIOUS
    <2> DEFINE d == [CipherZero EXCEPT
                        !.alg = c.alg, !.enc = c.enc, !.key = c.key,
                        !.len = c.len, !.fed = c.fed, !.cut = c.cut,
                        !.out = all, !.finished = TRUE]
    <2>4. cipher' = [cipher EXCEPT ![o] = d]
        BY <2>2, <2>3, Zenon
    <2>5. d \in CipherOperation
        <3>1. cipher'[o] = d /\ cipher' \in [CipherObjects -> CipherOperation]
            BY <2>4 DEF RightInv, CipherInv, CipherTypeOK
        <3> QED
            BY <3>1, Zenon
    <2>6. /\ d.id = FALSE /\ d.alg = c.alg /\ d.enc = c.enc /\ d.key = c.key
          /\ d.len = c.len /\ d.fed = c.fed /\ d.cut = c.cut /\ d.out = all
        BY DEF CipherZero
    <2> HIDE DEF c, d
    <2>7. d.out = c.out \o out
        BY <2>3, <2>6, Zenon
    <2>8. s = c.key
        BY <1>1, <2>1, Zenon
    <2>9. Contents(d)
        BY <1>1, <2>1, <2>5, <2>6, <2>7, <2>8, FinishIsRight, Zenon
    <2> QED
        BY <2>4, <2>6, <2>9, OneContentsChanges
<1> QED
    BY <1>2, <1>3, <1>4, <1>5, <1>6 DEF CipherCall

LEMMA NextKeepsRight == RightInv /\ [HeldNext]_vars => RightInv'
<1> SUFFICES ASSUME RightInv, [HeldNext]_vars PROVE RightInv'
    OBVIOUS
<1>1. CipherInv /\ CipherInv'
    BY NextKeepsOrder DEF RightInv, HeldNext
<1>2. ASSUME CipherNext, ScheduleHeld PROVE RightInv'
    <2>1. CASE \E o \in CipherObjects : CipherCall(o)
        BY <1>1, <1>2, <2>1, CallKeepsRight
    <2>2. CASE \E q \in Keys : CipherOneShot(q)
        <3>1. cipher' = cipher
            BY <2>2 DEF CipherOneShot
        <3> QED
            BY <1>1, <1>2, <3>1 DEF RightInv, ScheduleHeld
    <2> QED
        BY <1>2, <2>1, <2>2 DEF CipherNext
<1>3. CASE UNCHANGED cipherVars
    BY <1>1, <1>3 DEF cipherVars, RightInv
<1>4. CASE Panic
    <2>1. cipher' = [o \in CipherObjects |-> CipherZero]
        BY <1>4 DEF Panic
    <2>2. \A o \in CipherObjects : cipher'[o] = CipherZero
        BY <2>1
    <2>3. ~CipherZero.id
        BY DEF CipherZero
    <2> QED
        BY <1>1, <2>2, <2>3, NoContents DEF RightInv
<1> QED
    BY <1>2, <1>3, <1>4 DEF HeldNext, Next, vars, cipherVars

LEMMA RightInvHolds == HeldSpec => []RightInv
<1>1. Init => RightInv
    <2> SUFFICES ASSUME Init PROVE RightInv
        OBVIOUS
    <2>1. cipher = [o \in CipherObjects |-> CipherZero] /\ s = NoKey
        BY DEF Init, CipherInit
    <2>2. \A o \in CipherObjects : cipher[o] = CipherZero
        BY <2>1
    <2>3. ~CipherZero.id
        BY DEF CipherZero
    <2> QED
        BY <2>1, <2>2, <2>3, NoOperations, NoContents DEF RightInv
<1> QED
    BY <1>1, NextKeepsRight, PTL DEF HeldSpec

(* While the schedule is held, CBC loses, repeats and moves no byte,       *)
(* wherever its message is cut into calls of psa_cipher_update: what came  *)
(* out is right, and what did not is kept, in order (NothingLost).         *)
THEOREM NothingIsLost == HeldSpec => []NothingLost
<1>1. RightInv => NothingLost
    <2> SUFFICES ASSUME RightInv, NEW o \in CipherObjects, cipher[o].id,
                        cipher[o].alg \in {"CBC_NO_PADDING", "CBC_PKCS7"}
                 PROVE  /\ cipher[o].out = Right(cipher[o], Len(cipher[o].out))
                        /\ cipher[o].unprocessed =
                            [i \in 1 .. cipher[o].fed - Len(cipher[o].out) |->
                                Len(cipher[o].out) + i]
        BY DEF NothingLost
    <2>1. Ordered(cipher[o]) /\ Contents(cipher[o])
        BY DEF RightInv, CipherInv
    <2> QED
        BY <2>1, Zenon DEF Ordered, Contents, CbcAlgs, Run
<1> QED
    BY <1>1, RightInvHolds, PTL

(* And a CBC operation that finishes has given its message; the            *)
(* padding of a message of whole blocks stays on it (psa_cipher_finish,    *)
(* get_pkcs_padding).                                                      *)
THEOREM CbcGivesItsMessage == HeldSpec => []CbcFinishedIsMessage
<1>1. RightInv => CbcFinishedIsMessage
    BY DEF RightInv, Contents, KeptPadding, CbcAlgs, CbcFinishedIsMessage
<1> QED
    BY <1>1, RightInvHolds, PTL

(* And CTR gives its message when only the last fragment ends              *)
(* inside a block (iotex_aes_crypt_ctr).                                   *)
THEOREM CtrGivesItsMessage == HeldSpec => []CtrExactOnWholeBlocks
<1>1. RightInv => CtrExactOnWholeBlocks
    BY DEF RightInv, Contents, CtrExactOnWholeBlocks
<1> QED
    BY <1>1, RightInvHolds, PTL
=============================================================================
