--------------------------- MODULE KeySlotsProofs ---------------------------
(***************************************************************************)
(* Proofs about KeySlots, for any number of slots and any sets of ids and  *)
(* key material.                                                           *)
(***************************************************************************)
EXTENDS KeySlots, FiniteSetTheorems, WellFoundedInduction, TLAPS

(* The first slot of a set is one of the set: the loops over key_slots     *)
(* stop at an element of the table.                                        *)
LEMMA FirstIsMember ==
    ASSUME NEW S \in SUBSET Nat, S # {}
    PROVE  First(S) \in S
<1> DEFINE Less == {ss \in Nat \X Nat : ss[1] < ss[2]}
<1>1. OpToRel(<, Nat) = Less
  BY Zenon DEF OpToRel
<1>2. IsWellFoundedOn(Less, Nat)
  BY <1>1, NatLessThanWellFounded
<1> HIDE DEF Less
<1>3. PICK i \in S : \A j \in S : ~ (<<j, i>> \in Less)
  BY <1>2, WFMin
<1>4. ASSUME NEW j \in S, ~ (i <= j) PROVE FALSE
  <2>1. j \in Nat /\ i \in Nat /\ j < i
    BY <1>4
  <2>2. <<j, i>> \in Less
    BY <2>1 DEF Less
  <2>3. QED
    BY <1>3, <2>2
<1>5. QED
  BY <1>4 DEF First

LEMMA SlotsAreNaturals == Slots \subseteq Nat /\ NoSlot \notin Slots
  BY SlotsAssumption DEF Slots, NoSlot

LEMMA VolatileIdsDisjoint ==
    /\ VolatileIds \cap PersistentIds = {}
    /\ NullId \notin Ids
    /\ \A i \in Slots : VolatileId(i) \in VolatileIds
    /\ \A i, j \in Slots : VolatileId(i) = VolatileId(j) => i = j
  BY SlotsAssumption DEF VolatileIds, VolatileId, NullId, Ids, Slots

(* Where the search for a free slot ends: nowhere, at a free slot, or at   *)
(* an unlocked slot that holds a persistent key.                           *)
LEMMA EmptySlotFound ==
    ASSUME EmptySlot # NoSlot
    PROVE  /\ EmptySlot \in Slots
           /\ \/ ~ slots[EmptySlot].occupied
              \/ slots[EmptySlot].persistent /\ slots[EmptySlot].lock = 0
<1> DEFINE free == {i \in Slots : ~ slots[i].occupied}
           evictable == {i \in Slots : slots[i].persistent /\ slots[i].lock = 0}
<1>1. free \in SUBSET Nat /\ evictable \in SUBSET Nat
  BY SlotsAreNaturals
<1>2. CASE free # {}
  <2>1. First(free) \in free
    BY <1>1, <1>2, FirstIsMember
  <2>2. EmptySlot = First(free)
    BY <1>2 DEF EmptySlot
  <2>3. QED
    BY <2>1, <2>2
<1>3. CASE free = {}
  <2>1. evictable # {} /\ EmptySlot = First(evictable)
    BY <1>3 DEF EmptySlot
  <2>2. First(evictable) \in evictable
    BY <1>1, <2>1, FirstIsMember
  <2>3. QED
    BY <2>1, <2>2
<1>4. QED
  BY <1>2, <1>3

LEMMA SlotInMemoryFound ==
    ASSUME NEW k \in Ids, SlotInMemory(k) # NoSlot
    PROVE  SlotInMemory(k) \in Slots /\ slots[SlotInMemory(k)].id = k
<1>1. CASE k \in VolatileIds
  <2>1. k - VolatileMin \in Slots
    BY <1>1, SlotsAssumption DEF VolatileIds, VolatileId, Slots
  <2>2. QED
    BY <1>1, <2>1 DEF SlotInMemory
<1>2. CASE k \notin VolatileIds
  <2> DEFINE found == {i \in Slots : slots[i].id = k}
  <2>1. found # {} /\ SlotInMemory(k) = First(found)
    BY <1>2 DEF SlotInMemory
  <2>2. found \in SUBSET Nat
    BY SlotsAreNaturals
  <2>3. First(found) \in found
    BY <2>1, <2>2, FirstIsMember
  <2>4. QED
    BY <2>1, <2>3
<1>3. QED
  BY <1>1, <1>2

-----------------------------------------------------------------------------
(* Type correctness, for any tasks.  The slot pointers a call carries are  *)
(* set when its program point needs them.                                  *)

SourceLabels == {"load", "found", "unlock", "dangling", "erase", "wipe",
                 "closing"}
TargetLabels == {"fill", "finish", "release", "fail"}

PointersMatchPc(t) ==
    /\ pc[t] \in {"idle", "find"} => src[t] = NoSlot
    /\ pc[t] \in {"idle", "find"} \cup SourceLabels => dst[t] = NoSlot
    /\ pc[t] \in SourceLabels => src[t] \in Slots
    /\ pc[t] \in TargetLabels =>
          /\ dst[t] \in Slots
          /\ IF call[t].op = "copy" THEN src[t] \in Slots ELSE src[t] = NoSlot
    /\ pc[t] \in {"find", "load", "found"} =>
          call[t].op \in UseOps /\ call[t].key \in Ids

TypeInv == TypeOK /\ \A t \in Tasks : PointersMatchPc(t)

LEMMA ClaimedIsSlot ==
    ASSUME TypeOK, NEW i \in Slots
    PROVE  Claimed(i) \in Slot
<1>1. slots[i] \in Slot
  BY DEF TypeOK
<1>2. [slots[i] EXCEPT !.lock = @ + 1] \in Slot
  BY <1>1 DEF Slot
<1>3. [ZeroSlot EXCEPT !.lock = 1] \in Slot
  BY DEF ZeroSlot, Slot
<1>4. QED
  BY <1>2, <1>3 DEF Claimed

LEMMA UnlockedIsSlot ==
    ASSUME TypeOK, NEW i \in Slots
    PROVE  Unlocked(i) \in Slot
  BY DEF TypeOK, Unlocked, Slot

LEMMA ZeroSlotIsSlot == ZeroSlot \in Slot
  BY DEF ZeroSlot, Slot

LEMMA StartedIsSlot ==
    ASSUME TypeOK, NEW i \in Slots, NEW new \in PersistentIds \cup {NullId}
    PROVE  Started(i, new) \in Slot
<1>1. (IF new = NullId THEN VolatileId(i) ELSE new) \in Ids
  BY VolatileIdsDisjoint DEF Ids
<1>2. Claimed(i) \in Slot
  BY ClaimedIsSlot
<1>3. QED
  BY <1>1, <1>2 DEF Started, Slot

LEMMA TypeInit == Init => TypeInv
<1> SUFFICES ASSUME Init PROVE TypeInv
  OBVIOUS
<1>1. TypeOK
  BY ZeroSlotIsSlot
  DEF Init, TypeOK, Labels, Calls, NoCall
<1>2. QED
  BY <1>1
  DEF Init, TypeInv, PointersMatchPc, SourceLabels, TargetLabels

LEMMA TypeLookup ==
    ASSUME TypeInv, NEW t \in Tasks, NEW op \in UseOps, NEW k \in Ids,
           NEW new \in PersistentIds \cup {NullId}, Lookup(t, op, k, new)
    PROVE  TypeInv'
<1>1. [op |-> op, key |-> k, new |-> new] \in Calls
  BY DEF Calls
<1>2. CASE SlotInMemory(k) # NoSlot
  <2>1. SlotInMemory(k) \in Slots
    BY <1>2, SlotInMemoryFound
  <2>2. [slots[SlotInMemory(k)] EXCEPT !.lock = @ + 1] \in Slot
    BY <2>1 DEF TypeInv, TypeOK, Slot
  <2>3. QED
    BY <1>1, <1>2, <2>1, <2>2
    DEF Lookup, Lock, Update, Goto, TypeInv, TypeOK, Labels, PointersMatchPc,
        SourceLabels, TargetLabels
<1>3. CASE SlotInMemory(k) = NoSlot
  BY <1>1, <1>3
  DEF Lookup, Goto, TypeInv, TypeOK, Labels, PointersMatchPc, SourceLabels,
      TargetLabels
<1>4. QED
  BY <1>2, <1>3

LEMMA TypeCloseLookup ==
    ASSUME TypeInv, NEW t \in Tasks, NEW op \in {"close", "purge"},
           NEW k \in Ids, CloseLookup(t, op, k)
    PROVE  TypeInv'
<1>1. [op |-> op, key |-> k, new |-> NullId] \in Calls
  BY DEF Calls
<1>2. SlotInMemory(k) \in Slots
  BY SlotInMemoryFound DEF CloseLookup
<1>3. [slots[SlotInMemory(k)] EXCEPT !.lock = @ + 1] \in Slot
  BY <1>2 DEF TypeInv, TypeOK, Slot
<1>4. QED
  BY <1>1, <1>2, <1>3
  DEF CloseLookup, Lock, Update, Goto, TypeInv, TypeOK, Labels, PointersMatchPc,
      SourceLabels, TargetLabels

LEMMA NoCallIsCall == NoCall \in Calls
  BY DEF NoCall, Calls

LEMMA TypeFindSlot ==
    ASSUME TypeInv, NEW t \in Tasks, FindSlot(t)
    PROVE  TypeInv'
<1>1. CASE EmptySlot = NoSlot
  BY <1>1, NoCallIsCall
  DEF FindSlot, Return, Goto, TypeInv, TypeOK, Labels, PointersMatchPc,
      SourceLabels, TargetLabels
<1>2. CASE EmptySlot # NoSlot
  <2>1. EmptySlot \in Slots /\ Claimed(EmptySlot) \in Slot
    BY <1>2, EmptySlotFound, ClaimedIsSlot DEF TypeInv
  <2>2. call[t].key \in Ids
    BY DEF FindSlot, TypeInv, PointersMatchPc
  <2>3. [Claimed(EmptySlot) EXCEPT !.id = call[t].key, !.persistent = TRUE]
          \in Slot
    BY <2>1, <2>2 DEF Slot
  <2>4. QED
    BY <1>2, <2>1, <2>3
    DEF FindSlot, Update, Goto, TypeInv, TypeOK, Labels, PointersMatchPc,
        SourceLabels, TargetLabels
<1>3. QED
  BY <1>1, <1>2

LEMMA TypeLoad ==
    ASSUME TypeInv, NEW t \in Tasks, Load(t)
    PROVE  TypeInv'
<1>1. src[t] \in Slots /\ dst[t] = NoSlot /\ call[t].op \in UseOps
      /\ call[t].key \in Ids
  BY DEF Load, TypeInv, PointersMatchPc, SourceLabels
<1>2. CASE LoadFails(t)
  BY <1>1, <1>2, ZeroSlotIsSlot, NoCallIsCall
  DEF Load, LoadFails, Wipe, Update, Return, Goto, TypeInv, TypeOK, Labels,
      PointersMatchPc, SourceLabels, TargetLabels
<1>3. CASE ~ LoadFails(t)
  <2> DEFINE i == src[t]
  <2>1. stored[slots[i].id] \in Materials
    BY <1>3 DEF Load
  <2>2. [slots[i] EXCEPT !.occupied = TRUE, !.persistent = TRUE,
                         !.data = stored[slots[i].id]] \in Slot
    <3>1. slots[i] \in Slot
      BY <1>1 DEF TypeInv, TypeOK
    <3>2. QED
      BY <2>1, <3>1 DEF Slot
  <2>3. QED
    BY <1>1, <1>3, <2>2
    DEF Load, Update, Goto, TypeInv, TypeOK, Labels, PointersMatchPc,
        SourceLabels, TargetLabels
<1>4. QED
  BY <1>2, <1>3

(* The steps that end a call by unlocking the slot it used.                *)
LEMMA TypeUnlock ==
    ASSUME TypeInv, NEW t \in Tasks,
           UnlockDangling(t) \/ UnlockSource(t) \/ Refuse(t)
    PROVE  TypeInv'
<1>1. src[t] \in Slots
  BY DEF UnlockDangling, UnlockSource, Refuse, TypeInv, PointersMatchPc,
         SourceLabels
<1>2. Unlocked(src[t]) \in Slot
  BY <1>1, UnlockedIsSlot DEF TypeInv
<1>3. QED
  BY <1>1, <1>2, NoCallIsCall
  DEF UnlockDangling, UnlockSource, Refuse, Unlock, Update, Return, Goto,
      TypeInv, TypeOK, Labels, PointersMatchPc, SourceLabels, TargetLabels

LEMMA TypeUse ==
    ASSUME TypeInv, NEW t \in Tasks, Use(t)
    PROVE  TypeInv'
<1>1. src[t] \in Slots /\ call[t].key \in Ids
  BY DEF Use, TypeInv, PointersMatchPc, SourceLabels
<1>2. read' \in [id : Ids \cup {NullId}, material : Materials \cup {None}]
  BY <1>1 DEF Use, TypeInv, TypeOK, Slot
<1>3. QED
  BY <1>1, <1>2
  DEF Use, Goto, TypeInv, TypeOK, Labels, PointersMatchPc, SourceLabels,
      TargetLabels

LEMMA TypeDestroyCheck ==
    ASSUME TypeInv, NEW t \in Tasks, DestroyCheck(t)
    PROVE  TypeInv'
<1>1. src[t] \in Slots
  BY DEF DestroyCheck, TypeInv, PointersMatchPc, SourceLabels
<1>2. Unlocked(src[t]) \in Slot
  BY <1>1, UnlockedIsSlot DEF TypeInv
<1>3. QED
  BY <1>1, <1>2, NoCallIsCall
  DEF DestroyCheck, Unlock, Update, Return, Goto, TypeInv, TypeOK, Labels,
      PointersMatchPc, SourceLabels, TargetLabels

LEMMA TypeErase ==
    ASSUME TypeInv, NEW t \in Tasks, Erase(t)
    PROVE  TypeInv'
<1>1. stored' \in [PersistentIds -> Materials \cup {Absent, Torn}]
  BY DEF Erase, DestroyResults, TypeInv, TypeOK
<1>2. QED
  BY <1>1
  DEF Erase, Goto, TypeInv, TypeOK, Labels, PointersMatchPc, SourceLabels,
      TargetLabels

LEMMA TypeWipe ==
    ASSUME TypeInv, NEW t \in Tasks, DestroyWipe(t) \/ Close(t)
    PROVE  TypeInv'
<1>1. src[t] \in Slots
  BY DEF DestroyWipe, Close, TypeInv, PointersMatchPc, SourceLabels
<1>2. Unlocked(src[t]) \in Slot
  BY <1>1, UnlockedIsSlot DEF TypeInv
<1>3. made' \in [VolatileIds -> Materials \cup {None}]
  BY DEF DestroyWipe, Close, Forget, TypeInv, TypeOK
<1>4. QED
  BY <1>1, <1>2, <1>3, ZeroSlotIsSlot, NoCallIsCall
  DEF DestroyWipe, Close, Unlock, Wipe, Update, Return, Goto, TypeInv, TypeOK,
      Labels, PointersMatchPc, SourceLabels, TargetLabels

LEMMA TypeMakeBegin ==
    ASSUME TypeInv, NEW t \in Tasks, NEW op \in MakeOps,
           NEW new \in PersistentIds \cup {NullId}, MakeBegin(t, op, new)
    PROVE  TypeInv'
<1>1. EmptySlot \in Slots
  BY EmptySlotFound DEF MakeBegin
<1>2. Started(EmptySlot, new) \in Slot
  BY <1>1, StartedIsSlot DEF TypeInv
<1>3. [op |-> op, key |-> NullId, new |-> new] \in Calls
  BY DEF Calls
<1>4. QED
  BY <1>1, <1>2, <1>3
  DEF MakeBegin, MakeOps, Update, Goto, TypeInv, TypeOK, Labels,
      PointersMatchPc, SourceLabels, TargetLabels

LEMMA TypeCopyBegin ==
    ASSUME TypeInv, NEW t \in Tasks, CopyBegin(t)
    PROVE  TypeInv'
<1>1. src[t] \in Slots /\ call[t].new \in PersistentIds \cup {NullId}
  BY DEF CopyBegin, TypeInv, TypeOK, Calls, PointersMatchPc, SourceLabels
<1>2. CASE EmptySlot = NoSlot
  BY <1>1, <1>2
  DEF CopyBegin, Goto, TypeInv, TypeOK, Labels, PointersMatchPc, SourceLabels,
      TargetLabels
<1>3. CASE EmptySlot # NoSlot
  <2>1. EmptySlot \in Slots
    BY <1>3, EmptySlotFound
  <2>2. Started(EmptySlot, call[t].new) \in Slot
    BY <1>1, <2>1, StartedIsSlot DEF TypeInv
  <2>3. QED
    BY <1>1, <1>3, <2>1, <2>2
    DEF CopyBegin, Update, Goto, TypeInv, TypeOK, Labels, PointersMatchPc,
        SourceLabels, TargetLabels
<1>4. QED
  BY <1>2, <1>3

LEMMA TypeFill ==
    ASSUME TypeInv, NEW t \in Tasks, Fill(t)
    PROVE  TypeInv'
<1>1. dst[t] \in Slots /\ (call[t].op = "copy" => src[t] \in Slots)
  BY DEF Fill, TypeInv, PointersMatchPc, TargetLabels
<1>2. ASSUME NEW m \in IF call[t].op = "copy" THEN {slots[src[t]].data}
                                              ELSE Materials
      PROVE  [slots[dst[t]] EXCEPT !.data = m] \in Slot
  <2>1. m \in Materials \cup {None}
    BY <1>1, <1>2 DEF TypeInv, TypeOK, Slot
  <2>2. QED
    BY <1>1, <2>1 DEF TypeInv, TypeOK, Slot
<1>3. slots' \in [Slots -> Slot]
  BY <1>1, <1>2 DEF Fill, Update, TypeInv, TypeOK
<1>4. pc' \in [Tasks -> Labels] /\ \A u \in Tasks : PointersMatchPc(u)'
  BY <1>1
  DEF Fill, Goto, TypeInv, TypeOK, Labels, PointersMatchPc, SourceLabels,
      TargetLabels
<1>5. QED
  BY <1>3, <1>4 DEF Fill, TypeInv, TypeOK

LEMMA TypeFinish ==
    ASSUME TypeInv, NEW t \in Tasks, Finish(t)
    PROVE  TypeInv'
<1>1. dst[t] \in Slots
  BY DEF Finish, TypeInv, PointersMatchPc, TargetLabels
<1>2. slots[dst[t]].data \in Materials \cup {None}
  BY <1>1 DEF TypeInv, TypeOK, Slot
<1>3. stored' \in [PersistentIds -> Materials \cup {Absent, Torn}]
  <2>1. ASSUME NEW k \in PersistentIds,
               NEW r \in SaveResults(stored[k], slots[dst[t]].data),
               slots[dst[t]].data # None, stored' = [stored EXCEPT ![k] = r.file]
        PROVE  stored' \in [PersistentIds -> Materials \cup {Absent, Torn}]
    <3>1. r.file \in Materials \cup {Absent, Torn}
      BY <1>2, <2>1 DEF SaveResults, TypeInv, TypeOK
    <3>2. QED
      BY <2>1, <3>1 DEF TypeInv, TypeOK
  <2>2. QED
    BY <2>1 DEF Finish, TypeInv, TypeOK
<1>4. pc' \in [Tasks -> Labels] /\ \A u \in Tasks : PointersMatchPc(u)'
  BY <1>1
  DEF Finish, Goto, TypeInv, TypeOK, Labels, PointersMatchPc, SourceLabels,
      TargetLabels
<1>5. QED
  BY <1>3, <1>4 DEF Finish, TypeInv, TypeOK

LEMMA TypeRelease ==
    ASSUME TypeInv, NEW t \in Tasks, Release(t)
    PROVE  TypeInv'
<1>1. dst[t] \in Slots
      /\ IF call[t].op = "copy" THEN src[t] \in Slots ELSE src[t] = NoSlot
  BY DEF Release, TypeInv, PointersMatchPc, TargetLabels
<1>2. Unlocked(dst[t]) \in Slot /\ slots[dst[t]].data \in Materials \cup {None}
  BY <1>1, UnlockedIsSlot DEF TypeInv, TypeOK, Slot
<1>3. made' \in [VolatileIds -> Materials \cup {None}]
  BY <1>2 DEF Release, TypeInv, TypeOK
<1>4. slots' \in [Slots -> Slot]
  BY <1>1, <1>2 DEF Release, Unlock, Update, TypeInv, TypeOK
<1>5. QED
  BY <1>1, <1>3, <1>4, NoCallIsCall
  DEF Release, AfterMaking, Return, Goto, TypeInv, TypeOK, Labels,
      PointersMatchPc, SourceLabels, TargetLabels

LEMMA TypeFail ==
    ASSUME TypeInv, NEW t \in Tasks, Fail(t)
    PROVE  TypeInv'
<1>1. dst[t] \in Slots
      /\ IF call[t].op = "copy" THEN src[t] \in Slots ELSE src[t] = NoSlot
  BY DEF Fail, TypeInv, PointersMatchPc, TargetLabels
<1>2. QED
  BY <1>1, ZeroSlotIsSlot, NoCallIsCall
  DEF Fail, Wipe, Update, AfterMaking, Return, Goto, TypeInv, TypeOK, Labels,
      PointersMatchPc, SourceLabels, TargetLabels

LEMMA TypeLibrary ==
    ASSUME TypeInv, InitLibrary \/ FreeLibrary
    PROVE  TypeInv'
<1>1. /\ stored' = stored /\ pc' = pc /\ call' = call
      /\ src' = src /\ dst' = dst /\ read' = read
  BY DEF InitLibrary, FreeLibrary
<1>2. /\ slots' \in [Slots -> Slot]
      /\ made' \in [VolatileIds -> Materials \cup {None}]
      /\ initialized' \in BOOLEAN
  <2>1. CASE InitLibrary
    BY <2>1 DEF InitLibrary, TypeInv, TypeOK
  <2>2. CASE FreeLibrary
    BY <2>2, ZeroSlotIsSlot DEF FreeLibrary
  <2>3. QED
    BY <2>1, <2>2
<1>3. TypeOK'
  BY <1>1, <1>2 DEF TypeInv, TypeOK
<1>4. \A t \in Tasks : PointersMatchPc(t)'
  BY <1>1 DEF TypeInv, PointersMatchPc
<1>5. QED
  BY <1>3, <1>4 DEF TypeInv

LEMMA TypeStep == TypeInv /\ [Next]_vars => TypeInv'
<1> SUFFICES ASSUME TypeInv, [Next]_vars PROVE TypeInv'
  OBVIOUS
<1>1. CASE UNCHANGED vars
  BY <1>1 DEF vars, TypeInv, TypeOK, PointersMatchPc
<1>2. ASSUME NEW t \in Tasks, Begin(t) PROVE TypeInv'
  <2>1. "copy" \in UseOps /\ NullId \in PersistentIds \cup {NullId}
    BY DEF UseOps
  <2>2. QED
    BY <1>2, <2>1, TypeLookup, TypeCloseLookup, TypeMakeBegin DEF Begin
<1>3. ASSUME NEW t \in Tasks, Continue(t) PROVE TypeInv'
  BY <1>3, TypeFindSlot, TypeLoad, TypeUnlock, TypeUse, TypeDestroyCheck,
     TypeErase, TypeWipe, TypeCopyBegin, TypeFill, TypeFinish, TypeRelease,
     TypeFail
  DEF Continue
<1>4. QED
  BY <1>1, <1>2, <1>3, TypeLibrary DEF Next

(* The type invariant of the slot table, whatever the tasks do.            *)
THEOREM TypeCorrect == Spec => []TypeOK
<1>1. TypeInv => TypeOK
  BY DEF TypeInv
<1>2. QED
  BY <1>1, TypeInit, TypeStep, PTL DEF Spec

-----------------------------------------------------------------------------
(* Lock counts, of the one call under way.  The invariant adds             *)
(* that the slots a call uses and makes are occupied and apart, so that    *)
(* unlocking or wiping one neither frees nor unlocks the other.            *)

Locks(t, i) == (IF Using(t, i) THEN 1 ELSE 0) + (IF Making(t, i) THEN 1 ELSE 0)

SlotsInUseOccupied(t) ==
    /\ pc[t] \in {"found", "unlock", "erase", "wipe", "closing"} =>
          slots[src[t]].occupied
    /\ pc[t] \in TargetLabels =>
          /\ slots[dst[t]].occupied
          /\ src[t] # dst[t]
          /\ src[t] # NoSlot => slots[src[t]].occupied
    /\ pc[t] = "dangling" => slots[src[t]] = ZeroSlot

LockInv(t) ==
    /\ TypeInv
    /\ \A i \in Slots : slots[i].lock = Locks(t, i)
    /\ FreeSlotsAreZero
    /\ SlotsInUseOccupied(t)

(* Unlocking changes the lock count of a slot and nothing else.            *)
LEMMA UnlockedFields ==
    ASSUME TypeOK, NEW i \in Slots
    PROVE  /\ Unlocked(i).lock = IF slots[i].lock > 0 THEN slots[i].lock - 1
                                                     ELSE 0
           /\ Unlocked(i).occupied = slots[i].occupied
           /\ slots[i] = ZeroSlot => Unlocked(i) = ZeroSlot
<1>1. slots[i] \in Slot
  BY DEF TypeOK
<1>2. QED
  BY <1>1 DEF Unlocked, Slot, ZeroSlot

LEMMA ClaimedFields ==
    ASSUME TypeOK, NEW i \in Slots, slots[i].lock = 0
    PROVE  Claimed(i).lock = 1
<1>1. slots[i] \in Slot
  BY DEF TypeOK
<1>2. QED
  BY <1>1 DEF Claimed, Slot, ZeroSlot

LEMMA LockInit ==
    ASSUME NEW t \in Tasks
    PROVE  Init => LockInv(t)
<1> SUFFICES ASSUME Init PROVE LockInv(t)
  OBVIOUS
<1>1. TypeInv
  BY TypeInit
<1>2. QED
  BY <1>1, SlotsAreNaturals
  DEF Init, LockInv, Locks, Using, Making, FreeSlotsAreZero,
      SlotsInUseOccupied, TargetLabels, ZeroSlot

(* A call that finds its key in memory locks an occupied slot.             *)
LEMMA LockFound ==
    ASSUME NEW t \in Tasks, LockInv(t), NEW k \in Ids, SlotInMemory(k) # NoSlot,
           pc[t] = "idle"
    PROVE  LET i == SlotInMemory(k)
           IN  i \in Slots /\ slots[i].occupied /\ slots[i].lock = 0
<1> DEFINE i == SlotInMemory(k)
<1>1. i \in Slots /\ slots[i].id = k
  BY SlotInMemoryFound
<1>2. slots[i].lock = 0
  <2>1. src[t] = NoSlot /\ dst[t] = NoSlot
    BY DEF LockInv, TypeInv, PointersMatchPc
  <2>2. Locks(t, i) = 0
    BY <1>1, <2>1, SlotsAreNaturals DEF Locks, Using, Making
  <2>3. QED
    BY <1>1, <2>2 DEF LockInv
<1>3. slots[i] # ZeroSlot
  BY <1>1, VolatileIdsDisjoint DEF ZeroSlot
<1>4. slots[i].occupied
  BY <1>1, <1>2, <1>3 DEF LockInv, FreeSlotsAreZero
<1>5. QED
  BY <1>1, <1>2, <1>4

(* A step that writes one slot keeps the invariant when the lock count it  *)
(* writes agrees with the pointers after the step.                         *)
LEMMA LockUpdate ==
    ASSUME NEW t \in Tasks, LockInv(t), TypeInv', NEW i \in Slots, NEW s,
           Update(i, s), s.lock = Locks(t, i)',
           ~ s.occupied /\ s.lock = 0 => s = ZeroSlot,
           \A j \in Slots \ {i} : Locks(t, j)' = Locks(t, j),
           SlotsInUseOccupied(t)'
    PROVE  LockInv(t)'
<1>1. slots' = [slots EXCEPT ![i] = s] /\ slots \in [Slots -> Slot]
  BY DEF Update, LockInv, TypeInv, TypeOK
<1>2. slots'[i] = s /\ \A j \in Slots \ {i} : slots'[j] = slots[j]
  BY <1>1
<1>3. \A j \in Slots : slots'[j].lock = Locks(t, j)'
  BY <1>2 DEF LockInv
<1>4. FreeSlotsAreZero'
  BY <1>2 DEF LockInv, FreeSlotsAreZero
<1>5. QED
  BY <1>3, <1>4 DEF LockInv

(* A step that writes no slot.                                             *)
LEMMA LockNoUpdate ==
    ASSUME NEW t \in Tasks, LockInv(t), TypeInv', UNCHANGED slots,
           \A j \in Slots : Locks(t, j)' = Locks(t, j),
           SlotsInUseOccupied(t)'
    PROVE  LockInv(t)'
  BY DEF LockInv, FreeSlotsAreZero

LEMMA LockLookup ==
    ASSUME NEW t \in Tasks, LockInv(t), NEW op \in UseOps, NEW k \in Ids,
           NEW new \in PersistentIds \cup {NullId}, Lookup(t, op, k, new)
    PROVE  LockInv(t)'
<1>1. TypeInv' /\ src[t] = NoSlot /\ dst[t] = NoSlot /\ pc[t] = "idle"
  BY TypeLookup DEF LockInv, Lookup, TypeInv, PointersMatchPc
<1>2. CASE SlotInMemory(k) = NoSlot
  <2>1. UNCHANGED <<slots, src, dst>> /\ pc'[t] = "find"
    BY <1>2 DEF Lookup, Goto, LockInv, TypeInv, TypeOK
  <2>2. QED
    BY <1>1, <2>1, LockNoUpdate, SlotsAreNaturals
    DEF Locks, Using, Making, SlotsInUseOccupied, TargetLabels
<1>3. CASE SlotInMemory(k) # NoSlot
  <2> DEFINE i == SlotInMemory(k)
             s == [slots[i] EXCEPT !.lock = @ + 1]
  <2>1. i \in Slots /\ slots[i].occupied /\ slots[i].lock = 0
    BY <1>1, <1>3, LockFound
  <2>2. Update(i, s) /\ src'[t] = i /\ pc'[t] = "found" /\ dst'[t] = NoSlot
    BY <1>1, <1>3 DEF Lookup, Lock, Goto, LockInv, TypeInv, TypeOK
  <2>3. s.lock = 1 /\ s.occupied
    BY <2>1 DEF LockInv, TypeInv, TypeOK, Slot
  <2>4. slots'[i] = s
    BY <2>1, <2>2 DEF Update, LockInv, TypeInv, TypeOK
  <2> HIDE DEF i, s
  <2>5. QED
    BY <1>1, <2>1, <2>2, <2>3, <2>4, LockUpdate, SlotsAreNaturals
    DEF Locks, Using, Making, SlotsInUseOccupied, TargetLabels
<1>4. QED
  BY <1>2, <1>3

LEMMA LockCloseLookup ==
    ASSUME NEW t \in Tasks, LockInv(t), NEW op \in {"close", "purge"},
           NEW k \in Ids, CloseLookup(t, op, k)
    PROVE  LockInv(t)'
<1> DEFINE i == SlotInMemory(k)
           s == [slots[i] EXCEPT !.lock = @ + 1]
<1>1. TypeInv' /\ src[t] = NoSlot /\ dst[t] = NoSlot /\ pc[t] = "idle"
  BY TypeCloseLookup DEF LockInv, CloseLookup, TypeInv, PointersMatchPc
<1>2. i \in Slots /\ slots[i].occupied /\ slots[i].lock = 0
  BY <1>1, LockFound DEF CloseLookup
<1>3. Update(i, s) /\ src'[t] = i /\ pc'[t] = "closing" /\ dst'[t] = NoSlot
  BY <1>1 DEF CloseLookup, Lock, Goto, LockInv, TypeInv, TypeOK
<1>4. s.lock = 1 /\ s.occupied
  BY <1>2 DEF LockInv, TypeInv, TypeOK, Slot
<1>5. slots'[i] = s
  BY <1>2, <1>3 DEF Update, LockInv, TypeInv, TypeOK
<1> HIDE DEF i, s
<1>6. QED
  BY <1>1, <1>2, <1>3, <1>4, <1>5, LockUpdate, SlotsAreNaturals
  DEF Locks, Using, Making, SlotsInUseOccupied, TargetLabels

(* A slot that psa_get_empty_key_slot selects has no lock, and is not one  *)
(* the call holds already.                                                 *)
LEMMA LockEmptySlot ==
    ASSUME NEW t \in Tasks, LockInv(t), EmptySlot # NoSlot,
           \/ pc[t] \in {"idle", "find"}
           \/ pc[t] = "found" /\ dst[t] = NoSlot
    PROVE  /\ EmptySlot \in Slots
           /\ slots[EmptySlot].lock = 0
           /\ pc[t] = "found" => EmptySlot # src[t]
<1> DEFINE i == EmptySlot
<1>1. i \in Slots /\ (~ slots[i].occupied \/ slots[i].lock = 0)
  BY EmptySlotFound
<1>2. CASE pc[t] \in {"idle", "find"}
  <2>1. Locks(t, i) = 0
    BY <1>1, <1>2, SlotsAreNaturals
    DEF Locks, Using, Making, LockInv, TypeInv, PointersMatchPc
  <2>2. QED
    BY <1>1, <1>2, <2>1 DEF LockInv
<1>3. CASE pc[t] = "found" /\ dst[t] = NoSlot
  <2>1. src[t] \in Slots /\ slots[src[t]].occupied
    BY <1>3 DEF LockInv, SlotsInUseOccupied, TypeInv, PointersMatchPc,
                SourceLabels
  <2>2. Locks(t, src[t]) = 1
    BY <1>3, <2>1, SlotsAreNaturals DEF Locks, Using, Making
  <2>3. i # src[t]
    BY <1>1, <2>1, <2>2 DEF LockInv
  <2>4. Locks(t, i) = 0
    BY <1>1, <1>3, <2>3, SlotsAreNaturals DEF Locks, Using, Making
  <2>5. QED
    BY <1>1, <2>3, <2>4 DEF LockInv
<1>4. QED
  BY <1>2, <1>3

LEMMA LockFindSlot ==
    ASSUME NEW t \in Tasks, LockInv(t), FindSlot(t)
    PROVE  LockInv(t)'
<1>1. TypeInv' /\ src[t] = NoSlot /\ dst[t] = NoSlot /\ pc[t] = "find"
  BY TypeFindSlot DEF LockInv, FindSlot, TypeInv, PointersMatchPc
<1>2. CASE EmptySlot = NoSlot
  <2>1. UNCHANGED slots /\ src'[t] = NoSlot /\ dst'[t] = NoSlot /\ pc'[t] = "idle"
    BY <1>2 DEF FindSlot, Return, Goto, LockInv, TypeInv, TypeOK
  <2>2. QED
    BY <1>1, <2>1, LockNoUpdate, SlotsAreNaturals
    DEF Locks, Using, Making, SlotsInUseOccupied, TargetLabels
<1>3. CASE EmptySlot # NoSlot
  <2> DEFINE i == EmptySlot
             s == [Claimed(i) EXCEPT !.id = call[t].key, !.persistent = TRUE]
  <2>1. i \in Slots /\ slots[i].lock = 0
    BY <1>1, <1>3, LockEmptySlot
  <2>2. Update(i, s) /\ src'[t] = i /\ pc'[t] = "load" /\ dst'[t] = NoSlot
    BY <1>1, <1>3 DEF FindSlot, Goto, LockInv, TypeInv, TypeOK
  <2>3. s.lock = 1
    BY <2>1, ClaimedFields, ClaimedIsSlot DEF LockInv, TypeInv, Slot
  <2> HIDE DEF i, s
  <2>4. QED
    BY <1>1, <2>1, <2>2, <2>3, LockUpdate, SlotsAreNaturals
    DEF Locks, Using, Making, SlotsInUseOccupied, TargetLabels
<1>4. QED
  BY <1>2, <1>3

LEMMA LockLoad ==
    ASSUME NEW t \in Tasks, LockInv(t), Load(t)
    PROVE  LockInv(t)'
<1>1. TypeInv' /\ dst[t] = NoSlot /\ pc[t] = "load"
  BY TypeLoad DEF LockInv, Load, TypeInv, PointersMatchPc, SourceLabels
<1>2. PICK i \in Slots : i = src[t]
  BY DEF LockInv, Load, TypeInv, PointersMatchPc, SourceLabels
<1>3. slots[i].lock = 1 /\ slots[i] \in Slot
  <2>1. Locks(t, i) = 1
    BY <1>1, <1>2, SlotsAreNaturals DEF Locks, Using, Making
  <2>2. QED
    BY <2>1 DEF LockInv, TypeInv, TypeOK
<1>4. CASE LoadFails(t)
  <2>1. Update(i, ZeroSlot) /\ dst'[t] = NoSlot
        /\ \/ src'[t] = i /\ pc'[t] = "dangling"
           \/ src'[t] = NoSlot /\ pc'[t] = "idle"
    BY <1>1, <1>2, <1>4
    DEF Load, LoadFails, Wipe, Return, Goto, LockInv, TypeInv, TypeOK
  <2>2. slots'[i] = ZeroSlot
    BY <2>1 DEF Update, LockInv, TypeInv, TypeOK
  <2>3. Locks(t, i)' = 0 /\ \A j \in Slots \ {i} : Locks(t, j)' = Locks(t, j)
    BY <1>1, <1>2, <2>1, SlotsAreNaturals DEF Locks, Using, Making
  <2>4. SlotsInUseOccupied(t)' /\ ZeroSlot.lock = 0
    BY <2>1, <2>2 DEF SlotsInUseOccupied, TargetLabels, ZeroSlot
  <2>5. QED
    BY <1>1, <2>1, <2>3, <2>4, LockUpdate
<1>5. CASE ~ LoadFails(t)
  <2> DEFINE s == [slots[i] EXCEPT !.occupied = TRUE, !.persistent = TRUE,
                                   !.data = stored[slots[i].id]]
  <2>1. Update(i, s) /\ src'[t] = i /\ pc'[t] = "found" /\ dst'[t] = NoSlot
    BY <1>1, <1>2, <1>5 DEF Load, Goto, LockInv, TypeInv, TypeOK
  <2>2. s.lock = 1 /\ s.occupied
    BY <1>3 DEF Slot
  <2>3. slots'[i] = s
    BY <2>1 DEF Update, LockInv, TypeInv, TypeOK
  <2> HIDE DEF s
  <2>4. Locks(t, i)' = 1 /\ \A j \in Slots \ {i} : Locks(t, j)' = Locks(t, j)
    BY <1>1, <1>2, <2>1, SlotsAreNaturals DEF Locks, Using, Making
  <2>5. SlotsInUseOccupied(t)'
    BY <2>1, <2>2, <2>3 DEF SlotsInUseOccupied, TargetLabels
  <2>6. QED
    BY <1>1, <2>1, <2>2, <2>4, <2>5, LockUpdate
<1>6. QED
  BY <1>4, <1>5

(* A call that holds only its source slot ends by unlocking it.            *)
LEMMA LockReturnUnlocking ==
    ASSUME NEW t \in Tasks, LockInv(t), TypeInv', dst[t] = NoSlot,
           src[t] \in Slots,
           slots[src[t]].occupied \/ slots[src[t]] = ZeroSlot,
           Unlock(src[t]), Return(t)
    PROVE  LockInv(t)'
<1>1. PICK i \in Slots : i = src[t]
  OBVIOUS
<1>2. Update(i, Unlocked(i)) /\ src'[t] = NoSlot /\ pc'[t] = "idle"
      /\ dst'[t] = NoSlot
  BY <1>1 DEF Unlock, Return, Goto, LockInv, TypeInv, TypeOK
<1>3. TypeOK /\ slots[i].lock = Locks(t, i)
  BY DEF LockInv, TypeInv
<1>4. Unlocked(i).lock = 0
  <2>1. slots[i].lock \in {0, 1}
    BY <1>3, SlotsAreNaturals DEF Locks, Using, Making
  <2>2. QED
    BY <1>3, <2>1, UnlockedFields
<1>5. ~ Unlocked(i).occupied => Unlocked(i) = ZeroSlot
  <2>1. ASSUME ~ slots[i].occupied PROVE slots[i] = ZeroSlot
    BY <1>1, <2>1
  <2>2. QED
    BY <1>3, <2>1, UnlockedFields
<1>6. Locks(t, i)' = 0 /\ \A j \in Slots \ {i} : Locks(t, j)' = Locks(t, j)
  BY <1>1, <1>2, SlotsAreNaturals DEF Locks, Using, Making
<1>7. SlotsInUseOccupied(t)'
  BY <1>2 DEF SlotsInUseOccupied, TargetLabels
<1>8. QED
  BY <1>2, <1>4, <1>5, <1>6, <1>7, LockUpdate

(* A call that holds only its source slot ends by wiping it.               *)
LEMMA LockReturnWiping ==
    ASSUME NEW t \in Tasks, LockInv(t), TypeInv', dst[t] = NoSlot,
           src[t] \in Slots, Wipe(src[t]), Return(t)
    PROVE  LockInv(t)'
<1>1. Update(src[t], ZeroSlot) /\ src'[t] = NoSlot /\ pc'[t] = "idle"
      /\ dst'[t] = NoSlot
  BY DEF Wipe, Return, Goto, LockInv, TypeInv, TypeOK
<1>2. QED
  BY <1>1, LockUpdate, SlotsAreNaturals
  DEF Locks, Using, Making, SlotsInUseOccupied, TargetLabels, ZeroSlot

LEMMA LockUnlockSource ==
    ASSUME NEW t \in Tasks, LockInv(t),
           UnlockDangling(t) \/ UnlockSource(t) \/ Refuse(t)
    PROVE  LockInv(t)'
<1>1. TypeInv' /\ src[t] \in Slots /\ dst[t] = NoSlot
      /\ pc[t] \in {"dangling", "unlock", "found"}
  BY TypeUnlock
  DEF UnlockDangling, UnlockSource, Refuse, LockInv, TypeInv, PointersMatchPc,
      SourceLabels
<1>2. slots[src[t]].occupied \/ slots[src[t]] = ZeroSlot
  BY <1>1 DEF LockInv, SlotsInUseOccupied
<1>3. Unlock(src[t]) /\ Return(t)
  BY DEF UnlockDangling, UnlockSource, Refuse
<1>4. QED
  BY <1>1, <1>2, <1>3, LockReturnUnlocking

LEMMA LockWipe ==
    ASSUME NEW t \in Tasks, LockInv(t), DestroyWipe(t) \/ Close(t)
    PROVE  LockInv(t)'
<1>1. TypeInv' /\ src[t] \in Slots /\ dst[t] = NoSlot
      /\ pc[t] \in {"wipe", "closing"}
  BY TypeWipe
  DEF DestroyWipe, Close, LockInv, TypeInv, PointersMatchPc, SourceLabels
<1>2. slots[src[t]].occupied
  BY <1>1 DEF LockInv, SlotsInUseOccupied
<1>3. Return(t) /\ (Wipe(src[t]) \/ Unlock(src[t]))
  BY DEF DestroyWipe, Close
<1>4. QED
  BY <1>1, <1>2, <1>3, LockReturnUnlocking, LockReturnWiping

LEMMA LockDestroyCheck ==
    ASSUME NEW t \in Tasks, LockInv(t), DestroyCheck(t)
    PROVE  LockInv(t)'
<1>1. TypeInv' /\ src[t] \in Slots /\ dst[t] = NoSlot /\ pc[t] = "found"
      /\ slots[src[t]].occupied
  BY TypeDestroyCheck
  DEF DestroyCheck, LockInv, TypeInv, PointersMatchPc, SourceLabels,
      SlotsInUseOccupied
<1>2. CASE slots[src[t]].lock > 1
  BY <1>1, <1>2, LockReturnUnlocking DEF DestroyCheck
<1>3. CASE ~ (slots[src[t]].lock > 1)
  <2>1. UNCHANGED <<slots, src, dst>> /\ pc'[t] \in {"erase", "wipe"}
    BY <1>3 DEF DestroyCheck, Goto, LockInv, TypeInv, TypeOK
  <2>2. QED
    BY <1>1, <2>1, LockNoUpdate
    DEF Locks, Using, Making, SlotsInUseOccupied, TargetLabels
<1>4. QED
  BY <1>2, <1>3

LEMMA LockUse ==
    ASSUME NEW t \in Tasks, LockInv(t), Use(t) \/ Erase(t)
    PROVE  LockInv(t)'
<1>1. TypeInv' /\ src[t] \in Slots /\ dst[t] = NoSlot
      /\ pc[t] \in {"found", "erase"} /\ slots[src[t]].occupied
  BY TypeUse, TypeErase
  DEF Use, Erase, LockInv, TypeInv, PointersMatchPc, SourceLabels,
      SlotsInUseOccupied
<1>2. UNCHANGED <<slots, src, dst>> /\ pc'[t] \in {"unlock", "wipe"}
  BY DEF Use, Erase, Goto, LockInv, TypeInv, TypeOK
<1>3. QED
  BY <1>1, <1>2, LockNoUpdate
  DEF Locks, Using, Making, SlotsInUseOccupied, TargetLabels

LEMMA StartedFields ==
    ASSUME TypeOK, NEW i \in Slots, slots[i].lock = 0, NEW new
    PROVE  Started(i, new).lock = 1 /\ Started(i, new).occupied
<1>1. Claimed(i).lock = 1 /\ Claimed(i) \in Slot
  BY ClaimedFields, ClaimedIsSlot
<1>2. QED
  BY <1>1 DEF Started, Slot

LEMMA LockMakeBegin ==
    ASSUME NEW t \in Tasks, LockInv(t), NEW op \in MakeOps,
           NEW new \in PersistentIds \cup {NullId}, MakeBegin(t, op, new)
    PROVE  LockInv(t)'
<1>1. TypeInv' /\ src[t] = NoSlot /\ dst[t] = NoSlot /\ pc[t] = "idle"
  BY TypeMakeBegin DEF LockInv, MakeBegin, TypeInv, PointersMatchPc
<1>2. PICK i \in Slots : i = EmptySlot /\ slots[i].lock = 0
  BY <1>1, LockEmptySlot DEF MakeBegin
<1> DEFINE s == Started(i, new)
<1>3. Update(i, s) /\ src'[t] = NoSlot /\ dst'[t] = i /\ pc'[t] = "fill"
  BY <1>1, <1>2 DEF MakeBegin, Goto, LockInv, TypeInv, TypeOK
<1>4. s.lock = 1 /\ s.occupied
  BY <1>2, StartedFields DEF LockInv, TypeInv
<1>5. slots'[i] = s
  BY <1>3 DEF Update, LockInv, TypeInv, TypeOK
<1> HIDE DEF s
<1>6. Locks(t, i)' = 1 /\ \A j \in Slots \ {i} : Locks(t, j)' = Locks(t, j)
  BY <1>1, <1>3, SlotsAreNaturals DEF Locks, Using, Making
<1>7. SlotsInUseOccupied(t)'
  BY <1>3, <1>4, <1>5, SlotsAreNaturals DEF SlotsInUseOccupied, TargetLabels
<1>8. QED
  BY <1>1, <1>3, <1>4, <1>6, <1>7, LockUpdate

LEMMA LockCopyBegin ==
    ASSUME NEW t \in Tasks, LockInv(t), CopyBegin(t)
    PROVE  LockInv(t)'
<1>1. TypeInv' /\ src[t] \in Slots /\ dst[t] = NoSlot /\ pc[t] = "found"
      /\ slots[src[t]].occupied
  BY TypeCopyBegin
  DEF LockInv, CopyBegin, TypeInv, PointersMatchPc, SourceLabels,
      SlotsInUseOccupied
<1>2. CASE EmptySlot = NoSlot
  <2>1. UNCHANGED <<slots, src, dst>> /\ pc'[t] = "unlock"
    BY <1>2 DEF CopyBegin, Goto, LockInv, TypeInv, TypeOK
  <2>2. QED
    BY <1>1, <2>1, LockNoUpdate
    DEF Locks, Using, Making, SlotsInUseOccupied, TargetLabels
<1>3. CASE EmptySlot # NoSlot
  <2>1. PICK i \in Slots : i = EmptySlot /\ slots[i].lock = 0 /\ i # src[t]
    BY <1>1, <1>3, LockEmptySlot
  <2> DEFINE s == Started(i, call[t].new)
  <2>2. Update(i, s) /\ src' = src /\ dst'[t] = i /\ pc'[t] = "fill"
    BY <1>1, <1>3, <2>1 DEF CopyBegin, Goto, LockInv, TypeInv, TypeOK
  <2>3. s.lock = 1 /\ s.occupied
    BY <2>1, StartedFields DEF LockInv, TypeInv
  <2>4. slots'[i] = s /\ slots'[src[t]] = slots[src[t]]
    BY <1>1, <2>1, <2>2 DEF Update, LockInv, TypeInv, TypeOK
  <2> HIDE DEF s
  <2>5. Locks(t, i)' = 1 /\ \A j \in Slots \ {i} : Locks(t, j)' = Locks(t, j)
    BY <1>1, <2>1, <2>2, SlotsAreNaturals DEF Locks, Using, Making
  <2>6. SlotsInUseOccupied(t)'
    BY <1>1, <2>1, <2>2, <2>3, <2>4 DEF SlotsInUseOccupied, TargetLabels
  <2>7. QED
    BY <1>1, <2>2, <2>3, <2>5, <2>6, LockUpdate
<1>4. QED
  BY <1>2, <1>3

(* What a call that is making a key holds.                                 *)
LEMMA LockTarget ==
    ASSUME NEW t \in Tasks, LockInv(t), pc[t] \in TargetLabels
    PROVE  \E i \in Slots :
              /\ i = dst[t] /\ slots[i] \in Slot
              /\ slots[i].lock = 1 /\ slots[i].occupied /\ src[t] # i
              /\ src[t] # NoSlot => src[t] \in Slots /\ slots[src[t]].occupied
              /\ call[t].op # "copy" => src[t] = NoSlot
<1>1. PICK i \in Slots : i = dst[t]
  BY DEF LockInv, TypeInv, PointersMatchPc
<1>2. slots[i].occupied /\ src[t] # i
      /\ (src[t] # NoSlot => slots[src[t]].occupied)
  BY <1>1 DEF LockInv, SlotsInUseOccupied
<1>3. Locks(t, i) = 1
  BY <1>1, <1>2 DEF Locks, Using, Making
<1>4. slots[i] \in Slot /\ slots[i].lock = 1
  BY <1>3 DEF LockInv, TypeInv, TypeOK
<1>5. /\ src[t] # NoSlot => src[t] \in Slots
      /\ call[t].op # "copy" => src[t] = NoSlot
  BY DEF LockInv, TypeInv, PointersMatchPc
<1>6. QED
  BY <1>1, <1>2, <1>4, <1>5

LEMMA LockFill ==
    ASSUME NEW t \in Tasks, LockInv(t), Fill(t)
    PROVE  LockInv(t)'
<1>1. TypeInv' /\ pc[t] = "fill" /\ pc[t] \in TargetLabels
  BY TypeFill DEF LockInv, Fill, TargetLabels
<1>2. PICK i \in Slots :
         /\ i = dst[t] /\ slots[i] \in Slot
         /\ slots[i].lock = 1 /\ slots[i].occupied /\ src[t] # i
         /\ src[t] # NoSlot => src[t] \in Slots /\ slots[src[t]].occupied
  BY <1>1, LockTarget
<1>3. src' = src /\ dst' = dst /\ pc'[t] \in {"finish", "fail"}
  BY DEF Fill, Goto, LockInv, TypeInv, TypeOK
<1>4. \A j \in Slots : Locks(t, j)' = Locks(t, j)
  BY <1>1, <1>3 DEF Locks, Using, Making
<1>5. CASE UNCHANGED slots
  <2>1. SlotsInUseOccupied(t)'
    BY <1>2, <1>3, <1>5 DEF SlotsInUseOccupied, TargetLabels
  <2>2. QED
    BY <1>1, <1>4, <1>5, <2>1, LockNoUpdate
<1>6. ASSUME NEW m, Update(i, [slots[i] EXCEPT !.data = m])
      PROVE  LockInv(t)'
  <2> DEFINE s == [slots[i] EXCEPT !.data = m]
  <2>1. s.lock = 1 /\ s.occupied
    BY <1>2 DEF Slot
  <2>2. slots'[i] = s /\ (src[t] # NoSlot => slots'[src[t]] = slots[src[t]])
    BY <1>2, <1>6 DEF Update, LockInv, TypeInv, TypeOK
  <2>3. Update(i, s)
    BY <1>6
  <2> HIDE DEF s
  <2>4. SlotsInUseOccupied(t)'
    BY <1>2, <1>3, <2>1, <2>2 DEF SlotsInUseOccupied, TargetLabels
  <2>5. Locks(t, i) = 1
    BY <1>2 DEF LockInv
  <2>6. QED
    BY <1>1, <1>4, <2>1, <2>3, <2>4, <2>5, LockUpdate
<1>7. QED
  BY <1>2, <1>5, <1>6 DEF Fill

LEMMA LockFinish ==
    ASSUME NEW t \in Tasks, LockInv(t), Finish(t)
    PROVE  LockInv(t)'
<1>1. TypeInv' /\ pc[t] = "finish"
  BY TypeFinish DEF LockInv, Finish
<1>2. UNCHANGED <<slots, src, dst>> /\ pc'[t] \in {"release", "fail"}
  BY DEF Finish, Goto, LockInv, TypeInv, TypeOK
<1>3. \A j \in Slots : Locks(t, j)' = Locks(t, j)
  BY <1>1, <1>2 DEF Locks, Using, Making
<1>4. SlotsInUseOccupied(t)'
  BY <1>1, <1>2 DEF LockInv, SlotsInUseOccupied, TargetLabels
<1>5. QED
  BY <1>1, <1>2, <1>3, <1>4, LockNoUpdate

(* A call that is done with the slot it made goes on with its source, if   *)
(* it has one.                                                             *)
LEMMA LockAfterMaking ==
    ASSUME NEW t \in Tasks, LockInv(t), TypeInv', pc[t] \in TargetLabels,
           NEW s, Update(dst[t], s), s.lock = 0, s.occupied \/ s = ZeroSlot,
           AfterMaking(t)
    PROVE  LockInv(t)'
<1>1. PICK i \in Slots :
         /\ i = dst[t] /\ src[t] # i
         /\ src[t] # NoSlot => src[t] \in Slots /\ slots[src[t]].occupied
         /\ call[t].op # "copy" => src[t] = NoSlot
  BY LockTarget
<1>2. /\ dst'[t] = NoSlot /\ src'[t] = src[t]
      /\ IF call[t].op = "copy" THEN pc'[t] = "unlock" ELSE pc'[t] = "idle"
  BY <1>1 DEF AfterMaking, Return, Goto, LockInv, TypeInv, TypeOK
<1>3. Update(i, s)
  BY <1>1
<1>4. Locks(t, i)' = 0 /\ \A j \in Slots \ {i} : Locks(t, j)' = Locks(t, j)
  BY <1>1, <1>2, SlotsAreNaturals DEF Locks, Using, Making, TargetLabels
<1>5. call[t].op = "copy" => src[t] \in Slots
  BY DEF LockInv, TypeInv, PointersMatchPc
<1>6. src[t] # NoSlot => slots'[src[t]] = slots[src[t]]
  BY <1>1, <1>3 DEF Update, LockInv, TypeInv, TypeOK
<1>7. SlotsInUseOccupied(t)'
  BY <1>1, <1>2, <1>5, <1>6, SlotsAreNaturals
  DEF SlotsInUseOccupied, TargetLabels
<1>8. QED
  BY <1>3, <1>4, <1>7, LockUpdate

LEMMA LockRelease ==
    ASSUME NEW t \in Tasks, LockInv(t), Release(t)
    PROVE  LockInv(t)'
<1>1. TypeInv' /\ pc[t] = "release" /\ pc[t] \in TargetLabels
  BY TypeRelease DEF LockInv, Release, TargetLabels
<1>2. dst[t] \in Slots /\ slots[dst[t]].lock = 1 /\ slots[dst[t]].occupied
  BY <1>1, LockTarget
<1>3. Update(dst[t], Unlocked(dst[t])) /\ AfterMaking(t)
  BY <1>2 DEF Release, Unlock
<1>4. Unlocked(dst[t]).lock = 0 /\ Unlocked(dst[t]).occupied
  BY <1>2, UnlockedFields DEF LockInv, TypeInv
<1>5. QED
  BY <1>1, <1>3, <1>4, LockAfterMaking

LEMMA LockFail ==
    ASSUME NEW t \in Tasks, LockInv(t), Fail(t)
    PROVE  LockInv(t)'
<1>1. TypeInv' /\ pc[t] \in TargetLabels
  BY TypeFail DEF LockInv, Fail, TargetLabels
<1>2. Update(dst[t], ZeroSlot) /\ AfterMaking(t) /\ ZeroSlot.lock = 0
  BY DEF Fail, Wipe, ZeroSlot
<1>3. QED
  BY <1>1, <1>2, LockAfterMaking

LEMMA LockLibrary ==
    ASSUME NEW t \in Tasks, LockInv(t), InitLibrary \/ FreeLibrary
    PROVE  LockInv(t)'
<1>1. TypeInv'
  BY TypeLibrary DEF LockInv
<1>2. CASE InitLibrary
  BY <1>1, <1>2, LockNoUpdate
  DEF InitLibrary, LockInv, Locks, Using, Making, SlotsInUseOccupied
<1>3. CASE FreeLibrary
  <2>1. src'[t] = NoSlot /\ dst'[t] = NoSlot /\ pc'[t] = "idle"
    BY <1>3 DEF FreeLibrary, AllIdle, LockInv, TypeInv, PointersMatchPc
  <2>2. \A i \in Slots : slots'[i] = ZeroSlot /\ Locks(t, i)' = 0
    BY <1>3, <2>1, SlotsAreNaturals DEF FreeLibrary, Locks, Using, Making
  <2>3. \A i \in Slots : slots'[i].lock = Locks(t, i)'
    BY <2>2 DEF ZeroSlot
  <2>4. FreeSlotsAreZero' /\ SlotsInUseOccupied(t)'
    BY <2>1, <2>2 DEF FreeSlotsAreZero, SlotsInUseOccupied, TargetLabels
  <2>5. QED
    BY <1>1, <2>3, <2>4 DEF LockInv
<1>4. QED
  BY <1>2, <1>3

LEMMA LockStay ==
    ASSUME NEW t \in Tasks, LockInv(t), UNCHANGED vars
    PROVE  LockInv(t)'
<1>1. TypeInv'
  BY TypeStep DEF LockInv
<1>2. QED
  BY <1>1, LockNoUpdate
  DEF vars, LockInv, Locks, Using, Making, SlotsInUseOccupied

LEMMA LockBegin ==
    ASSUME NEW t \in Tasks, LockInv(t), Begin(t)
    PROVE  LockInv(t)'
<1>1. "copy" \in UseOps /\ NullId \in PersistentIds \cup {NullId}
  BY DEF UseOps
<1>2. QED
  BY <1>1, LockLookup, LockCloseLookup, LockMakeBegin DEF Begin

LEMMA LockContinue ==
    ASSUME NEW t \in Tasks, LockInv(t), Continue(t)
    PROVE  LockInv(t)'
BY LockFindSlot, LockLoad, LockUnlockSource, LockUse, LockDestroyCheck,
   LockWipe, LockCopyBegin, LockFill, LockFinish, LockRelease, LockFail
DEF Continue

(* When tasks take turns, at most one of them is not idle; the invariants  *)
(* are stated of that one, and of any when all are idle.                   *)
Alone(t) == \A u \in Tasks \ {t} : pc[u] = "idle"

LEMMA OnlyOwnPc ==
    ASSUME NEW t \in Tasks, NEW u \in Tasks \ {t}, TypeOK, Begin(t) \/ Continue(t)
    PROVE  pc'[u] = pc[u]
<1>1. ASSUME NEW label, Goto(t, label) PROVE pc'[u] = pc[u]
  BY <1>1 DEF Goto, TypeOK
<1>2. Return(t) => pc'[u] = pc[u]
  BY <1>1 DEF Return
<1>3. AfterMaking(t) => pc'[u] = pc[u]
  BY <1>1, <1>2 DEF AfterMaking
<1>4. LoadFails(t) => pc'[u] = pc[u]
  BY <1>1, <1>2 DEF LoadFails
<1>5. Begin(t) => pc'[u] = pc[u]
  BY <1>1 DEF Begin, Lookup, CloseLookup, MakeBegin
<1>6. Continue(t) => pc'[u] = pc[u]
  BY <1>1, <1>2, <1>3, <1>4
  DEF Continue, FindSlot, Load, UnlockDangling, UnlockSource, Use, Refuse,
      DestroyCheck, Erase, DestroyWipe, Close, CopyBegin, Fill, Finish, Release,
      Fail
<1>7. QED
  BY <1>5, <1>6

LEMMA ContinueIsNotIdle ==
    ASSUME NEW t \in Tasks, Continue(t)
    PROVE  pc[t] # "idle"
BY DEF Continue, FindSlot, Load, UnlockDangling, UnlockSource, Use, Refuse,
       DestroyCheck, Erase, DestroyWipe, Close, CopyBegin, Fill, Finish, Release,
       Fail

(* Tasks whose calls are over hold the same slots, none.                   *)
LEMMA LockPasses ==
    ASSUME NEW t \in Tasks, NEW u \in Tasks, LockInv(t), pc[t] = "idle", pc[u] = "idle"
    PROVE  LockInv(u)
<1>1. /\ src[t] = NoSlot /\ dst[t] = NoSlot
      /\ src[u] = NoSlot /\ dst[u] = NoSlot
  BY DEF LockInv, TypeInv, PointersMatchPc
<1>2. \A i \in Slots : Locks(u, i) = Locks(t, i)
  BY <1>1, SlotsAreNaturals DEF Locks, Using, Making
<1>3. SlotsInUseOccupied(u)
  BY DEF SlotsInUseOccupied, TargetLabels
<1>4. QED
  BY <1>2, <1>3 DEF LockInv

(* What the counts of LockInv say of the cardinalities of LockCountsMatch. *)
LEMMA LockCounts ==
    ASSUME NEW t \in Tasks, Alone(t), LockInv(t)
    PROVE  LockCountsMatch
<1>1. ASSUME NEW P, P \subseteq {t}
      PROVE  Cardinality(P) = IF t \in P THEN 1 ELSE 0
  <2>1. P = {} \/ P = {t}
    BY <1>1
  <2>2. QED
    BY <2>1, FS_EmptySet, FS_Singleton
<1>2. ASSUME NEW i \in Slots
      PROVE  slots[i].lock = Cardinality({u \in Tasks : Using(u, i)})
                             + Cardinality({u \in Tasks : Making(u, i)})
  <2> DEFINE U == {u \in Tasks : Using(u, i)}
             M == {u \in Tasks : Making(u, i)}
  <2>1. /\ Cardinality(U) = IF Using(t, i) THEN 1 ELSE 0
        /\ Cardinality(M) = IF Making(t, i) THEN 1 ELSE 0
    <3>1. U \subseteq {t} /\ M \subseteq {t}
      <4>1. \A u \in Tasks \ {t} : src[u] = NoSlot /\ dst[u] = NoSlot
        BY DEF Alone, LockInv, TypeInv, PointersMatchPc
      <4>2. QED
        BY <4>1, SlotsAreNaturals DEF Using, Making
    <3>2. (t \in U <=> Using(t, i)) /\ (t \in M <=> Making(t, i))
      OBVIOUS
    <3> HIDE DEF U, M
    <3>3. QED
      BY <1>1, <3>1, <3>2
  <2>2. QED
    BY <2>1 DEF LockInv, Locks
<1>3. QED
  BY <1>2 DEF LockCountsMatch

-----------------------------------------------------------------------------
(* What is in the slots, for the one call under way.                       *)

(* A slot with a key bears a persistent id, or the volatile id that is     *)
(* tied to the slot.                                                       *)
SlotsNamed ==
    \A i \in Slots : slots[i].occupied =>
        IF slots[i].persistent THEN slots[i].id \in PersistentIds
                               ELSE slots[i].id = VolatileId(i)

(* No call is filling slot i or is about to wipe it.                       *)
Whole(t, i) ==
    slots[i].occupied /\ i # dst[t] /\ ~ (pc[t] = "wipe" /\ i = src[t])

ContentsRight(t) ==
    \A i \in Slots : Whole(t, i) =>
        /\ slots[i].data \in Materials
        /\ slots[i].data = IF slots[i].persistent THEN stored[slots[i].id]
                                                 ELSE made[VolatileId(i)]

VolatileAtHome(t) ==
    \A i \in Slots : made[VolatileId(i)] # None =>
        /\ slots[i].occupied /\ ~ slots[i].persistent
        /\ slots[i].data = made[VolatileId(i)]
        /\ i # dst[t]

(* Only a key that is being made may have the id of another.               *)
OneSlotPerKey(t) ==
    \A i, j \in Slots :
        i # j /\ slots[i].id = slots[j].id =>
            slots[i].id = NullId \/ i = dst[t] \/ j = dst[t]

(* What the call under way knows of its key.                               *)
CallKnowsKey(t) ==
    /\ pc[t] = "find" => \A i \in Slots : slots[i].id # call[t].key
    /\ pc[t] \in {"load", "found"} => slots[src[t]].id = call[t].key
    /\ pc[t] = "load" => ~ slots[src[t]].occupied
    /\ pc[t] \in {"finish", "release"} => slots[dst[t]].data \in Materials
    /\ pc[t] = "release" =>
          /\ slots[dst[t]].persistent =>
                stored[slots[dst[t]].id] = slots[dst[t]].data
          /\ \A j \in Slots \ {dst[t]} : slots[j].id # slots[dst[t]].id

CacheInv(t) ==
    /\ LockInv(t)
    /\ SlotsNamed
    /\ ContentsRight(t)
    /\ VolatileAtHome(t)
    /\ OneSlotPerKey(t)
    /\ CallKnowsKey(t)

LEMMA UpdateEffect ==
    ASSUME TypeOK, NEW i \in Slots, NEW s, Update(i, s)
    PROVE  slots'[i] = s /\ \A j \in Slots \ {i} : slots'[j] = slots[j]
  BY DEF Update, TypeOK

(* A slot with an id has a key, except while the key is being loaded.      *)
LEMMA NamedIsOccupied ==
    ASSUME NEW t \in Tasks, LockInv(t), NEW i \in Slots, slots[i].id # NullId
    PROVE  slots[i].occupied \/ (pc[t] = "load" /\ i = src[t])
<1> SUFFICES ASSUME ~ slots[i].occupied PROVE pc[t] = "load" /\ i = src[t]
  OBVIOUS
<1>1. slots[i] # ZeroSlot
  BY DEF ZeroSlot
<1>2. Locks(t, i) # 0
  BY <1>1 DEF LockInv, FreeSlotsAreZero
<1>3. Using(t, i) \/ Making(t, i)
  BY <1>2 DEF Locks
<1>4. pc[t] \in Labels /\ PointersMatchPc(t)
  BY DEF LockInv, TypeInv, TypeOK
<1>5. ~ Making(t, i)
  <2> SUFFICES ASSUME Making(t, i) PROVE FALSE
    OBVIOUS
  <2>1. pc[t] \in TargetLabels
    BY <1>4, SlotsAreNaturals
    DEF Making, PointersMatchPc, Labels, SourceLabels, TargetLabels
  <2>2. QED
    BY <2>1 DEF Making, LockInv, SlotsInUseOccupied
<1>6. src[t] = i /\ pc[t] # "dangling"
  BY <1>3, <1>5 DEF Using
<1>7. pc[t] \notin {"idle", "find"}
  BY <1>4, <1>6, SlotsAreNaturals DEF PointersMatchPc
<1>8. pc[t] \notin {"found", "unlock", "erase", "wipe", "closing"} \cup TargetLabels
  BY <1>6, SlotsAreNaturals DEF LockInv, SlotsInUseOccupied
<1>9. QED
  BY <1>4, <1>6, <1>7, <1>8 DEF Labels, TargetLabels

(* Steps that change no key in any slot.                                   *)
SameKeys ==
    \A i \in Slots :
        /\ slots'[i].id = slots[i].id
        /\ slots'[i].persistent = slots[i].persistent
        /\ slots'[i].occupied = slots[i].occupied
        /\ slots'[i].data = slots[i].data

LEMMA LockingKeepsKeys ==
    ASSUME TypeOK, NEW i \in Slots, Lock(i) \/ Unlock(i)
    PROVE  SameKeys
<1>1. slots[i] \in Slot
  BY DEF TypeOK
<1>2. CASE Lock(i)
  <2> DEFINE s == [slots[i] EXCEPT !.lock = @ + 1]
  <2>1. s.id = slots[i].id /\ s.persistent = slots[i].persistent
        /\ s.occupied = slots[i].occupied /\ s.data = slots[i].data
    BY <1>1 DEF Slot
  <2>2. slots'[i] = s /\ \A j \in Slots \ {i} : slots'[j] = slots[j]
    BY <1>2, UpdateEffect DEF Lock
  <2> HIDE DEF s
  <2>3. QED
    BY <2>1, <2>2 DEF SameKeys
<1>3. CASE Unlock(i)
  <2>1. /\ Unlocked(i).id = slots[i].id
        /\ Unlocked(i).persistent = slots[i].persistent
        /\ Unlocked(i).occupied = slots[i].occupied
        /\ Unlocked(i).data = slots[i].data
    BY <1>1 DEF Slot, Unlocked
  <2>2. slots'[i] = Unlocked(i) /\ \A j \in Slots \ {i} : slots'[j] = slots[j]
    BY <1>3, UpdateEffect DEF Unlock
  <2>3. QED
    BY <2>1, <2>2 DEF SameKeys
<1>4. QED
  BY <1>2, <1>3

LEMMA CacheSameKeys ==
    ASSUME NEW t \in Tasks, CacheInv(t), LockInv(t)', SameKeys,
           UNCHANGED <<stored, made>>, dst'[t] = dst[t], pc[t] # "wipe",
           CallKnowsKey(t)'
    PROVE  CacheInv(t)'
<1>1. SlotsNamed'
  BY DEF CacheInv, SameKeys, SlotsNamed
<1>2. ContentsRight(t)'
  <2> SUFFICES ASSUME NEW i \in Slots, Whole(t, i)'
               PROVE  (/\ slots[i].data \in Materials
                       /\ slots[i].data = IF slots[i].persistent
                                          THEN stored[slots[i].id]
                                          ELSE made[VolatileId(i)])'
    BY DEF ContentsRight
  <2>1. Whole(t, i)
    BY DEF Whole, SameKeys
  <2>2. QED
    BY <2>1 DEF CacheInv, ContentsRight, SameKeys
<1>3. VolatileAtHome(t)'
  BY DEF CacheInv, SameKeys, VolatileAtHome
<1>4. OneSlotPerKey(t)'
  BY DEF CacheInv, SameKeys, OneSlotPerKey
<1>5. QED
  BY <1>1, <1>2, <1>3, <1>4 DEF CacheInv

(* Steps that wipe slot i and forget the volatile key in it.               *)
LEMMA CacheWipe ==
    ASSUME NEW t \in Tasks, CacheInv(t), LockInv(t)', NEW i \in Slots,
           Wipe(i), UNCHANGED stored, made'[VolatileId(i)] = None,
           \A j \in Slots \ {i} : made'[VolatileId(j)] = made[VolatileId(j)],
           dst'[t] = dst[t] \/ (dst[t] = i /\ dst'[t] = NoSlot),
           pc[t] = "wipe" => i = src[t], CallKnowsKey(t)'
    PROVE  CacheInv(t)'
<1>1. slots'[i] = ZeroSlot /\ \A j \in Slots \ {i} : slots'[j] = slots[j]
  BY UpdateEffect DEF Wipe, CacheInv, LockInv, TypeInv
<1>2. SlotsNamed'
  BY <1>1 DEF CacheInv, SlotsNamed, ZeroSlot
<1>3. ContentsRight(t)'
  <2> SUFFICES ASSUME NEW j \in Slots, Whole(t, j)'
               PROVE  (/\ slots[j].data \in Materials
                       /\ slots[j].data = IF slots[j].persistent
                                          THEN stored[slots[j].id]
                                          ELSE made[VolatileId(j)])'
    BY DEF ContentsRight
  <2>1. j # i
    BY <1>1 DEF Whole, ZeroSlot
  <2>2. Whole(t, j)
    BY <1>1, <2>1 DEF Whole
  <2>3. QED
    BY <1>1, <2>1, <2>2 DEF CacheInv, ContentsRight
<1>4. VolatileAtHome(t)'
  <2> SUFFICES ASSUME NEW j \in Slots, made'[VolatileId(j)] # None
               PROVE  (/\ slots[j].occupied /\ ~ slots[j].persistent
                       /\ slots[j].data = made[VolatileId(j)]
                       /\ j # dst[t])'
    BY DEF VolatileAtHome
  <2>1. j # i
    OBVIOUS
  <2>2. QED
    BY <1>1, <2>1, SlotsAreNaturals DEF CacheInv, VolatileAtHome
<1>5. OneSlotPerKey(t)'
  BY <1>1 DEF CacheInv, OneSlotPerKey, ZeroSlot
<1>6. QED
  BY <1>2, <1>3, <1>4, <1>5 DEF CacheInv

(* Steps that take slot i for a key to be loaded, which no slot has, or to *)
(* be made.                                                                *)
LEMMA CacheClaim ==
    ASSUME NEW t \in Tasks, CacheInv(t), LockInv(t)', NEW i \in Slots, NEW s,
           Update(i, s), UNCHANGED <<stored, made>>, made[VolatileId(i)] = None,
           dst[t] = NoSlot, dst'[t] \in {NoSlot, i}, pc[t] # "wipe",
           s.occupied =>
              /\ dst'[t] = i
              /\ IF s.persistent THEN s.id \in PersistentIds
                                 ELSE s.id = VolatileId(i),
           dst'[t] = i \/ \A j \in Slots : slots[j].id # s.id,
           CallKnowsKey(t)'
    PROVE  CacheInv(t)'
<1>1. slots'[i] = s /\ \A j \in Slots \ {i} : slots'[j] = slots[j]
  BY UpdateEffect DEF CacheInv, LockInv, TypeInv
<1>2. SlotsNamed'
  BY <1>1 DEF CacheInv, SlotsNamed
<1>3. ContentsRight(t)'
  <2> SUFFICES ASSUME NEW j \in Slots, Whole(t, j)'
               PROVE  (/\ slots[j].data \in Materials
                       /\ slots[j].data = IF slots[j].persistent
                                          THEN stored[slots[j].id]
                                          ELSE made[VolatileId(j)])'
    BY DEF ContentsRight
  <2>1. j # i
    BY <1>1 DEF Whole
  <2>2. Whole(t, j)
    BY <1>1, <2>1, SlotsAreNaturals DEF Whole
  <2>3. QED
    BY <1>1, <2>1, <2>2 DEF CacheInv, ContentsRight
<1>4. VolatileAtHome(t)'
  <2> SUFFICES ASSUME NEW j \in Slots, made'[VolatileId(j)] # None
               PROVE  (/\ slots[j].occupied /\ ~ slots[j].persistent
                       /\ slots[j].data = made[VolatileId(j)]
                       /\ j # dst[t])'
    BY DEF VolatileAtHome
  <2>1. j # i
    OBVIOUS
  <2>2. QED
    BY <1>1, <2>1, SlotsAreNaturals DEF CacheInv, VolatileAtHome
<1>5. OneSlotPerKey(t)'
  BY <1>1, SlotsAreNaturals DEF CacheInv, OneSlotPerKey
<1>6. QED
  BY <1>2, <1>3, <1>4, <1>5 DEF CacheInv

(* The slot that psa_get_empty_key_slot selects has no volatile key.       *)
LEMMA EmptySlotHasNoVolatileKey ==
    ASSUME NEW t \in Tasks, CacheInv(t), EmptySlot # NoSlot
    PROVE  made[VolatileId(EmptySlot)] = None
  BY EmptySlotFound DEF CacheInv, VolatileAtHome

LEMMA NotInMemory ==
    ASSUME NEW t \in Tasks, CacheInv(t), pc[t] = "idle",
           NEW k \in Ids, SlotInMemory(k) = NoSlot
    PROVE  \A i \in Slots : slots[i].id # k
<1> SUFFICES ASSUME NEW i \in Slots, slots[i].id = k PROVE FALSE
  OBVIOUS
<1>1. k # NullId
  BY VolatileIdsDisjoint
<1>2. slots[i].occupied
  BY <1>1, NamedIsOccupied DEF CacheInv
<1>3. CASE k \in VolatileIds
  <2>1. k = VolatileId(i)
    BY <1>2, <1>3, VolatileIdsDisjoint DEF CacheInv, SlotsNamed
  <2>2. k - VolatileMin = i
    BY <2>1, SlotsAssumption DEF VolatileId, Slots
  <2>3. QED
    BY <1>3, <2>2, SlotsAreNaturals DEF SlotInMemory
<1>4. CASE k \notin VolatileIds
  <2> DEFINE found == {j \in Slots : slots[j].id = k}
  <2>1. found # {} /\ SlotInMemory(k) = First(found)
    BY <1>4 DEF SlotInMemory
  <2>2. found \in SUBSET Nat
    BY SlotsAreNaturals
  <2>3. First(found) \in found
    BY <2>1, <2>2, FirstIsMember
  <2>4. QED
    BY <2>1, <2>3, SlotsAreNaturals
<1>5. QED
  BY <1>3, <1>4

LEMMA CacheLookup ==
    ASSUME NEW t \in Tasks, CacheInv(t), LockInv(t)', NEW op \in UseOps,
           NEW k \in Ids, NEW new \in PersistentIds \cup {NullId},
           Lookup(t, op, k, new)
    PROVE  CacheInv(t)'
<1>1. TypeOK /\ pc[t] = "idle" /\ call'[t].key = k /\ dst'[t] = dst[t]
      /\ UNCHANGED <<stored, made>>
  BY DEF Lookup, CacheInv, LockInv, TypeInv, TypeOK
<1>2. CASE SlotInMemory(k) # NoSlot
  <2>1. PICK i \in Slots : i = SlotInMemory(k) /\ slots[i].id = k
    BY <1>2, SlotInMemoryFound
  <2>2. Lock(i) /\ src'[t] = i /\ pc'[t] = "found"
    BY <1>1, <1>2, <2>1 DEF Lookup, Goto, TypeOK
  <2>3. SameKeys
    BY <1>1, <2>2, LockingKeepsKeys
  <2>4. CallKnowsKey(t)'
    BY <1>1, <2>1, <2>2, <2>3 DEF CallKnowsKey, SameKeys
  <2>5. QED
    BY <1>1, <2>3, <2>4, CacheSameKeys
<1>3. CASE SlotInMemory(k) = NoSlot
  <2>1. slots' = slots /\ pc'[t] = "find"
    BY <1>1, <1>3 DEF Lookup, Goto, TypeOK
  <2>2. CallKnowsKey(t)'
    BY <1>1, <1>3, <2>1, NotInMemory DEF CallKnowsKey
  <2>3. QED
    BY <1>1, <2>1, <2>2, CacheSameKeys DEF SameKeys
<1>4. QED
  BY <1>2, <1>3

LEMMA CacheCloseLookup ==
    ASSUME NEW t \in Tasks, CacheInv(t), LockInv(t)',
           NEW op \in {"close", "purge"}, NEW k \in Ids, CloseLookup(t, op, k)
    PROVE  CacheInv(t)'
<1>1. TypeOK /\ pc[t] = "idle" /\ pc'[t] = "closing" /\ dst'[t] = dst[t]
      /\ UNCHANGED <<stored, made>>
  BY DEF CloseLookup, Goto, CacheInv, LockInv, TypeInv, TypeOK
<1>2. SlotInMemory(k) \in Slots /\ Lock(SlotInMemory(k))
  BY SlotInMemoryFound DEF CloseLookup
<1>3. SameKeys
  BY <1>1, <1>2, LockingKeepsKeys
<1>4. QED
  BY <1>1, <1>3, CacheSameKeys DEF CallKnowsKey

LEMMA CacheFindSlot ==
    ASSUME NEW t \in Tasks, CacheInv(t), LockInv(t)', FindSlot(t)
    PROVE  CacheInv(t)'
<1>1. TypeOK /\ pc[t] = "find" /\ dst[t] = NoSlot /\ UNCHANGED <<stored, made>>
  BY DEF FindSlot, CacheInv, LockInv, TypeInv, PointersMatchPc
<1>2. CASE EmptySlot = NoSlot
  <2>1. slots' = slots /\ pc'[t] = "idle" /\ dst'[t] = NoSlot
    BY <1>1, <1>2 DEF FindSlot, Return, Goto, TypeOK
  <2>2. QED
    BY <1>1, <2>1, CacheSameKeys DEF SameKeys, CallKnowsKey
<1>3. CASE EmptySlot # NoSlot
  <2> DEFINE k == call[t].key
  <2>1. PICK i \in Slots : i = EmptySlot /\ made[VolatileId(i)] = None
    BY <1>3, EmptySlotFound, EmptySlotHasNoVolatileKey
  <2> DEFINE s == [Claimed(i) EXCEPT !.id = k, !.persistent = TRUE]
  <2>2. Update(i, s) /\ src'[t] = i /\ pc'[t] = "load" /\ dst'[t] = NoSlot
        /\ call' = call
    BY <1>1, <1>3, <2>1 DEF FindSlot, Goto, TypeOK
  <2>3. Claimed(i) \in Slot /\ ~ Claimed(i).occupied
    BY <1>1, ClaimedIsSlot DEF Claimed, ZeroSlot, TypeOK, Slot
  <2>4. s.id = k /\ ~ s.occupied
    BY <2>3 DEF Slot
  <2>5. slots'[i] = s
    BY <1>1, <2>2, UpdateEffect
  <2>6. \A j \in Slots : slots[j].id # k
    BY <1>1 DEF CacheInv, CallKnowsKey
  <2> HIDE DEF s, k
  <2>7. CallKnowsKey(t)'
    BY <2>2, <2>4, <2>5 DEF CallKnowsKey, k
  <2>8. QED
    BY <1>1, <2>1, <2>2, <2>4, <2>6, <2>7, CacheClaim
<1>4. QED
  BY <1>2, <1>3

LEMMA CacheLoad ==
    ASSUME NEW t \in Tasks, CacheInv(t), LockInv(t)', Load(t)
    PROVE  CacheInv(t)'
<1>1. TypeOK /\ pc[t] = "load" /\ dst[t] = NoSlot /\ UNCHANGED <<stored, made>>
  BY DEF Load, CacheInv, LockInv, TypeInv, PointersMatchPc, SourceLabels
<1>2. PICK i \in Slots :
         i = src[t] /\ ~ slots[i].occupied /\ slots[i].id = call[t].key
  BY <1>1
  DEF CacheInv, LockInv, TypeInv, PointersMatchPc, SourceLabels, CallKnowsKey
<1>3. made[VolatileId(i)] = None
  BY <1>2 DEF CacheInv, VolatileAtHome
<1>4. CASE LoadFails(t)
  <2>1. Wipe(i) /\ pc'[t] \in {"dangling", "idle"} /\ dst'[t] = NoSlot
    BY <1>1, <1>2, <1>4 DEF Load, LoadFails, Return, Goto, TypeOK
  <2>2. QED
    BY <1>1, <1>3, <2>1, CacheWipe DEF CallKnowsKey
<1>5. CASE ~ LoadFails(t)
  <2> DEFINE s == [slots[i] EXCEPT !.occupied = TRUE, !.persistent = TRUE,
                                   !.data = stored[slots[i].id]]
  <2>1. Update(i, s) /\ pc'[t] = "found" /\ UNCHANGED <<call, src, dst>>
        /\ slots[i].id \in PersistentIds /\ stored[slots[i].id] \in Materials
    BY <1>1, <1>2, <1>5 DEF Load, Goto, TypeOK
  <2>2. s.id = slots[i].id /\ s.persistent /\ s.data = stored[slots[i].id]
    BY <1>1 DEF TypeOK, Slot
  <2>3. slots'[i] = s /\ \A j \in Slots \ {i} : slots'[j] = slots[j]
    BY <1>1, <2>1, UpdateEffect
  <2> HIDE DEF s
  <2>4. SlotsNamed'
    BY <2>1, <2>2, <2>3 DEF CacheInv, SlotsNamed
  <2>5. ContentsRight(t)'
    <3> SUFFICES ASSUME NEW j \in Slots, Whole(t, j)'
                 PROVE  (/\ slots[j].data \in Materials
                         /\ slots[j].data = IF slots[j].persistent
                                            THEN stored[slots[j].id]
                                            ELSE made[VolatileId(j)])'
      BY DEF ContentsRight
    <3>1. CASE j = i
      BY <1>1, <2>1, <2>2, <2>3, <3>1
    <3>2. CASE j # i
      <4>1. Whole(t, j)
        BY <1>1, <2>1, <2>3, <3>2 DEF Whole
      <4>2. QED
        BY <1>1, <2>3, <3>2, <4>1 DEF CacheInv, ContentsRight
    <3>3. QED
      BY <3>1, <3>2
  <2>6. VolatileAtHome(t)'
    BY <1>1, <1>3, <2>1, <2>3 DEF CacheInv, VolatileAtHome
  <2>7. OneSlotPerKey(t)'
    BY <2>1, <2>2, <2>3 DEF CacheInv, OneSlotPerKey
  <2>8. CallKnowsKey(t)'
    BY <1>2, <2>1, <2>2, <2>3 DEF CallKnowsKey
  <2>9. QED
    BY <2>4, <2>5, <2>6, <2>7, <2>8 DEF CacheInv
<1>6. QED
  BY <1>4, <1>5

LEMMA CacheUnlock ==
    ASSUME NEW t \in Tasks, CacheInv(t), LockInv(t)',
           UnlockDangling(t) \/ UnlockSource(t) \/ Refuse(t)
    PROVE  CacheInv(t)'
<1>1. TypeOK /\ pc[t] \in {"dangling", "unlock", "found"} /\ src[t] \in Slots
      /\ dst[t] = NoSlot /\ UNCHANGED <<stored, made>>
  BY DEF UnlockDangling, UnlockSource, Refuse, CacheInv, LockInv, TypeInv,
         PointersMatchPc, SourceLabels
<1>2. Unlock(src[t]) /\ pc'[t] = "idle" /\ dst'[t] = NoSlot
  BY <1>1 DEF UnlockDangling, UnlockSource, Refuse, Return, Goto, TypeOK
<1>3. SameKeys
  BY <1>1, <1>2, LockingKeepsKeys
<1>4. QED
  BY <1>1, <1>2, <1>3, CacheSameKeys DEF CallKnowsKey

LEMMA CacheUse ==
    ASSUME NEW t \in Tasks, CacheInv(t), LockInv(t)', Use(t)
    PROVE  CacheInv(t)'
<1>1. pc[t] = "found" /\ pc'[t] = "unlock" /\ slots' = slots
      /\ dst' = dst /\ UNCHANGED <<stored, made>>
  BY DEF Use, Goto, CacheInv, LockInv, TypeInv, TypeOK
<1>2. QED
  BY <1>1, CacheSameKeys DEF SameKeys, CallKnowsKey

LEMMA CacheDestroyCheck ==
    ASSUME NEW t \in Tasks, CacheInv(t), LockInv(t)', DestroyCheck(t)
    PROVE  CacheInv(t)'
<1>1. TypeOK /\ pc[t] = "found" /\ src[t] \in Slots /\ dst[t] = NoSlot
      /\ UNCHANGED <<stored, made>>
  BY DEF DestroyCheck, CacheInv, LockInv, TypeInv, PointersMatchPc, SourceLabels
<1>2. CASE slots[src[t]].lock > 1
  <2>1. Unlock(src[t]) /\ pc'[t] = "idle" /\ dst'[t] = NoSlot
    BY <1>1, <1>2 DEF DestroyCheck, Return, Goto, TypeOK
  <2>2. SameKeys
    BY <1>1, <2>1, LockingKeepsKeys
  <2>3. QED
    BY <1>1, <2>1, <2>2, CacheSameKeys DEF CallKnowsKey
<1>3. CASE ~ (slots[src[t]].lock > 1)
  <2>1. pc'[t] \in {"erase", "wipe"} /\ slots' = slots /\ dst' = dst
    BY <1>1, <1>3 DEF DestroyCheck, Goto, TypeOK
  <2>2. QED
    BY <1>1, <2>1, CacheSameKeys DEF SameKeys, CallKnowsKey
<1>4. QED
  BY <1>2, <1>3

(* Erasing the file of a key affects only the slot that is wiped next.     *)
LEMMA CacheErase ==
    ASSUME NEW t \in Tasks, CacheInv(t), LockInv(t)', Erase(t)
    PROVE  CacheInv(t)'
<1>1. TypeOK /\ pc[t] = "erase" /\ pc'[t] = "wipe" /\ dst[t] = NoSlot
      /\ UNCHANGED <<slots, src, dst, made>>
  BY DEF Erase, Goto, CacheInv, LockInv, TypeInv, TypeOK, PointersMatchPc,
         SourceLabels
<1>2. PICK i \in Slots : i = src[t]
  BY <1>1 DEF CacheInv, LockInv, TypeInv, PointersMatchPc, SourceLabels
<1>3. \A k \in PersistentIds : k # slots[i].id => stored'[k] = stored[k]
  BY <1>1, <1>2 DEF Erase, TypeOK
<1>4. ContentsRight(t)'
  <2> SUFFICES ASSUME NEW j \in Slots, Whole(t, j)'
               PROVE  (/\ slots[j].data \in Materials
                       /\ slots[j].data = IF slots[j].persistent
                                          THEN stored[slots[j].id]
                                          ELSE made[VolatileId(j)])'
    BY DEF ContentsRight
  <2>1. j # i /\ Whole(t, j)
    BY <1>1, <1>2 DEF Whole
  <2>2. ASSUME slots[j].persistent
        PROVE  slots[j].id \in PersistentIds /\ slots[j].id # slots[i].id
    <3>1. slots[j].id \in PersistentIds
      BY <2>1, <2>2 DEF Whole, CacheInv, SlotsNamed
    <3>2. slots[j].id # NullId
      BY <3>1, VolatileIdsDisjoint DEF Ids
    <3>3. QED
      BY <1>1, <2>1, <3>1, <3>2, SlotsAreNaturals DEF CacheInv, OneSlotPerKey
  <2>3. QED
    BY <1>1, <1>3, <2>1, <2>2 DEF CacheInv, ContentsRight
<1>5. SlotsNamed' /\ VolatileAtHome(t)' /\ OneSlotPerKey(t)'
  BY <1>1 DEF CacheInv, SlotsNamed, VolatileAtHome, OneSlotPerKey
<1>6. QED
  BY <1>1, <1>4, <1>5 DEF CacheInv, CallKnowsKey

LEMMA ForgetEffect ==
    ASSUME NEW t \in Tasks, CacheInv(t), NEW i \in Slots, slots[i].occupied,
           Forget(slots[i].id)
    PROVE  /\ made'[VolatileId(i)] = None
           /\ \A j \in Slots \ {i} : made'[VolatileId(j)] = made[VolatileId(j)]
<1>1. \A j \in Slots :
         made'[VolatileId(j)] =
            IF VolatileId(j) = slots[i].id THEN None ELSE made[VolatileId(j)]
  BY VolatileIdsDisjoint DEF Forget
<1>2. CASE slots[i].persistent
  <2>1. slots[i].id \in PersistentIds /\ made[VolatileId(i)] = None
    BY <1>2 DEF CacheInv, SlotsNamed, VolatileAtHome
  <2>2. QED
    BY <1>1, <2>1, VolatileIdsDisjoint
<1>3. CASE ~ slots[i].persistent
  <2>1. slots[i].id = VolatileId(i)
    BY <1>3 DEF CacheInv, SlotsNamed
  <2>2. QED
    BY <1>1, <2>1, VolatileIdsDisjoint
<1>4. QED
  BY <1>2, <1>3

LEMMA CacheDestroyWipe ==
    ASSUME NEW t \in Tasks, CacheInv(t), LockInv(t)', DestroyWipe(t) \/ Close(t)
    PROVE  CacheInv(t)'
<1>1. TypeOK /\ pc[t] \in {"wipe", "closing"} /\ src[t] \in Slots
      /\ dst[t] = NoSlot /\ stored' = stored /\ slots[src[t]].occupied
  BY DEF DestroyWipe, Close, CacheInv, LockInv, TypeInv, PointersMatchPc,
         SourceLabels, SlotsInUseOccupied
<1>2. pc'[t] = "idle" /\ dst'[t] = NoSlot
  BY <1>1 DEF DestroyWipe, Close, Return, Goto, TypeOK
<1>3. \/ Wipe(src[t]) /\ Forget(slots[src[t]].id)
      \/ pc[t] = "closing" /\ Unlock(src[t]) /\ made' = made
  BY DEF DestroyWipe, Close
<1>4. CASE Wipe(src[t]) /\ Forget(slots[src[t]].id)
  BY <1>1, <1>2, <1>4, ForgetEffect, CacheWipe DEF CallKnowsKey
<1>5. CASE pc[t] = "closing" /\ Unlock(src[t]) /\ made' = made
  <2>1. SameKeys
    BY <1>1, <1>5, LockingKeepsKeys
  <2>2. QED
    BY <1>1, <1>2, <1>5, <2>1, CacheSameKeys DEF CallKnowsKey
<1>6. QED
  BY <1>3, <1>4, <1>5

(* The steps that start making a key, in the slot that the search found.   *)
LEMMA CacheStarted ==
    ASSUME NEW t \in Tasks, CacheInv(t), LockInv(t)', EmptySlot # NoSlot,
           NEW new \in PersistentIds \cup {NullId},
           Update(EmptySlot, Started(EmptySlot, new)), dst[t] = NoSlot,
           dst'[t] = EmptySlot, UNCHANGED <<stored, made>>, pc[t] # "wipe",
           pc'[t] = "fill"
    PROVE  CacheInv(t)'
<1>1. PICK i \in Slots : i = EmptySlot /\ made[VolatileId(i)] = None
  BY EmptySlotFound, EmptySlotHasNoVolatileKey
<1>2. Claimed(i) \in Slot
  BY <1>1, ClaimedIsSlot DEF CacheInv, LockInv, TypeInv
<1>3. /\ Started(i, new).persistent = (new # NullId)
      /\ Started(i, new).id = IF new = NullId THEN VolatileId(i) ELSE new
  BY <1>2 DEF Started, Slot
<1>4. CallKnowsKey(t)'
  BY DEF CallKnowsKey
<1>5. QED
  BY <1>1, <1>3, <1>4, CacheClaim

LEMMA CacheMakeBegin ==
    ASSUME NEW t \in Tasks, CacheInv(t), LockInv(t)', NEW op \in MakeOps,
           NEW new \in PersistentIds \cup {NullId}, MakeBegin(t, op, new)
    PROVE  CacheInv(t)'
<1>1. TypeOK /\ pc[t] = "idle" /\ dst[t] = NoSlot
  BY DEF MakeBegin, CacheInv, LockInv, TypeInv, PointersMatchPc
<1>2. /\ EmptySlot # NoSlot /\ Update(EmptySlot, Started(EmptySlot, new))
      /\ dst'[t] = EmptySlot /\ pc'[t] = "fill" /\ UNCHANGED <<stored, made>>
  BY <1>1 DEF MakeBegin, Goto, TypeOK
<1>3. QED
  BY <1>1, <1>2, CacheStarted

LEMMA CacheCopyBegin ==
    ASSUME NEW t \in Tasks, CacheInv(t), LockInv(t)', CopyBegin(t)
    PROVE  CacheInv(t)'
<1>1. TypeOK /\ pc[t] = "found" /\ dst[t] = NoSlot /\ UNCHANGED <<stored, made>>
      /\ call[t].new \in PersistentIds \cup {NullId}
  BY DEF CopyBegin, CacheInv, LockInv, TypeInv, TypeOK, Calls, PointersMatchPc,
         SourceLabels
<1>2. CASE EmptySlot = NoSlot
  <2>1. pc'[t] = "unlock" /\ slots' = slots /\ dst' = dst
    BY <1>1, <1>2 DEF CopyBegin, Goto, TypeOK
  <2>2. QED
    BY <1>1, <2>1, CacheSameKeys DEF SameKeys, CallKnowsKey
<1>3. CASE EmptySlot # NoSlot
  <2>1. /\ Update(EmptySlot, Started(EmptySlot, call[t].new))
        /\ dst'[t] = EmptySlot /\ pc'[t] = "fill"
    BY <1>1, <1>3 DEF CopyBegin, Goto, TypeOK
  <2>2. QED
    BY <1>1, <1>3, <2>1, CacheStarted
<1>4. QED
  BY <1>2, <1>3

(* The slot of the key being made, and the one it is copied from.          *)
LEMMA TargetApart ==
    ASSUME NEW t \in Tasks, CacheInv(t), pc[t] \in TargetLabels
    PROVE  \E i \in Slots :
              /\ i = dst[t] /\ slots[i] \in Slot /\ slots[i].occupied
              /\ slots[i].lock = 1 /\ made[VolatileId(i)] = None
              /\ \A j \in Slots \ {i} :
                    slots[j].occupied => Whole(t, j) /\ slots[j].data \in Materials
              /\ call[t].op = "copy" => slots[src[t]].data \in Materials
<1>1. PICK i \in Slots :
         /\ i = dst[t] /\ slots[i] \in Slot
         /\ slots[i].lock = 1 /\ slots[i].occupied /\ src[t] # i
         /\ src[t] # NoSlot => src[t] \in Slots /\ slots[src[t]].occupied
         /\ call[t].op # "copy" => src[t] = NoSlot
  BY LockTarget DEF CacheInv
<1>2. made[VolatileId(i)] = None
  BY <1>1 DEF CacheInv, VolatileAtHome
<1>3. \A j \in Slots \ {i} :
         slots[j].occupied => Whole(t, j) /\ slots[j].data \in Materials
  <2> SUFFICES ASSUME NEW j \in Slots \ {i}, slots[j].occupied
               PROVE  Whole(t, j) /\ slots[j].data \in Materials
    OBVIOUS
  <2>1. Whole(t, j)
    BY <1>1 DEF Whole, TargetLabels
  <2>2. QED
    BY <2>1 DEF CacheInv, ContentsRight
<1>4. call[t].op = "copy" => slots[src[t]].data \in Materials
  <2> SUFFICES ASSUME call[t].op = "copy"
               PROVE  slots[src[t]].data \in Materials
    OBVIOUS
  <2>1. src[t] \in Slots
    BY DEF CacheInv, LockInv, TypeInv, PointersMatchPc
  <2>2. QED
    BY <1>1, <1>3, <2>1, SlotsAreNaturals
<1>5. QED
  BY <1>1, <1>2, <1>3, <1>4

LEMMA CacheFill ==
    ASSUME NEW t \in Tasks, CacheInv(t), LockInv(t)', Fill(t)
    PROVE  CacheInv(t)'
<1>1. TypeOK /\ pc[t] = "fill" /\ pc[t] \in TargetLabels
      /\ UNCHANGED <<stored, made, src, dst>>
  BY DEF Fill, CacheInv, LockInv, TypeInv, TargetLabels
<1>2. PICK i \in Slots :
         /\ i = dst[t] /\ slots[i] \in Slot
         /\ call[t].op = "copy" => slots[src[t]].data \in Materials
  BY <1>1, TargetApart
<1>3. CASE Goto(t, "fail") /\ UNCHANGED slots
  <2>1. pc'[t] = "fail"
    BY <1>1, <1>3 DEF Goto, TypeOK
  <2>2. QED
    BY <1>1, <1>3, <2>1, CacheSameKeys DEF SameKeys, CallKnowsKey
<1>4. ASSUME NEW m \in Materials, Goto(t, "finish"),
             Update(i, [slots[i] EXCEPT !.data = m])
      PROVE  CacheInv(t)'
  <2> DEFINE s == [slots[i] EXCEPT !.data = m]
  <2>1. /\ s.id = slots[i].id /\ s.persistent = slots[i].persistent
        /\ s.occupied = slots[i].occupied /\ s.data = m
    BY <1>2 DEF Slot
  <2>2. slots'[i] = s /\ \A j \in Slots \ {i} : slots'[j] = slots[j]
    BY <1>1, <1>4, UpdateEffect
  <2> HIDE DEF s
  <2>3. pc'[t] = "finish"
    BY <1>1, <1>4 DEF Goto, TypeOK
  <2>4. SlotsNamed' /\ OneSlotPerKey(t)'
    BY <1>1, <2>1, <2>2 DEF CacheInv, SlotsNamed, OneSlotPerKey
  <2>5. ContentsRight(t)'
    <3> SUFFICES ASSUME NEW j \in Slots, Whole(t, j)'
                 PROVE  (/\ slots[j].data \in Materials
                         /\ slots[j].data = IF slots[j].persistent
                                            THEN stored[slots[j].id]
                                            ELSE made[VolatileId(j)])'
      BY DEF ContentsRight
    <3>1. j # i /\ Whole(t, j)
      BY <1>1, <1>2, <2>2 DEF Whole
    <3>2. QED
      BY <1>1, <2>2, <3>1 DEF CacheInv, ContentsRight
  <2>6. VolatileAtHome(t)'
    BY <1>1, <1>2, <2>2 DEF CacheInv, VolatileAtHome
  <2>7. CallKnowsKey(t)'
    BY <1>1, <1>2, <2>1, <2>2, <2>3 DEF CallKnowsKey
  <2>8. QED
    BY <2>4, <2>5, <2>6, <2>7 DEF CacheInv
<1>5. QED
  BY <1>2, <1>3, <1>4 DEF Fill

(* No slot has a key whose file is missing, and none the volatile id of    *)
(* the slot in which a key is being made.                                  *)
LEMMA NoOtherSlotHasKey ==
    ASSUME NEW t \in Tasks, CacheInv(t), pc[t] = "finish",
           \/ ~ slots[dst[t]].persistent
           \/ stored[slots[dst[t]].id] = Absent
    PROVE  \A j \in Slots \ {dst[t]} : slots[j].id # slots[dst[t]].id
<1>1. PICK i \in Slots :
         /\ i = dst[t] /\ slots[i].occupied
         /\ \A j \in Slots \ {i} :
               slots[j].occupied => Whole(t, j) /\ slots[j].data \in Materials
  BY TargetApart DEF TargetLabels
<1> SUFFICES ASSUME NEW j \in Slots \ {i}, slots[j].id = slots[i].id
             PROVE  FALSE
  BY <1>1
<1>2. slots[i].id # NullId
  BY <1>1, VolatileIdsDisjoint DEF CacheInv, SlotsNamed, Ids
<1>3. slots[j].occupied
  BY <1>2, NamedIsOccupied DEF CacheInv
<1>4. Whole(t, j) /\ slots[j].data \in Materials
  BY <1>1, <1>3
<1>5. CASE ~ slots[i].persistent
  BY <1>1, <1>3, <1>5, VolatileIdsDisjoint DEF CacheInv, SlotsNamed
<1>6. CASE slots[i].persistent /\ stored[slots[i].id] = Absent
  <2>1. slots[j].persistent
    BY <1>1, <1>3, <1>6, VolatileIdsDisjoint DEF CacheInv, SlotsNamed
  <2>2. slots[j].data = Absent
    BY <1>4, <1>6, <2>1 DEF CacheInv, ContentsRight
  <2>3. QED
    BY <1>4, <2>2, SlotsAssumption
<1>7. QED
  BY <1>1, <1>5, <1>6

LEMMA CacheFinish ==
    ASSUME NEW t \in Tasks, CacheInv(t), LockInv(t)', Finish(t)
    PROVE  CacheInv(t)'
<1>1. TypeOK /\ pc[t] = "finish" /\ UNCHANGED <<slots, src, dst, made>>
      /\ pc'[t] \in {"release", "fail"}
  BY DEF Finish, Goto, CacheInv, LockInv, TypeInv, TypeOK
<1>2. PICK i \in Slots : i = dst[t]
  BY <1>1, TargetApart DEF TargetLabels
<1>3. CASE ~ slots[i].persistent /\ pc'[t] = "release" /\ stored' = stored
  <2>1. CallKnowsKey(t)'
    BY <1>1, <1>2, <1>3, NoOtherSlotHasKey DEF CacheInv, CallKnowsKey
  <2>2. QED
    BY <1>1, <1>3, <2>1, CacheSameKeys DEF SameKeys
<1>4. CASE pc'[t] = "fail" /\ stored' = stored
  BY <1>1, <1>4, CacheSameKeys DEF SameKeys, CallKnowsKey
<1>5. ASSUME slots[i].persistent, stored[slots[i].id] = Absent,
             slots[i].id \in PersistentIds,
             NEW f, stored' = [stored EXCEPT ![slots[i].id] = f],
             pc'[t] = "release" => f = slots[i].data
      PROVE  CacheInv(t)'
  <2>1. \A j \in Slots \ {i} : slots[j].id # slots[i].id
    BY <1>1, <1>2, <1>5, NoOtherSlotHasKey
  <2>2. /\ stored'[slots[i].id] = f
        /\ \A k \in PersistentIds : k # slots[i].id => stored'[k] = stored[k]
    BY <1>1, <1>5 DEF TypeOK
  <2>3. ContentsRight(t)'
    <3> SUFFICES ASSUME NEW j \in Slots, Whole(t, j)'
                 PROVE  (/\ slots[j].data \in Materials
                         /\ slots[j].data = IF slots[j].persistent
                                            THEN stored[slots[j].id]
                                            ELSE made[VolatileId(j)])'
      BY DEF ContentsRight
    <3>1. j # i /\ Whole(t, j)
      BY <1>1, <1>2 DEF Whole
    <3>2. slots[j].persistent => slots[j].id \in PersistentIds
      BY <3>1 DEF Whole, CacheInv, SlotsNamed
    <3>3. QED
      BY <1>1, <2>1, <2>2, <3>1, <3>2 DEF CacheInv, ContentsRight
  <2>4. SlotsNamed' /\ VolatileAtHome(t)' /\ OneSlotPerKey(t)'
    BY <1>1 DEF CacheInv, SlotsNamed, VolatileAtHome, OneSlotPerKey
  <2>5. CallKnowsKey(t)'
    BY <1>1, <1>2, <1>5, <2>1, <2>2 DEF CacheInv, CallKnowsKey
  <2>6. QED
    BY <2>3, <2>4, <2>5 DEF CacheInv
<1>6. \/ ~ slots[i].persistent /\ pc'[t] = "release" /\ stored' = stored
      \/ pc'[t] = "fail" /\ stored' = stored
      \/ /\ slots[i].persistent /\ stored[slots[i].id] = Absent
         /\ slots[i].id \in PersistentIds
         /\ \/ /\ pc'[t] = "release"
               /\ stored' = [stored EXCEPT ![slots[i].id] = slots[i].data]
            \/ /\ pc'[t] = "fail"
               /\ stored' = [stored EXCEPT ![slots[i].id] = Torn]
  BY <1>1, <1>2 DEF Finish, SaveResults, Goto, TypeOK
<1>7. QED
  BY <1>3, <1>4, <1>5, <1>6

LEMMA CacheRelease ==
    ASSUME NEW t \in Tasks, CacheInv(t), LockInv(t)', Release(t)
    PROVE  CacheInv(t)'
<1>1. TypeOK /\ pc[t] = "release" /\ stored' = stored
  BY DEF Release, CacheInv, LockInv, TypeInv
<1>2. PICK i \in Slots :
         /\ i = dst[t] /\ slots[i].occupied /\ slots[i].lock = 1
         /\ made[VolatileId(i)] = None
  BY <1>1, TargetApart DEF TargetLabels
<1>3. /\ Unlock(i) /\ AfterMaking(t)
      /\ made' = IF slots[i].id \in VolatileIds
                 THEN [made EXCEPT ![slots[i].id] = slots[i].data] ELSE made
  BY <1>2 DEF Release
<1>4. dst'[t] = NoSlot /\ pc'[t] \in {"unlock", "idle"}
  BY <1>1, <1>3 DEF AfterMaking, Return, Goto, TypeOK
<1>5. SameKeys
  BY <1>1, <1>3, LockingKeepsKeys
<1>6. /\ slots[i].data \in Materials
      /\ slots[i].persistent => stored[slots[i].id] = slots[i].data
      /\ \A j \in Slots \ {i} : slots[j].id # slots[i].id
  BY <1>1, <1>2 DEF CacheInv, CallKnowsKey
<1>7. /\ made'[VolatileId(i)] = IF slots[i].persistent THEN None
                                                     ELSE slots[i].data
      /\ \A j \in Slots \ {i} : made'[VolatileId(j)] = made[VolatileId(j)]
  <2>1. IF slots[i].persistent THEN slots[i].id \in PersistentIds
                               ELSE slots[i].id = VolatileId(i)
    BY <1>2 DEF CacheInv, SlotsNamed
  <2>2. QED
    BY <1>1, <1>2, <1>3, <2>1, VolatileIdsDisjoint DEF TypeOK
<1>8. SlotsNamed'
  BY <1>5 DEF CacheInv, SameKeys, SlotsNamed
<1>9. ContentsRight(t)'
  <2> SUFFICES ASSUME NEW j \in Slots, Whole(t, j)'
               PROVE  (/\ slots[j].data \in Materials
                       /\ slots[j].data = IF slots[j].persistent
                                          THEN stored[slots[j].id]
                                          ELSE made[VolatileId(j)])'
    BY DEF ContentsRight
  <2>1. CASE j = i
    BY <1>1, <1>5, <1>6, <1>7, <2>1 DEF SameKeys
  <2>2. CASE j # i
    <3>1. Whole(t, j)
      BY <1>1, <1>2, <1>5, <2>2 DEF Whole, SameKeys
    <3>2. QED
      BY <1>1, <1>5, <1>7, <2>2, <3>1 DEF CacheInv, ContentsRight, SameKeys
  <2>3. QED
    BY <2>1, <2>2
<1>10. VolatileAtHome(t)'
  <2> SUFFICES ASSUME NEW j \in Slots, made'[VolatileId(j)] # None
               PROVE  (/\ slots[j].occupied /\ ~ slots[j].persistent
                       /\ slots[j].data = made[VolatileId(j)]
                       /\ j # dst[t])'
    BY DEF VolatileAtHome
  <2>1. CASE j = i
    BY <1>2, <1>4, <1>5, <1>7, <2>1, SlotsAreNaturals DEF SameKeys
  <2>2. CASE j # i
    BY <1>4, <1>5, <1>7, <2>2, SlotsAreNaturals
    DEF SameKeys, CacheInv, VolatileAtHome
  <2>3. QED
    BY <2>1, <2>2
<1>11. OneSlotPerKey(t)'
  BY <1>2, <1>5, <1>6 DEF CacheInv, OneSlotPerKey, SameKeys
<1>12. CallKnowsKey(t)'
  BY <1>4 DEF CallKnowsKey
<1>13. QED
  BY <1>8, <1>9, <1>10, <1>11, <1>12 DEF CacheInv

LEMMA CacheFail ==
    ASSUME NEW t \in Tasks, CacheInv(t), LockInv(t)', Fail(t)
    PROVE  CacheInv(t)'
<1>1. TypeOK /\ pc[t] = "fail" /\ UNCHANGED <<stored, made>>
  BY DEF Fail, CacheInv, LockInv, TypeInv
<1>2. PICK i \in Slots : i = dst[t] /\ made[VolatileId(i)] = None
  BY <1>1, TargetApart DEF TargetLabels
<1>3. Wipe(i) /\ dst'[t] = NoSlot /\ pc'[t] \in {"unlock", "idle"}
  BY <1>1, <1>2 DEF Fail, AfterMaking, Return, Goto, TypeOK
<1>4. QED
  BY <1>1, <1>2, <1>3, CacheWipe DEF CallKnowsKey

LEMMA CacheLibrary ==
    ASSUME NEW t \in Tasks, CacheInv(t), LockInv(t)', InitLibrary \/ FreeLibrary
    PROVE  CacheInv(t)'
<1>1. CASE InitLibrary
  <2>1. UNCHANGED <<slots, stored, pc, call, src, dst, made>>
    BY <1>1 DEF InitLibrary
  <2>2. QED
    BY <2>1
    DEF CacheInv, SlotsNamed, ContentsRight, Whole, VolatileAtHome,
        OneSlotPerKey, CallKnowsKey
<1>2. CASE FreeLibrary
  <2>1. /\ pc'[t] = "idle"
        /\ \A i \in Slots : slots'[i] = ZeroSlot /\ made'[VolatileId(i)] = None
    BY <1>2, VolatileIdsDisjoint DEF FreeLibrary, AllIdle
  <2>2. QED
    BY <2>1
    DEF CacheInv, SlotsNamed, ContentsRight, Whole, VolatileAtHome,
        OneSlotPerKey, CallKnowsKey, ZeroSlot
<1>3. QED
  BY <1>1, <1>2

LEMMA CacheInit ==
    ASSUME NEW t \in Tasks
    PROVE  Init => CacheInv(t)
<1> SUFFICES ASSUME Init PROVE CacheInv(t)
  OBVIOUS
<1>1. LockInv(t)
  BY LockInit
<1>2. /\ pc[t] = "idle"
      /\ \A i \in Slots : slots[i] = ZeroSlot /\ made[VolatileId(i)] = None
  BY VolatileIdsDisjoint DEF Init
<1>3. QED
  BY <1>1, <1>2
  DEF CacheInv, SlotsNamed, ContentsRight, Whole, VolatileAtHome,
      OneSlotPerKey, CallKnowsKey, ZeroSlot

LEMMA CacheStay ==
    ASSUME NEW t \in Tasks, CacheInv(t), UNCHANGED vars
    PROVE  CacheInv(t)'
<1>1. LockInv(t)'
  BY LockStay DEF CacheInv
<1>2. QED
  BY <1>1
  DEF vars, CacheInv, SlotsNamed, ContentsRight, Whole, VolatileAtHome,
      OneSlotPerKey, CallKnowsKey

LEMMA CacheStep ==
    ASSUME NEW t \in Tasks, CacheInv(t), Begin(t) \/ Continue(t)
    PROVE  CacheInv(t)'
<1>1. LockInv(t)'
  BY LockBegin, LockContinue DEF CacheInv
<1>2. CASE Begin(t)
  <2>1. "copy" \in UseOps /\ NullId \in PersistentIds \cup {NullId}
    BY DEF UseOps
  <2>2. QED
    BY <1>1, <1>2, <2>1, CacheLookup, CacheCloseLookup, CacheMakeBegin DEF Begin
<1>3. CASE Continue(t)
  BY <1>1, <1>3, CacheFindSlot, CacheLoad, CacheUnlock, CacheUse,
     CacheDestroyCheck, CacheErase, CacheDestroyWipe, CacheCopyBegin, CacheFill,
     CacheFinish, CacheRelease, CacheFail
  DEF Continue
<1>4. QED
  BY <1>2, <1>3

(* Tasks whose calls are over see the same slots.                          *)
LEMMA CachePasses ==
    ASSUME NEW t \in Tasks, NEW u \in Tasks, CacheInv(t), pc[t] = "idle", pc[u] = "idle"
    PROVE  CacheInv(u)
<1>1. LockInv(u) /\ LockInv(t)
  BY LockPasses DEF CacheInv
<1>2. dst[t] = NoSlot /\ dst[u] = NoSlot
  BY <1>1 DEF LockInv, TypeInv, PointersMatchPc
<1>3. QED
  BY <1>1, <1>2
  DEF CacheInv, ContentsRight, Whole, VolatileAtHome, OneSlotPerKey, CallKnowsKey

(* The invariant when tasks take turns.                                    *)
TurnsInv == \E t \in Tasks : Alone(t) /\ CacheInv(t)

(* Every step of a call is a step of the one call under way.               *)
LEMMA OneMoves ==
    ASSUME TurnsInv, NEW u \in Tasks, (AllIdle /\ Begin(u)) \/ Continue(u)
    PROVE  Alone(u) /\ CacheInv(u)
<1>1. PICK t \in Tasks : Alone(t) /\ CacheInv(t)
  BY DEF TurnsInv
<1>2. CASE Continue(u)
  BY <1>1, <1>2, ContinueIsNotIdle DEF Alone
<1>3. CASE AllIdle
  BY <1>1, <1>3, CachePasses DEF AllIdle, Alone
<1>4. QED
  BY <1>2, <1>3

LEMMA TurnsInit ==
    ASSUME Tasks # {}
    PROVE  Init => TurnsInv
<1>1. PICK t : t \in Tasks
  OBVIOUS
<1>2. Init => Alone(t)
  BY DEF Init, Alone
<1>3. QED
  BY <1>1, <1>2, CacheInit DEF TurnsInv

LEMMA TurnsStep == TurnsInv /\ [TurnsNext]_vars => TurnsInv'
<1> SUFFICES ASSUME TurnsInv, [TurnsNext]_vars PROVE TurnsInv'
  OBVIOUS
<1>1. PICK t \in Tasks : Alone(t) /\ CacheInv(t)
  BY DEF TurnsInv
<1>2. CASE UNCHANGED vars
  <2>1. Alone(t)' /\ CacheInv(t)'
    BY <1>1, <1>2, CacheStay DEF Alone, vars
  <2>2. QED
    BY <2>1 DEF TurnsInv
<1>3. ASSUME NEW u \in Tasks, (AllIdle /\ Begin(u)) \/ Continue(u)
      PROVE  TurnsInv'
  <2>1. Alone(u) /\ CacheInv(u)
    BY <1>3, OneMoves
  <2>2. CacheInv(u)'
    BY <1>3, <2>1, CacheStep
  <2>3. Alone(u)'
    BY <1>3, <2>1, OnlyOwnPc DEF Alone, CacheInv, LockInv, TypeInv
  <2>4. QED
    BY <2>2, <2>3 DEF TurnsInv
<1>4. CASE InitLibrary \/ FreeLibrary
  <2>1. CacheInv(t)'
    BY <1>1, <1>4, LockLibrary, CacheLibrary DEF CacheInv
  <2>2. Alone(t)'
    BY <1>1, <1>4 DEF Alone, InitLibrary, FreeLibrary
  <2>3. QED
    BY <2>1, <2>2 DEF TurnsInv
<1>5. QED
  BY <1>2, <1>3, <1>4 DEF TurnsNext

LEMMA TurnsInvariance == Tasks # {} => (TurnsSpec => []TurnsInv)
<1> SUFFICES ASSUME Tasks # {} PROVE TurnsSpec => []TurnsInv
  OBVIOUS
<1>1. Init => TurnsInv
  BY TurnsInit
<1>2. QED
  BY <1>1, TurnsStep, PTL DEF TurnsSpec

LEMMA CacheImplies ==
    ASSUME NEW t \in Tasks, CacheInv(t)
    PROVE  CacheIsCoherent /\ VolatileKeysStay
<1>1. CacheIsCoherent
  <2> SUFFICES ASSUME NEW i \in Slots, slots[i].occupied, Settled(i)
               PROVE  /\ slots[i].data =
                            IF slots[i].persistent THEN stored[slots[i].id]
                                                   ELSE made[VolatileId(i)]
                      /\ slots[i].persistent <=> slots[i].id \in PersistentIds
                      /\ \A j \in Slots \ {i} :
                            slots[j].id = slots[i].id => ~ Settled(j)
    BY DEF CacheIsCoherent
  <2>1. Whole(t, i)
    BY DEF Whole, Settled, Making, Using
  <2>2. slots[i].persistent <=> slots[i].id \in PersistentIds
    BY VolatileIdsDisjoint DEF CacheInv, SlotsNamed
  <2>3. ASSUME NEW j \in Slots \ {i}, slots[j].id = slots[i].id, Settled(j)
        PROVE  FALSE
    <3>1. slots[i].id # NullId
      BY VolatileIdsDisjoint DEF CacheInv, SlotsNamed, Ids
    <3>2. i = dst[t] \/ j = dst[t]
      BY <2>3, <3>1 DEF CacheInv, OneSlotPerKey
    <3>3. QED
      BY <2>3, <3>2 DEF Settled, Making
  <2>4. QED
    BY <2>1, <2>2, <2>3 DEF CacheInv, ContentsRight
<1>2. VolatileKeysStay
  BY DEF CacheInv, VolatileAtHome, SlotsNamed, VolatileKeysStay
<1>3. QED
  BY <1>1, <1>2

(* LockCountsMatch: when tasks take turns no path of any call leaks or     *)
(* drops a lock, for any number of tasks, slots, ids and key material.     *)
THEOREM LocksAreBalanced ==
    ASSUME Tasks # {}
    PROVE  TurnsSpec => []LockCountsMatch
<1>1. TurnsInv => LockCountsMatch
  BY LockCounts DEF TurnsInv, CacheInv
<1>2. QED
  BY <1>1, TurnsInvariance, PTL

(* FreeSlotsAreZero: and a slot that is free to be taken is all zero.      *)
THEOREM FreeSlotsStayZero ==
    ASSUME Tasks # {}
    PROVE  TurnsSpec => []FreeSlotsAreZero
<1>1. TurnsInv => FreeSlotsAreZero
  BY DEF TurnsInv, CacheInv, LockInv
<1>2. QED
  BY <1>1, TurnsInvariance, PTL

(* CacheIsCoherent: a cached key is the stored one, however often it was   *)
(* loaded, evicted, destroyed and made again, and it is cached once.       *)
THEOREM CacheStaysCoherent ==
    ASSUME Tasks # {}
    PROVE  TurnsSpec => []CacheIsCoherent
<1>1. TurnsInv => CacheIsCoherent
  BY CacheImplies DEF TurnsInv
<1>2. QED
  BY <1>1, TurnsInvariance, PTL

(* VolatileKeysStay: a volatile key stays in its slot until it is          *)
(* destroyed or closed.                                                    *)
THEOREM VolatileKeysStayPut ==
    ASSUME Tasks # {}
    PROVE  TurnsSpec => []VolatileKeysStay
<1>1. TurnsInv => VolatileKeysStay
  BY CacheImplies DEF TurnsInv
<1>2. QED
  BY <1>1, TurnsInvariance, PTL

-----------------------------------------------------------------------------
(* The refinement: each step of a call is a step of the table of keys that *)
(* callers see, or does not show.                                          *)

KeyOf(k) ==
    IF k \in VolatileIds THEN made[k]
    ELSE IF stored[k] \in Materials THEN stored[k] ELSE None

TableNow == [k \in Ids |-> KeyOf(k)]

TableStep ==
    \/ UNCHANGED <<TableNow, read>>
    \/ \E k \in Ids :
          /\ TableNow[k] # None
          /\ read' = [id |-> k, material |-> TableNow[k]]
          /\ TableNow' = TableNow
    \/ \E k \in Ids, m \in Materials :
          /\ TableNow[k] = None
          /\ TableNow' = [TableNow EXCEPT ![k] = m]
          /\ read' = read
    \/ \E S \in SUBSET Ids :
          /\ TableNow' = [k \in Ids |-> IF k \in S THEN None ELSE TableNow[k]]
          /\ read' = read

LEMMA TableStepRefines == TableStep => [Table!TableNext]_<<TableNow, read>>
  BY DEF TableStep, TableNow, KeyOf, Table!TableNext, Table!Read, Table!Add,
         Table!Remove

(* Steps that change neither files nor volatile keys nor what was read.    *)
LEMMA TableUnchanged ==
    ASSUME UNCHANGED <<stored, made, read>>
    PROVE  TableStep
  BY DEF TableStep, TableNow, KeyOf

(* Steps after which one key is there that was not there.                  *)
LEMMA TableAdds ==
    ASSUME NEW k \in Ids, NEW m \in Materials, KeyOf(k) = None, KeyOf(k)' = m,
           \A j \in Ids \ {k} : KeyOf(j)' = KeyOf(j), read' = read
    PROVE  TableStep
<1>1. TableNow[k] = None
  BY DEF TableNow
<1>2. TableNow' = [TableNow EXCEPT ![k] = m]
  BY DEF TableNow
<1>3. QED
  BY <1>1, <1>2 DEF TableStep

(* Steps after which keys are gone.                                        *)
LEMMA TableRemoves ==
    ASSUME NEW S \in SUBSET Ids, \A k \in S : KeyOf(k)' = None,
           \A k \in Ids \ S : KeyOf(k)' = KeyOf(k), read' = read
    PROVE  TableStep
<1>1. TableNow' = [k \in Ids |-> IF k \in S THEN None ELSE TableNow[k]]
  BY DEF TableNow
<1>2. QED
  BY <1>1 DEF TableStep

LEMMA UseReads ==
    ASSUME NEW t \in Tasks, CacheInv(t), Use(t)
    PROVE  TableStep
<1>1. PICK i \in Slots :
         /\ i = src[t] /\ slots[i].occupied /\ slots[i].id = call[t].key
         /\ call[t].key \in Ids /\ Whole(t, i)
  <2>1. pc[t] = "found" /\ src[t] \in Slots /\ dst[t] = NoSlot
        /\ call[t].key \in Ids
    BY DEF Use, CacheInv, LockInv, TypeInv, PointersMatchPc, SourceLabels
  <2>2. slots[src[t]].occupied /\ slots[src[t]].id = call[t].key
    BY <2>1 DEF CacheInv, LockInv, SlotsInUseOccupied, CallKnowsKey
  <2>3. QED
    BY <2>1, <2>2, SlotsAreNaturals DEF Whole
<1> DEFINE k == call[t].key
<1>2. slots[i].data \in Materials /\ slots[i].data = KeyOf(k)
  <2>1. /\ slots[i].data \in Materials
        /\ slots[i].data = IF slots[i].persistent THEN stored[slots[i].id]
                                                  ELSE made[VolatileId(i)]
    BY <1>1 DEF CacheInv, ContentsRight
  <2>2. IF slots[i].persistent THEN k \in PersistentIds ELSE k = VolatileId(i)
    BY <1>1 DEF CacheInv, SlotsNamed
  <2>3. QED
    BY <1>1, <2>1, <2>2, VolatileIdsDisjoint DEF KeyOf
<1>3. TableNow[k] = slots[i].data /\ slots[i].data # None
  BY <1>1, <1>2, SlotsAssumption DEF TableNow
<1>4. read' = [id |-> k, material |-> TableNow[k]] /\ TableNow' = TableNow
  BY <1>1, <1>3 DEF Use, TableNow, KeyOf
<1>5. QED
  BY <1>1, <1>3, <1>4 DEF TableStep

LEMMA EraseRemoves ==
    ASSUME NEW t \in Tasks, CacheInv(t), Erase(t)
    PROVE  TableStep
<1>1. TypeOK /\ made' = made /\ read' = read
  BY DEF Erase, CacheInv, LockInv, TypeInv
<1>2. CASE stored' = stored
  BY <1>1, <1>2, TableUnchanged
<1>3. ASSUME NEW k \in PersistentIds, stored' = [stored EXCEPT ![k] = Absent]
      PROVE  TableStep
  <2>1. k \in Ids /\ k \notin VolatileIds
    BY VolatileIdsDisjoint DEF Ids
  <2>2. KeyOf(k)' = None
    BY <1>1, <1>3, <2>1, SlotsAssumption DEF KeyOf, TypeOK
  <2>3. \A j \in Ids \ {k} : KeyOf(j)' = KeyOf(j)
    BY <1>1, <1>3 DEF KeyOf, TypeOK, Ids
  <2>4. /\ {k} \in SUBSET Ids
        /\ \A j \in {k} : KeyOf(j)' = None
    BY <2>1, <2>2
  <2>5. QED
    BY <1>1, <2>3, <2>4, TableRemoves
<1>4. stored' = stored
      \/ \E k \in PersistentIds : stored' = [stored EXCEPT ![k] = Absent]
  <2>1. CASE slots[src[t]].id \in PersistentIds
    <3> DEFINE k == slots[src[t]].id
    <3>1. PICK f \in {Absent, stored[k]} : stored' = [stored EXCEPT ![k] = f]
      BY <2>1 DEF Erase, DestroyResults
    <3>2. QED
      BY <1>1, <2>1, <3>1 DEF TypeOK
  <2>2. CASE slots[src[t]].id \notin PersistentIds
    BY <2>2 DEF Erase
  <2>3. QED
    BY <2>1, <2>2
<1>5. QED
  BY <1>2, <1>3, <1>4

LEMMA ForgetRemoves ==
    ASSUME NEW k, Forget(k), stored' = stored, read' = read, TypeOK
    PROVE  TableStep
<1> DEFINE S == {k} \cap VolatileIds
<1>1. S \in SUBSET Ids
  BY DEF Ids
<1>2. \A j \in S : KeyOf(j)' = None
  BY DEF KeyOf, Forget
<1>3. \A j \in Ids \ S : KeyOf(j)' = KeyOf(j)
  BY DEF KeyOf, Forget
<1> HIDE DEF S
<1>4. QED
  BY <1>1, <1>2, <1>3, TableRemoves

LEMMA WipeRemoves ==
    ASSUME NEW t \in Tasks, CacheInv(t), DestroyWipe(t) \/ Close(t)
    PROVE  TableStep
<1>1. TypeOK /\ stored' = stored /\ read' = read
      /\ (Forget(slots[src[t]].id) \/ made' = made)
  BY DEF DestroyWipe, Close, CacheInv, LockInv, TypeInv
<1>2. QED
  BY <1>1, ForgetRemoves, TableUnchanged

LEMMA FinishAdds ==
    ASSUME NEW t \in Tasks, CacheInv(t), Finish(t)
    PROVE  TableStep
<1>1. TypeOK /\ pc[t] = "finish" /\ made' = made /\ read' = read
  BY DEF Finish, CacheInv, LockInv, TypeInv
<1>0. PICK k : k = slots[dst[t]].id
  OBVIOUS
<1>2. slots[dst[t]].data \in Materials
  BY <1>1 DEF CacheInv, CallKnowsKey
<1>3. CASE stored' = stored
  BY <1>1, <1>3, TableUnchanged
<1>4. ASSUME k \in PersistentIds, stored[k] = Absent,
             NEW f \in {slots[dst[t]].data, Torn}, stored' = [stored EXCEPT ![k] = f]
      PROVE  TableStep
  <2>1. k \in Ids /\ k \notin VolatileIds
    BY <1>4, VolatileIdsDisjoint DEF Ids
  <2>2. KeyOf(k) = None /\ KeyOf(k)' = IF f \in Materials THEN f ELSE None
    BY <1>1, <1>4, <2>1, SlotsAssumption DEF KeyOf, TypeOK
  <2>3. \A j \in Ids \ {k} : KeyOf(j)' = KeyOf(j)
    BY <1>1, <1>4 DEF KeyOf, TypeOK, Ids
  <2>4. CASE f \in Materials
    BY <1>1, <2>1, <2>2, <2>3, <2>4, TableAdds
  <2>5. CASE f \notin Materials
    <3>1. /\ {k} \in SUBSET Ids
          /\ \A j \in {k} : KeyOf(j)' = None
      BY <2>1, <2>2, <2>5
    <3>2. QED
      BY <1>1, <2>3, <3>1, TableRemoves
  <2>6. QED
    BY <2>4, <2>5
<1>5. \/ stored' = stored
      \/ /\ k \in PersistentIds /\ stored[k] = Absent
         /\ \E f \in {slots[dst[t]].data, Torn} :
               stored' = [stored EXCEPT ![k] = f]
  BY <1>0, <1>1 DEF Finish, SaveResults, TypeOK
<1>6. QED
  BY <1>3, <1>4, <1>5

LEMMA ReleaseAdds ==
    ASSUME NEW t \in Tasks, CacheInv(t), Release(t)
    PROVE  TableStep
<1>1. TypeOK /\ pc[t] = "release" /\ stored' = stored /\ read' = read
  BY DEF Release, CacheInv, LockInv, TypeInv
<1>2. PICK i \in Slots :
         /\ i = dst[t] /\ slots[i].occupied /\ slots[i].lock = 1
         /\ made[VolatileId(i)] = None /\ slots[i].data \in Materials
  BY <1>1, TargetApart DEF TargetLabels, CacheInv, CallKnowsKey
<1>3. made' = IF slots[i].id \in VolatileIds
              THEN [made EXCEPT ![slots[i].id] = slots[i].data] ELSE made
  BY <1>2 DEF Release
<1>4. CASE slots[i].id \notin VolatileIds
  BY <1>1, <1>3, <1>4, TableUnchanged
<1>5. CASE slots[i].id \in VolatileIds
  <2>0. PICK k : k = slots[i].id
    OBVIOUS
  <2>1. k \in Ids /\ k = VolatileId(i)
    BY <1>2, <1>5, <2>0, VolatileIdsDisjoint DEF Ids, CacheInv, SlotsNamed
  <2>2. PICK m \in Materials : m = slots[i].data
    BY <1>2
  <2>3. k \in VolatileIds /\ made' = [made EXCEPT ![k] = m]
    BY <1>3, <1>5, <2>0, <2>2
  <2>4. KeyOf(k) = None /\ KeyOf(k)' = m
    BY <1>1, <1>2, <2>1, <2>3 DEF KeyOf, TypeOK
  <2>5. \A j \in Ids \ {k} : KeyOf(j)' = KeyOf(j)
    BY <1>1, <2>3 DEF KeyOf, TypeOK
  <2>6. QED
    BY <1>1, <2>1, <2>4, <2>5, TableAdds
<1>6. QED
  BY <1>4, <1>5

LEMMA FreeRemoves ==
    ASSUME FreeLibrary
    PROVE  TableStep
<1>1. /\ stored' = stored /\ read' = read
      /\ made' = [k \in VolatileIds |-> None]
  BY DEF FreeLibrary
<1>2. VolatileIds \in SUBSET Ids
  BY DEF Ids
<1>3. /\ \A k \in VolatileIds : KeyOf(k)' = None
      /\ \A k \in Ids \ VolatileIds : KeyOf(k)' = KeyOf(k)
  BY <1>1 DEF KeyOf
<1>4. QED
  BY <1>1, <1>2, <1>3, TableRemoves

LEMMA CallRefines ==
    ASSUME NEW t \in Tasks, CacheInv(t), Begin(t) \/ Continue(t)
    PROVE  TableStep
<1>1. CASE UNCHANGED <<stored, made, read>>
  BY <1>1, TableUnchanged
<1>2. CASE Continue(t)
  <2>1. CASE \/ FindSlot(t) \/ Load(t) \/ UnlockDangling(t) \/ UnlockSource(t)
            \/ Refuse(t) \/ DestroyCheck(t) \/ CopyBegin(t) \/ Fill(t) \/ Fail(t)
    <3>1. UNCHANGED <<stored, made, read>>
      BY <2>1 DEF FindSlot, Load, UnlockDangling, UnlockSource, Refuse,
                  DestroyCheck, CopyBegin, Fill, Fail
    <3>2. QED
      BY <1>1, <3>1
  <2>2. QED
    BY <1>2, <2>1, UseReads, EraseRemoves, WipeRemoves, FinishAdds, ReleaseAdds
    DEF Continue
<1>3. CASE Begin(t)
  <2>1. UNCHANGED <<stored, made, read>>
    BY <1>3 DEF Begin, Lookup, CloseLookup, MakeBegin
  <2>2. QED
    BY <1>1, <2>1
<1>4. QED
  BY <1>2, <1>3

LEMMA StepRefines == TurnsInv /\ [TurnsNext]_vars => TableStep
<1> SUFFICES ASSUME TurnsInv, [TurnsNext]_vars PROVE TableStep
  OBVIOUS
<1>1. ASSUME NEW t \in Tasks, (AllIdle /\ Begin(t)) \/ Continue(t)
      PROVE  TableStep
  BY <1>1, OneMoves, CallRefines
<1>2. CASE InitLibrary \/ UNCHANGED vars
  BY <1>2, TableUnchanged DEF InitLibrary, vars
<1>3. QED
  BY <1>1, <1>2, FreeRemoves DEF TurnsNext

LEMMA InitRefines == Init => Table!TableInit
<1> SUFFICES ASSUME Init PROVE Table!TableInit
  OBVIOUS
<1>1. \A k \in Ids : KeyOf(k) \in Materials \cup {None}
  BY DEF Init, KeyOf, Ids
<1>2. TableNow \in [Ids -> Materials \cup {None}]
  BY <1>1 DEF TableNow
<1>3. QED
  BY <1>2 DEF TableNow, KeyOf, Init, Table!TableInit

(* ImplementsKeyTable: when tasks take turns the slot table, its locks,    *)
(* loads and evictions are not seen by callers: every use of an id reads   *)
(* the key that the table of keys holds for it.                            *)
THEOREM SlotsImplementTable ==
    ASSUME Tasks # {}
    PROVE  TurnsSpec => ImplementsKeyTable
<1>1. TurnsInv /\ [TurnsNext]_vars => [Table!TableNext]_<<TableNow, read>>
  BY StepRefines, TableStepRefines
<1>2. QED
  BY <1>1, TurnsInvariance, InitRefines, PTL
  DEF TurnsSpec, ImplementsKeyTable, Table!TableSpec, TableNow, KeyOf
=============================================================================
