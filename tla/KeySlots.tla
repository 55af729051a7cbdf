------------------------------ MODULE KeySlots ------------------------------
(***************************************************************************)
(* The key slot table (src/psa_layer/psa_crypto_slot_management.c) and the *)
(* life cycle of keys that runs on it (src/psa_layer/psa_crypto.c): every  *)
(* API call that names or makes a key, one action per internal call it     *)
(* makes on the table or on storage.  The table is a cache of persistent   *)
(* keys and the only home of volatile ones.  There is no lock around any   *)
(* of it: Tasks are the callers, and their calls interleave.               *)
(*                                                                         *)
(* Storage is seen as psa_crypto_storage.c shows it to this layer: a key   *)
(* file per id that is absent, torn or whole, and calls whose results are  *)
(* those of KeyFileResults, which KeyStorage implements.                   *)
(***************************************************************************)
EXTENDS Integers, FiniteSets, KeyFileResults

CONSTANTS
    Tasks,          \* the callers of the library
    SlotCount,      \* IOTEX_PSA_KEY_SLOT_COUNT
    PersistentIds,  \* ids that applications give to persistent keys
    VolatileMin,    \* PSA_KEY_ID_VOLATILE_MIN
    Materials       \* key material, as it is exported and stored

None == "none"

ASSUME SlotsAssumption ==
    /\ SlotCount \in Nat \ {0}
    /\ VolatileMin \in Nat \ {0}
    /\ PersistentIds \subseteq 1 .. VolatileMin - 1
    /\ Materials \cap {None, Absent, Torn} = {}

Slots == 0 .. SlotCount - 1
NoSlot == -1
NullId == 0             \* IOTEX_SVC_KEY_ID_INIT
VolatileId(i) == VolatileMin + i
VolatileIds == {VolatileId(i) : i \in Slots}
Ids == PersistentIds \cup VolatileIds

VARIABLES
    slots,          \* global_data.key_slots
    initialized,    \* global_data.key_slots_initialized
    stored,         \* stored[k]: the key file of persistent id k
    pc,             \* pc[t]: where the call of task t is
    call,           \* call[t]: the operation, the id it names and, when it
                    \* makes a key, the id asked for (NullId: a volatile one)
    src,            \* src[t]: the slot pointer of the key it uses
    dst,            \* dst[t]: the slot pointer of the key it makes
    made,           \* history: made[k], the volatile key that k names
    read            \* history: the last use of a key, and what it read

vars == <<slots, initialized, stored, pc, call, src, dst, made, read>>

(* psa_key_slot_t; occupied stands for a type that is not zero, and        *)
(* persistent for a lifetime that is not PSA_KEY_LIFETIME_VOLATILE, zero.  *)
Slot == [id : Ids \cup {NullId}, persistent : BOOLEAN, occupied : BOOLEAN,
         lock : Nat, data : Materials \cup {None}]
ZeroSlot == [id |-> NullId, persistent |-> FALSE, occupied |-> FALSE,
             lock |-> 0, data |-> None]

UseOps == {"export", "sign", "open", "destroy", "copy"}
MakeOps == {"generate", "import"}
NoCall == [op |-> "none", key |-> NullId, new |-> NullId]
Calls == [op : UseOps \cup MakeOps \cup {"close", "purge", "none"},
          key : Ids \cup {NullId}, new : PersistentIds \cup {NullId}]

Labels == { "idle", "find", "load", "found", "unlock", "dangling", "erase",
            "wipe", "closing", "fill", "finish", "release", "fail" }

TypeOK ==
    /\ slots \in [Slots -> Slot]
    /\ initialized \in BOOLEAN
    /\ stored \in [PersistentIds -> Materials \cup {Absent, Torn}]
    /\ pc \in [Tasks -> Labels]
    /\ call \in [Tasks -> Calls]
    /\ src \in [Tasks -> Slots \cup {NoSlot}]
    /\ dst \in [Tasks -> Slots \cup {NoSlot}]
    /\ made \in [VolatileIds -> Materials \cup {None}]
    /\ read \in [id : Ids \cup {NullId}, material : Materials \cup {None}]

(* After a reset: storage holds whatever earlier runs have left there.     *)
Init ==
    /\ slots = [i \in Slots |-> ZeroSlot]
    /\ initialized = FALSE
    /\ stored \in [PersistentIds -> Materials \cup {Absent, Torn}]
    /\ pc = [t \in Tasks |-> "idle"]
    /\ call = [t \in Tasks |-> NoCall]
    /\ src = [t \in Tasks |-> NoSlot]
    /\ dst = [t \in Tasks |-> NoSlot]
    /\ made = [k \in VolatileIds |-> None]
    /\ read = [id |-> NullId, material |-> None]

Goto(t, label) == pc' = [pc EXCEPT ![t] = label]

Return(t) ==
    /\ Goto(t, "idle")
    /\ call' = [call EXCEPT ![t] = NoCall]
    /\ src' = [src EXCEPT ![t] = NoSlot]
    /\ dst' = [dst EXCEPT ![t] = NoSlot]

-----------------------------------------------------------------------------
(* The slot table *)

Update(i, s) == slots' = [slots EXCEPT ![i] = s]
Lock(i) == Update(i, [slots[i] EXCEPT !.lock = @ + 1])
Unlocked_Unchecked(i) ==    \* mutant: the count is not compared with 0
    [slots[i] EXCEPT !.lock = @ - 1]
Unlocked(i) == [slots[i] EXCEPT !.lock = IF @ > 0 THEN @ - 1 ELSE 0]
Unlock(i) == Update(i, Unlocked(i))
Wipe(i) == Update(i, ZeroSlot)
First(S) == CHOOSE i \in S : \A j \in S : i <= j

(* psa_get_and_lock_key_slot_in_memory: the slot of key k, or NoSlot.      *)
SlotInMemory(k) ==
    IF k \in VolatileIds
    THEN IF slots[k - VolatileMin].id = k THEN k - VolatileMin ELSE NoSlot
    ELSE LET found == {i \in Slots : slots[i].id = k}
         IN  IF found = {} THEN NoSlot ELSE First(found)

(* psa_get_empty_key_slot: the slot it selects, or NoSlot, and what is in  *)
(* it when the call returns, locked.                                       *)
EmptySlot_EvictsLocked ==   \* mutant: a slot in use may be recycled
    LET free == {i \in Slots : ~ slots[i].occupied}
        evictable == {i \in Slots : slots[i].persistent}
    IN  IF free # {} THEN First(free)
        ELSE IF evictable # {} THEN First(evictable)
        ELSE NoSlot

EmptySlot_EvictsVolatile == \* mutant: the lifetime is not looked at
    LET free == {i \in Slots : ~ slots[i].occupied}
        evictable == {i \in Slots : slots[i].lock = 0}
    IN  IF free # {} THEN First(free)
        ELSE IF evictable # {} THEN First(evictable)
        ELSE NoSlot

EmptySlot ==
    LET free == {i \in Slots : ~ slots[i].occupied}
        evictable == {i \in Slots : slots[i].persistent /\ slots[i].lock = 0}
    IN  IF free # {} THEN First(free)
        ELSE IF evictable # {} THEN First(evictable)
        ELSE NoSlot

Claimed(i) ==
    IF slots[i].occupied THEN [ZeroSlot EXCEPT !.lock = 1]
                         ELSE [slots[i] EXCEPT !.lock = @ + 1]

-----------------------------------------------------------------------------
(* psa_get_and_lock_key_slot, at the head of every call that names a key.  *)
(* A call on a library that is not initialised fails and is not shown.     *)

Lookup(t, op, k, new) ==
    /\ pc[t] = "idle"
    /\ initialized
    /\ call' = [call EXCEPT ![t] = [op |-> op, key |-> k, new |-> new]]
    /\ LET i == SlotInMemory(k)
       IN  IF i # NoSlot
           THEN /\ Lock(i)
                /\ src' = [src EXCEPT ![t] = i]
                /\ Goto(t, "found")
           ELSE Goto(t, "find") /\ UNCHANGED <<slots, src>>
    /\ UNCHANGED <<initialized, stored, dst, made, read>>

FindSlot(t) ==
    /\ pc[t] = "find"
    /\ LET i == EmptySlot
       IN  IF i = NoSlot
           THEN Return(t) /\ UNCHANGED slots
           ELSE /\ Update(i, [Claimed(i) EXCEPT !.id = call[t].key,
                                                !.persistent = TRUE])
                /\ src' = [src EXCEPT ![t] = i]
                /\ Goto(t, "load")
                /\ UNCHANGED <<call, dst>>
    /\ UNCHANGED <<initialized, stored, made, read>>

(* psa_load_persistent_key_into_slot reads the file of the id that the     *)
(* slot holds by now.  It also fails when the slot already has material or *)
(* no memory is left, and a failure wipes the slot.  psa_sign_internal and *)
(* psa_copy_key then still unlock the slot they were given.                *)
LoadFails_NotWiped(t) ==   \* mutant: the slot is only unlocked
    /\ Unlock(src[t])
    /\ Return(t)

LoadFails(t) ==
    /\ Wipe(src[t])
    /\ IF call[t].op \in {"sign", "copy"}
       THEN Goto(t, "dangling") /\ UNCHANGED <<call, src, dst>>
       ELSE Return(t)

Load(t) ==
    /\ pc[t] = "load"
    /\ LET i == src[t]
           k == slots[i].id
       IN  \/ /\ k \in PersistentIds
              /\ stored[k] \in Materials
              /\ slots[i].data = None
              /\ Update(i, [slots[i] EXCEPT !.occupied = TRUE,
                                            !.persistent = TRUE,
                                            !.data = stored[k]])
              /\ Goto(t, "found")
              /\ UNCHANGED <<call, src, dst>>
           \/ LoadFails(t)
    /\ UNCHANGED <<initialized, stored, made, read>>

UnlockDangling(t) ==
    /\ pc[t] = "dangling"
    /\ Unlock(src[t])
    /\ Return(t)
    /\ UNCHANGED <<initialized, stored, made, read>>

(* The last thing every call does with a key it only uses.                 *)
UnlockSource(t) ==
    /\ pc[t] = "unlock"
    /\ Unlock(src[t])
    /\ Return(t)
    /\ UNCHANGED <<initialized, stored, made, read>>

-----------------------------------------------------------------------------
(* psa_export_key, psa_export_public_key, psa_get_key_attributes and       *)
(* psa_sign_internal, alike in what they do to slots; the policy of the    *)
(* key may refuse the use.                                                 *)
Use(t) ==
    /\ pc[t] = "found"
    /\ call[t].op \in {"export", "sign"}
    /\ read' = [id |-> call[t].key, material |-> slots[src[t]].data]
    /\ Goto(t, "unlock")
    /\ UNCHANGED <<slots, initialized, stored, call, src, dst, made>>

(* psa_get_and_lock_key_slot_with_policy refuses, psa_copy_key finds the   *)
(* attributes incompatible, or psa_open_key has all it wants.              *)
Refuse(t) ==
    /\ pc[t] = "found"
    /\ call[t].op \in {"export", "sign", "copy", "open"}
    /\ Unlock(src[t])
    /\ Return(t)
    /\ UNCHANGED <<initialized, stored, made, read>>

-----------------------------------------------------------------------------
(* psa_destroy_key *)

Forget(k) == made' = [v \in VolatileIds |-> IF v = k THEN None ELSE made[v]]

DestroyCheck(t) ==
    /\ pc[t] = "found"
    /\ call[t].op = "destroy"
    /\ IF slots[src[t]].lock > 1
       THEN Unlock(src[t]) /\ Return(t)
       ELSE /\ Goto(t, IF slots[src[t]].persistent THEN "erase" ELSE "wipe")
            /\ UNCHANGED <<slots, call, src, dst>>
    /\ UNCHANGED <<initialized, stored, made, read>>

(* psa_destroy_persistent_key may fail and leave the file as it was; its   *)
(* status does not stop the wipe.                                          *)
Erase(t) ==
    /\ pc[t] = "erase"
    /\ LET k == slots[src[t]].id
       IN  \/ /\ k \in PersistentIds
              /\ \E r \in DestroyResults(stored[k]) :
                    stored' = [stored EXCEPT ![k] = r.file]
           \/ k \notin PersistentIds /\ UNCHANGED stored
    /\ Goto(t, "wipe")
    /\ UNCHANGED <<slots, initialized, call, src, dst, made, read>>

Destroy_KeepsSlot(t) ==   \* mutant: only the file goes
    /\ pc[t] = "wipe"
    /\ Unlock(src[t])
    /\ Forget(slots[src[t]].id)
    /\ Return(t)
    /\ UNCHANGED <<initialized, stored, read>>

DestroyWipe(t) ==
    /\ pc[t] = "wipe"
    /\ Wipe(src[t])
    /\ Forget(slots[src[t]].id)
    /\ Return(t)
    /\ UNCHANGED <<initialized, stored, read>>

(* psa_close_key and psa_purge_key look in memory only.  Closing a         *)
(* volatile key destroys it; purging one does not.                         *)
CloseLookup(t, op, k) ==
    /\ pc[t] = "idle"
    /\ LET i == SlotInMemory(k)
       IN  /\ i # NoSlot
           /\ Lock(i)
           /\ src' = [src EXCEPT ![t] = i]
    /\ call' = [call EXCEPT ![t] = [op |-> op, key |-> k, new |-> NullId]]
    /\ Goto(t, "closing")
    /\ UNCHANGED <<initialized, stored, dst, made, read>>

Close(t) ==
    /\ pc[t] = "closing"
    /\ IF /\ slots[src[t]].lock <= 1
          /\ call[t].op = "purge" => slots[src[t]].persistent
       THEN Wipe(src[t]) /\ Forget(slots[src[t]].id)
       ELSE Unlock(src[t]) /\ UNCHANGED made
    /\ Return(t)
    /\ UNCHANGED <<initialized, stored, read>>

-----------------------------------------------------------------------------
(* psa_generate_key, psa_import_key and psa_copy_key                       *)

(* psa_start_key_creation takes a slot and writes the attributes in it;    *)
(* new = NullId asks for a volatile key.                                   *)
Started(i, new) ==
    [Claimed(i) EXCEPT !.id = IF new = NullId THEN VolatileId(i) ELSE new,
                       !.persistent = new # NullId,
                       !.occupied = TRUE]

MakeBegin(t, op, new) ==
    /\ pc[t] = "idle"
    /\ initialized
    /\ LET i == EmptySlot
       IN  /\ i # NoSlot
           /\ Update(i, Started(i, new))
           /\ dst' = [dst EXCEPT ![t] = i]
    /\ call' = [call EXCEPT ![t] = [op |-> op, key |-> NullId, new |-> new]]
    /\ Goto(t, "fill")
    /\ UNCHANGED <<initialized, stored, src, made, read>>

CopyBegin(t) ==
    /\ pc[t] = "found"
    /\ call[t].op = "copy"
    /\ LET i == EmptySlot
       IN  IF i = NoSlot
           THEN Goto(t, "unlock") /\ UNCHANGED <<slots, dst>>
           ELSE /\ Update(i, Started(i, call[t].new))
                /\ dst' = [dst EXCEPT ![t] = i]
                /\ Goto(t, "fill")
    /\ UNCHANGED <<initialized, stored, call, src, made, read>>

(* The material: generated, imported, or copied from the source slot.      *)
(* Copying fails when the slot has material already.                       *)
Fill(t) ==
    /\ pc[t] = "fill"
    /\ LET i == dst[t]
       IN  \/ \E m \in IF call[t].op = "copy" THEN {slots[src[t]].data}
                                              ELSE Materials :
                 /\ call[t].op = "copy" => slots[i].data = None
                 /\ Update(i, [slots[i] EXCEPT !.data = m])
                 /\ Goto(t, "finish")
           \/ Goto(t, "fail") /\ UNCHANGED slots
    /\ UNCHANGED <<initialized, stored, call, src, dst, made, read>>

(* psa_finish_key_creation saves a persistent key, which fails at once     *)
(* when its id or its material is not one that can be saved.               *)
Finish(t) ==
    /\ pc[t] = "finish"
    /\ LET s == slots[dst[t]]
           k == s.id
       IN  \/ ~ s.persistent /\ Goto(t, "release") /\ UNCHANGED stored
           \/ /\ s.persistent /\ k \in PersistentIds /\ s.data # None
              /\ \E r \in SaveResults(stored[k], s.data) :
                    /\ stored' = [stored EXCEPT ![k] = r.file]
                    /\ Goto(t, IF r.status = "done" THEN "release" ELSE "fail")
           \/ /\ s.persistent /\ (k \notin PersistentIds \/ s.data = None)
              /\ UNCHANGED stored /\ Goto(t, "fail")
    /\ UNCHANGED <<slots, initialized, call, src, dst, made, read>>

(* A copy goes on to unlock its source; the others return.                 *)
AfterMaking(t) ==
    IF call[t].op = "copy"
    THEN /\ Goto(t, "unlock")
         /\ dst' = [dst EXCEPT ![t] = NoSlot]
         /\ UNCHANGED <<call, src>>
    ELSE Return(t)

Release(t) ==
    /\ pc[t] = "release"
    /\ LET s == slots[dst[t]]
       IN  IF s.lock > 0
           THEN /\ Unlock(dst[t])
                /\ AfterMaking(t)
                /\ made' = IF s.id \in VolatileIds
                           THEN [made EXCEPT ![s.id] = s.data] ELSE made
           ELSE Goto(t, "fail") /\ UNCHANGED <<slots, call, src, dst, made>>
    /\ UNCHANGED <<initialized, stored, read>>

(* psa_fail_key_creation *)
Fail_KeepsSlot(t) ==   \* mutant: the slot is not wiped
    /\ pc[t] = "fail"
    /\ Unlock(dst[t])
    /\ AfterMaking(t)
    /\ UNCHANGED <<initialized, stored, made, read>>

Fail(t) ==
    /\ pc[t] = "fail"
    /\ Wipe(dst[t])
    /\ AfterMaking(t)
    /\ UNCHANGED <<initialized, stored, made, read>>

-----------------------------------------------------------------------------
(* psa_crypto_init and iotex_psa_crypto_free, which no call may overlap.   *)

AllIdle == \A t \in Tasks : pc[t] = "idle"

InitLibrary ==
    /\ ~ initialized
    /\ initialized' = TRUE
    /\ UNCHANGED <<slots, stored, pc, call, src, dst, made, read>>

FreeLibrary ==
    /\ initialized
    /\ AllIdle
    /\ slots' = [i \in Slots |-> ZeroSlot]
    /\ made' = [k \in VolatileIds |-> None]
    /\ initialized' = FALSE
    /\ UNCHANGED <<stored, pc, call, src, dst, read>>

Begin(t) ==
    \/ \E k \in Ids :
          \/ \E op \in UseOps \ {"copy"} : Lookup(t, op, k, NullId)
          \/ \E op \in {"close", "purge"} : CloseLookup(t, op, k)
          \/ \E new \in PersistentIds \cup {NullId} : Lookup(t, "copy", k, new)
    \/ \E op \in MakeOps, new \in PersistentIds \cup {NullId} :
          MakeBegin(t, op, new)

Continue(t) ==
    \/ FindSlot(t) \/ Load(t) \/ UnlockDangling(t) \/ UnlockSource(t)
    \/ Use(t) \/ Refuse(t)
    \/ DestroyCheck(t) \/ Erase(t) \/ DestroyWipe(t) \/ Close(t)
    \/ CopyBegin(t) \/ Fill(t) \/ Finish(t) \/ Release(t) \/ Fail(t)

Next ==
    \/ \E t \in Tasks : Begin(t) \/ Continue(t)
    \/ InitLibrary \/ FreeLibrary

Spec == Init /\ [][Next]_vars

(* The same in a program whose tasks take turns: a call begins only when   *)
(* no other is under way.                                                  *)
TurnsNext ==
    \/ \E t \in Tasks : (AllIdle /\ Begin(t)) \/ Continue(t)
    \/ InitLibrary \/ FreeLibrary

TurnsSpec == Init /\ [][TurnsNext]_vars

-----------------------------------------------------------------------------
Using(t, i) == src[t] = i /\ pc[t] # "dangling"
Making(t, i) == dst[t] = i

(* The lock count of a slot is the number of pointers to it that calls in  *)
(* progress hold (psa_key_slot_t, "Number of locks on the key slot held by *)
(* the library"): none is leaked on any path, so an idle library can evict *)
(* every persistent key.                                                   *)
LockCountsMatch ==
    \A i \in Slots :
        slots[i].lock = Cardinality({t \in Tasks : Using(t, i)})
                        + Cardinality({t \in Tasks : Making(t, i)})

(* A slot that is free to be taken is "in its ground state                 *)
(* (all-bits-zero)", as psa_get_empty_key_slot promises its callers: no    *)
(* failed or finished call leaves an id or material behind.                *)
FreeSlotsAreZero ==
    \A i \in Slots :
        ~ slots[i].occupied /\ slots[i].lock = 0 => slots[i] = ZeroSlot

(* No call is in the middle of filling or emptying slot i.                 *)
Settled(i) ==
    \A t \in Tasks :
        ~ Making(t, i) /\ ~ (Using(t, i) /\ pc[t] \in {"load", "wipe"})

(* A key is in one slot at most, and what is there is the key of that id:  *)
(* the stored one, or the volatile one made in that very slot.  The code   *)
(* looks up the first slot with the id and never compares it with storage. *)
CacheIsCoherent ==
    \A i \in Slots : slots[i].occupied /\ Settled(i) =>
        /\ slots[i].data =
              IF slots[i].persistent THEN stored[slots[i].id]
                                     ELSE made[VolatileId(i)]
        /\ slots[i].persistent <=> slots[i].id \in PersistentIds
        /\ \A j \in Slots \ {i} : slots[j].id = slots[i].id => ~ Settled(j)

(* A volatile key stays in its slot, whatever keys are loaded, copied or   *)
(* evicted, until it is destroyed or closed: it has no other home.         *)
VolatileKeysStay ==
    \A i \in Slots :
        made[VolatileId(i)] # None =>
            /\ slots[i].id = VolatileId(i)
            /\ slots[i].data = made[VolatileId(i)]

(* What callers see: a table of keys in which each use of an id reads the  *)
(* key it names, and slots, locks, loads and evictions do not show.        *)
Table ==
    INSTANCE KeyTable WITH
        table <- [k \in Ids |->
                    IF k \in VolatileIds THEN made[k]
                    ELSE IF stored[k] \in Materials THEN stored[k] ELSE None],
        answer <- read

ImplementsKeyTable == Table!TableSpec

(* A key is not destroyed under a task that is using it: lock_count "is    *)
(* used to prevent resetting the key slot while the library may access     *)
(* it", for example "where one thread asks to close or purge or destroy a  *)
(* key while it is in used by the library through another thread".         *)
LockedSlotNotReset ==
    [][\A t, u \in Tasks :
            /\ u # t /\ src[u] = src[t]
            /\ pc[t] \in {"found", "unlock"}
            /\ pc[u] = "wipe" /\ pc'[u] = "idle"
         => slots'[src[t]] # ZeroSlot]_vars
=============================================================================
