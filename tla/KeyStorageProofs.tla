-------------------------- MODULE KeyStorageProofs --------------------------
(***************************************************************************)
(* Proofs about KeyStorage, for any set of keys, of key files and of       *)
(* driver faults.                                                          *)
(***************************************************************************)
EXTENDS KeyStorage, TLAPS

LEMMA PutBlobsType ==
    ASSUME ItsTypeOK, NEW u \in Uids, NEW e \in Entry, PutBlobs(u, e)
    PROVE  nvs' \in [Uids -> Entry] /\ durable' \in [Uids -> Entry]
  BY DEF ItsTypeOK, PutBlobs

(* A call under way carries the arguments its program point needs.         *)
CallMatchesPc ==
    /\ its_pc \in {"opened", "header_set", "header_committed", "data_set"}
          => its_call \in [op : {"set"}, uid : Uids, value : Values]
    /\ its_pc = "erasing" => its_call \in [op : {"remove"}, uid : Uids]
    /\ its_pc = "idle" => its_call = NoCall
    /\ ks_pc \in {"store_set", "store_cleanup"}
          => ks_call \in [op : {"store"}, key : Keys, file : Values,
                          status : Statuses]
    /\ ks_pc = "destroy_remove" => ks_call \in [op : {"destroy"}, key : Keys]

TypeInv == KsTypeOK /\ CallMatchesPc

LEMMA TypeInit == Init => TypeInv
  BY ItsAssumption
  DEF Init, ItsInit, TypeInv, KsTypeOK, ItsTypeOK, CallMatchesPc, Entry, Erased,
      ItsCalls, KsCalls

LEMMA ErasedIsEntry == Erased \in Entry
  BY DEF Erased, Entry

LEMMA ItsStepType ==
    ASSUME TypeInv, ItsProgress
    PROVE  TypeInv'
<1> USE DEF TypeInv, KsTypeOK, ItsTypeOK, CallMatchesPc, ItsProgress, ksVars,
            ItsGoto, ItsReturn, Statuses
<1>1. CASE SetHeader
  <2>1. [nvs[its_call.uid] EXCEPT !.header = SizeOf[its_call.value]] \in Entry
    BY <1>1 DEF SetHeader, Entry
  <2> QED  BY <1>1, <2>1, PutBlobsType DEF SetHeader, ItsCalls
<1>2. CASE CommitHeader
  BY <1>2 DEF CommitHeader, CommitBlobs
<1>3. CASE SetData
  <2>1. [nvs[its_call.uid] EXCEPT !.data = its_call.value] \in Entry
    BY <1>3 DEF SetData, Entry
  <2> QED  BY <1>3, <2>1, PutBlobsType DEF SetData, ItsCalls
<1>4. CASE CommitData
  BY <1>4 DEF CommitData, CommitBlobs, ItsCalls
<1>5. CASE EraseAll
  BY <1>5, ErasedIsEntry, PutBlobsType DEF EraseAll, ItsCalls
<1>6. QED
  BY <1>1, <1>2, <1>3, <1>4, <1>5 DEF ItsStep

LEMMA StoreStepType ==
    ASSUME TypeInv, StoreVerify \/ StoreCleanup \/ DestroyVerify
    PROVE  TypeInv'
<1> USE DEF TypeInv, KsTypeOK, ItsTypeOK, CallMatchesPc, itsVars, KsGoto,
            KsReturn, Statuses
<1>1. CASE StoreVerify
  <2> DEFINE k == ks_call.key
  <2>1. k \in Uids /\ ks_call.file \in Values
    BY <1>1 DEF StoreVerify, Keys
  <2>2. CASE its_ret # "SUCCESS" /\ KsReturn("DATA_INVALID")
             /\ UNCHANGED <<itsVars, promised>>
    BY <2>2 DEF KsCalls
  <2>3. CASE KsReturn("SUCCESS") /\ UNCHANGED itsVars
             /\ promised' = [promised EXCEPT ![k] = ks_call.file]
    BY <2>1, <2>3 DEF KsCalls, Keys
  <2>4. ASSUME NEW s \in Statuses, RemoveOpen(k), UNCHANGED promised,
               KsGoto("store_cleanup", [ks_call EXCEPT !.status = s])
        PROVE  TypeInv'
    <3>1. ks_call \in [op : {"store"}, key : Keys, file : Values,
                       status : Statuses]
      BY <1>1 DEF StoreVerify
    <3>2. [ks_call EXCEPT !.status = s] \in
             [op : {"store"}, key : Keys, file : Values, status : Statuses]
      BY <3>1
    <3>3. QED
      BY <2>1, <2>4, <3>2 DEF RemoveOpen, ItsReturn, KsCalls, ItsCalls
  <2>5. \A info \in GetInfo(k) : info.status \in Statuses
    BY DEF GetInfo
  <2>6. QED
    BY <1>1, <2>2, <2>3, <2>4, <2>5 DEF StoreVerify
<1>2. CASE StoreCleanup
  BY <1>2 DEF StoreCleanup, KsCalls
<1>3. CASE DestroyVerify
  BY <1>3 DEF DestroyVerify, KsCalls, Keys
<1>4. QED
  BY <1>1, <1>2, <1>3

LEMMA DestroyBeginType ==
    ASSUME TypeInv, NEW k \in Keys, DestroyBegin(k)
    PROVE  TypeInv'
BY DEF TypeInv, KsTypeOK, ItsTypeOK, CallMatchesPc, itsVars, KsGoto, KsReturn,
       Statuses, Keys, DestroyBegin, RemoveOpen, ItsReturn, ItsCalls, KsCalls

LEMMA StoreBeginType ==
    ASSUME TypeInv, NEW k \in Keys, NEW f \in Values, StoreBegin(k, f)
    PROVE  TypeInv'
BY DEF TypeInv, KsTypeOK, ItsTypeOK, CallMatchesPc, itsVars, KsGoto, KsReturn,
       Statuses, Keys, StoreBegin, SetOpen, ItsReturn, ItsCalls, KsCalls

LEMMA CrashType == ASSUME TypeInv, Crash PROVE TypeInv'
<1>1. ASSUME NEW u \in Uids PROVE Surviving(u) \subseteq Entry
  BY DEF Surviving, TypeInv, KsTypeOK, ItsTypeOK, Entry
<1>2. QED
  BY <1>1 DEF Crash, ItsCrash, TypeInv, KsTypeOK, ItsTypeOK, CallMatchesPc,
              ItsCalls, KsCalls

LEMMA TypeStep == TypeInv /\ [Next]_vars => TypeInv'
<1> SUFFICES ASSUME TypeInv, [Next]_vars PROVE TypeInv'
  OBVIOUS
<1>1. CASE UNCHANGED vars
  BY <1>1 DEF TypeInv, KsTypeOK, ItsTypeOK, CallMatchesPc, vars, itsVars, ksVars
<1>2. CASE Next
  BY <1>2, ItsStepType, StoreStepType, DestroyBeginType, StoreBeginType,
     CrashType
  DEF Next, Operation
<1>3. QED
  BY <1>1, <1>2

(* The type invariant of the storage stack.                                *)
THEOREM TypeCorrect == Spec => []KsTypeOK
<1>1. TypeInv => KsTypeOK
  BY DEF TypeInv
<1>2. QED
  BY <1>1, TypeInit, TypeStep, PTL DEF Spec

-----------------------------------------------------------------------------
(* A key reported as saved stays on the flash, unless the driver buffers   *)
(* and its commits fail.  SavedOnFlash alone is not inductive: the         *)
(* invariant says how much of the file a running store has written and     *)
(* made permanent, and that the key being changed is promised to nobody.   *)

(* psa_its_set does not look at the status of nvs_commit.                  *)
CommitsCount == "buffer" \in Faults => "commit" \notin Faults

WritesAreSeen == "buffer" \notin Faults => durable = nvs

WholeFile(f) == [header |-> SizeOf[f], data |-> f]

SavedKeysWhole ==
    \A k \in Keys :
        promised[k] \in Values =>
            nvs[k] = WholeFile(promised[k]) /\ durable[k] = nvs[k]

NoOperationNoCall == ks_pc = "idle" => its_pc = "idle"

CallIsUnsettled ==
    /\ its_pc # "idle" => promised[its_call.uid] = Unsettled
    /\ ks_pc # "idle" => promised[ks_call.key] = Unsettled

StoreCallsSet ==
    ks_pc = "store_set" /\ its_pc # "idle" =>
        its_call = [op |-> "set", uid |-> ks_call.key, value |-> ks_call.file]

OthersRemove == ks_pc \in {"store_cleanup", "destroy_remove"} =>
                    its_pc \in {"idle", "erasing"}

SetProgress ==
    ks_pc = "store_set" =>
        LET k == ks_call.key
            f == ks_call.file
            n == nvs[k]
            d == durable[k]
        IN  /\ its_pc = "header_set" => n.header = SizeOf[f]
            /\ its_pc = "header_committed"
                  => n.header = SizeOf[f] /\ d = n
            /\ its_pc = "data_set" => n = WholeFile(f)
            /\ its_pc = "idle" /\ its_ret = "SUCCESS"
                  => n = WholeFile(f) /\ d = n

SavedInv ==
    /\ TypeInv
    /\ WritesAreSeen
    /\ SavedKeysWhole
    /\ NoOperationNoCall
    /\ CallIsUnsettled
    /\ StoreCallsSet
    /\ OthersRemove
    /\ SetProgress

LEMMA SavedInit == Init => SavedInv
<1> SUFFICES ASSUME Init PROVE SavedInv
  OBVIOUS
<1>1. TypeInv
  BY TypeInit
<1>2. QED
  BY <1>1, ItsAssumption
  DEF Init, ItsInit, SavedInv, WritesAreSeen, SavedKeysWhole, NoOperationNoCall,
      CallIsUnsettled, StoreCallsSet, OthersRemove, SetProgress, Keys

(* A commit that may fail has nothing left to do.                          *)
LEMMA CommitSettles ==
    ASSUME CommitsCount, ItsTypeOK, WritesAreSeen, NEW u \in Uids, CommitBlobs(u)
    PROVE  nvs' = nvs /\ durable' = [durable EXCEPT ![u] = nvs[u]]
<1>1. CASE "commit" \notin Faults
  BY <1>1 DEF CommitBlobs
<1>2. CASE "buffer" \notin Faults
  <2>1. [durable EXCEPT ![u] = nvs[u]] = durable
    BY <1>2 DEF WritesAreSeen, ItsTypeOK
  <2>2. QED
    BY <2>1 DEF CommitBlobs
<1>3. QED
  BY <1>1, <1>2 DEF CommitsCount

LEMMA WritesStaySeen ==
    ASSUME TypeInv, WritesAreSeen, [Next]_vars
    PROVE  WritesAreSeen'
<1> SUFFICES ASSUME "buffer" \notin Faults, durable = nvs
             PROVE  durable' = nvs'
  BY DEF WritesAreSeen
<1>1. CASE ItsProgress
  BY <1>1
  DEF ItsProgress, ItsStep, SetHeader, CommitHeader, SetData, CommitData, EraseAll,
      PutBlobs, CommitBlobs, TypeInv, KsTypeOK, ItsTypeOK
<1>2. CASE Crash
  BY <1>2 DEF Crash, ItsCrash
<1>3. CASE UNCHANGED <<nvs, durable>>
  BY <1>3
<1>4. CASE StoreVerify \/ StoreCleanup \/ DestroyVerify \/ UNCHANGED vars
  BY <1>3, <1>4 DEF StoreVerify, StoreCleanup, DestroyVerify, RemoveOpen, itsVars, vars
<1>5. CASE \E k \in Keys : DestroyBegin(k) \/ \E f \in Values : StoreBegin(k, f)
  BY <1>3, <1>5 DEF DestroyBegin, StoreBegin, SetOpen, RemoveOpen, itsVars
<1>6. QED
  BY <1>1, <1>2, <1>4, <1>5 DEF Next, Operation

(* One blob of the key being changed is written: nobody was promised it.   *)
LEMMA SavedPut ==
    ASSUME SavedInv, its_pc # "idle", NEW e, PutBlobs(its_call.uid, e),
           UNCHANGED promised
    PROVE  SavedKeysWhole'
<1>1. promised[its_call.uid] \notin Values
  BY KeyFilesAreNotMarks DEF SavedInv, CallIsUnsettled
<1>2. QED
  BY <1>1 DEF SavedInv, SavedKeysWhole, PutBlobs, TypeInv, KsTypeOK, ItsTypeOK,
              Keys

LEMMA SavedItsStep ==
    ASSUME SavedInv, ItsProgress, CommitsCount
    PROVE  SavedInv'
<1> USE DEF SavedInv, ItsProgress, ksVars, ItsGoto, ItsReturn
<1>1. TypeInv' /\ WritesAreSeen'
  BY ItsStepType, WritesStaySeen DEF Next, Operation
<1>2. TypeInv
  OBVIOUS
<1> USE DEF NoOperationNoCall, CallIsUnsettled, StoreCallsSet, OthersRemove,
            SetProgress
<1>3. CASE SetHeader
  <2>1. SavedKeysWhole'
    BY <1>3, SavedPut DEF SetHeader, SavedKeysWhole
  <2>2. QED
    BY <1>1, <1>2, <1>3, <2>1
    DEF SetHeader, PutBlobs, TypeInv, KsTypeOK, ItsTypeOK, CallMatchesPc, Keys,
        Entry
<1>4. CASE CommitHeader
  <2>1. /\ its_call.uid \in Uids
        /\ nvs' = nvs /\ durable' = [durable EXCEPT ![its_call.uid] = nvs[its_call.uid]]
    BY <1>2, <1>4, CommitSettles
    DEF CommitHeader, TypeInv, KsTypeOK, CallMatchesPc
  <2>2. QED
    BY <1>1, <1>2, <1>4, <2>1
    DEF CommitHeader, SavedKeysWhole, TypeInv, KsTypeOK, ItsTypeOK,
      CallMatchesPc, Keys
<1>5. CASE SetData
  <2>1. SavedKeysWhole'
    BY <1>5, SavedPut DEF SetData, SavedKeysWhole
  <2>2. QED
    BY <1>1, <1>2, <1>5, <2>1
    DEF SetData, PutBlobs, TypeInv, KsTypeOK, ItsTypeOK, CallMatchesPc, Keys,
        Entry, WholeFile
<1>6. CASE CommitData
  <2>1. /\ its_call.uid \in Uids
        /\ nvs' = nvs /\ durable' = [durable EXCEPT ![its_call.uid] = nvs[its_call.uid]]
    BY <1>2, <1>6, CommitSettles
    DEF CommitData, TypeInv, KsTypeOK, CallMatchesPc
  <2>2. QED
    BY <1>1, <1>2, <1>6, <2>1
    DEF CommitData, SavedKeysWhole, TypeInv, KsTypeOK, ItsTypeOK,
      CallMatchesPc, Keys
<1>7. CASE EraseAll
  <2>1. SavedKeysWhole'
    BY <1>7, SavedPut DEF EraseAll, SavedKeysWhole
  <2>2. QED
    BY <1>1, <1>2, <1>7, <2>1
    DEF EraseAll, PutBlobs, TypeInv, KsTypeOK, ItsTypeOK, CallMatchesPc, Keys
<1>8. QED
  BY <1>3, <1>4, <1>5, <1>6, <1>7 DEF ItsStep


LEMMA SavedStoreStep ==
    ASSUME SavedInv, StoreVerify \/ StoreCleanup \/ DestroyVerify
    PROVE  SavedInv'
<1>1. TypeInv' /\ WritesAreSeen'
  BY StoreStepType, WritesStaySeen DEF SavedInv, Next, Operation
<1> USE DEF SavedInv, NoOperationNoCall, CallIsUnsettled, StoreCallsSet,
            OthersRemove, SetProgress, itsVars, KsGoto, KsReturn
<1>2. CASE StoreVerify
  <2> DEFINE k == ks_call.key
  <2>1. k \in Keys /\ ks_call.file \in Values /\ promised \in [Keys -> Values \cup {None, Unsettled}]
    BY <1>2 DEF StoreVerify, TypeInv, CallMatchesPc, KsTypeOK
  <2>2. CASE its_ret # "SUCCESS" /\ KsReturn("DATA_INVALID")
             /\ UNCHANGED <<itsVars, promised>>
    BY <1>1, <1>2, <2>2 DEF StoreVerify, SavedKeysWhole
  <2>3. CASE /\ its_ret = "SUCCESS" /\ KsReturn("SUCCESS") /\ UNCHANGED itsVars
             /\ promised' = [promised EXCEPT ![k] = ks_call.file]
    <3>1. nvs[k] = WholeFile(ks_call.file) /\ durable[k] = nvs[k]
      BY <1>2, <2>3 DEF StoreVerify
    <3>2. SavedKeysWhole'
      BY <2>1, <2>3, <3>1 DEF SavedKeysWhole
    <3>3. QED
      BY <1>1, <1>2, <2>3, <3>2 DEF StoreVerify
  <2>4. ASSUME NEW s, RemoveOpen(k), UNCHANGED promised,
               KsGoto("store_cleanup", [ks_call EXCEPT !.status = s])
        PROVE  SavedInv'
    <3>1. ks_call \in [op : {"store"}, key : Keys, file : Values,
                       status : Statuses]
      BY <1>2 DEF StoreVerify, TypeInv, CallMatchesPc
    <3>2. ks_call'.key = k /\ promised[k] = Unsettled
      BY <1>2, <2>4, <3>1 DEF StoreVerify
    <3>3. SavedKeysWhole'
      BY <2>4 DEF RemoveOpen, SavedKeysWhole
    <3>4. QED
      BY <1>1, <2>4, <3>2, <3>3 DEF RemoveOpen, ItsReturn
  <2>5. QED
    BY <1>2, <2>2, <2>3, <2>4 DEF StoreVerify
<1>3. CASE StoreCleanup
  BY <1>1, <1>3 DEF StoreCleanup, SavedKeysWhole
<1>4. CASE DestroyVerify
  <2>1. None \notin Values /\ promised \in [Keys -> Values \cup {None, Unsettled}]
    BY ItsAssumption DEF TypeInv, KsTypeOK
  <2>2. SavedKeysWhole'
    BY <1>4, <2>1 DEF DestroyVerify, SavedKeysWhole
  <2>3. QED
    BY <1>1, <1>4, <2>2 DEF DestroyVerify
<1>5. QED
  BY <1>2, <1>3, <1>4

LEMMA SavedDestroyBegin ==
    ASSUME SavedInv, NEW k \in Keys, DestroyBegin(k)
    PROVE  SavedInv'
<1>1. TypeInv' /\ WritesAreSeen' /\ None \notin Values /\ Unsettled \notin Values
  BY DestroyBeginType, WritesStaySeen, ItsAssumption, KeyFilesAreNotMarks
  DEF SavedInv, Next, Operation
<1>2. promised \in [Keys -> Values \cup {None, Unsettled}]
  BY DEF SavedInv, TypeInv, KsTypeOK
<1>3. SavedKeysWhole'
  BY <1>1, <1>2
  DEF SavedInv, SavedKeysWhole, DestroyBegin, RemoveOpen, itsVars
<1>4. QED
  BY <1>1, <1>2, <1>3
  DEF SavedInv, NoOperationNoCall, CallIsUnsettled, StoreCallsSet, OthersRemove,
      SetProgress, itsVars, KsGoto, KsReturn, DestroyBegin, RemoveOpen, ItsReturn

LEMMA SavedStoreBegin ==
    ASSUME SavedInv, NEW k \in Keys, NEW f \in Values, StoreBegin(k, f)
    PROVE  SavedInv'
<1>1. TypeInv' /\ WritesAreSeen' /\ None \notin Values /\ Unsettled \notin Values
  BY StoreBeginType, WritesStaySeen, ItsAssumption, KeyFilesAreNotMarks
  DEF SavedInv, Next, Operation
<1>2. promised \in [Keys -> Values \cup {None, Unsettled}]
  BY DEF SavedInv, TypeInv, KsTypeOK
<1>3. SavedKeysWhole'
  BY <1>1, <1>2
  DEF SavedInv, SavedKeysWhole, StoreBegin, SetOpen, itsVars
<1>4. QED
  BY <1>1, <1>2, <1>3
  DEF SavedInv, NoOperationNoCall, CallIsUnsettled, StoreCallsSet, OthersRemove,
      SetProgress, itsVars, KsGoto, KsReturn, StoreBegin, SetOpen, ItsReturn

(* After a power failure a promised key has its two blobs as they were: no *)
(* erase of it was under way and what reads saw was permanent.             *)
LEMMA SavedCrash ==
    ASSUME SavedInv, Crash
    PROVE  SavedInv'
<1>1. TypeInv' /\ WritesAreSeen'
  BY CrashType, WritesStaySeen DEF SavedInv, Next
<1>2. ASSUME NEW k \in Keys, promised[k] \in Values
      PROVE  \A e \in Surviving(k) : e = nvs[k]
  <2>1. ~ (its_pc = "erasing" /\ its_call.uid = k)
    BY <1>2, KeyFilesAreNotMarks DEF SavedInv, CallIsUnsettled
  <2>2. nvs[k] = WholeFile(promised[k]) /\ durable[k] = nvs[k]
    BY <1>2 DEF SavedInv, SavedKeysWhole
  <2>3. Surviving(k) = [header : {nvs[k].header}, data : {nvs[k].data}]
    BY <2>1, <2>2 DEF Surviving
  <2>4. QED
    BY <2>2, <2>3 DEF WholeFile
<1>3. SavedKeysWhole'
  BY <1>2 DEF SavedInv, SavedKeysWhole, Crash, ItsCrash, Keys
<1>4. QED
  BY <1>1, <1>3
  DEF Crash, ItsCrash, SavedInv, NoOperationNoCall, CallIsUnsettled,
      StoreCallsSet, OthersRemove, SetProgress

LEMMA SavedStep ==
    ASSUME CommitsCount, SavedInv, [Next]_vars
    PROVE  SavedInv'
<1>1. CASE UNCHANGED vars
  <2>1. TypeInv' /\ WritesAreSeen'
    BY <1>1, TypeStep, WritesStaySeen DEF SavedInv
  <2>2. QED
    BY <1>1, <2>1
    DEF vars, itsVars, ksVars, SavedInv, SavedKeysWhole, NoOperationNoCall,
        CallIsUnsettled, StoreCallsSet, OthersRemove, SetProgress
<1>2. CASE Next
  BY <1>2, SavedItsStep, SavedStoreStep, SavedDestroyBegin, SavedStoreBegin,
     SavedCrash
  DEF Next, Operation
<1>3. QED
  BY <1>1, <1>2

LEMMA SavedInvImplies == SavedInv => SavedOnFlash
<1>1. ASSUME NEW f \in Values PROVE EntryOf(WholeFile(f)) = f
  <2>1. SizeOf[f] # 0 /\ f # None
    BY ItsAssumption
  <2>2. QED
    BY <2>1 DEF EntryOf, WholeFile
<1>2. QED
  BY <1>1 DEF SavedInv, SavedKeysWhole, SavedOnFlash

(* Whatever else fails, a key that psa_crypto_storage_store reported as    *)
(* saved is on the flash until an operation on it begins, provided commits *)
(* that count do not fail: psa_its_set does not look at the status of      *)
(* nvs_commit, which matters only where the driver buffers its writes.     *)
THEOREM SavedKeysStaySaved == CommitsCount => (Spec => []SavedOnFlash)
<1> SUFFICES ASSUME CommitsCount PROVE Spec => []SavedOnFlash
  OBVIOUS
<1>1. SavedInv /\ [Next]_vars => SavedInv'
  BY SavedStep
<1>2. QED
  BY <1>1, SavedInit, SavedInvImplies, PTL DEF Spec

-----------------------------------------------------------------------------
(* What is on the flash is also what loads, when reads do not fail.        *)

ReadsAndCommitsWork == Faults \cap {"open", "read"} = {} /\ CommitsCount

LEMMA WholeFileLoads ==
    ASSUME ReadsAndCommitsWork, NEW k \in Keys, NEW f \in Values,
           nvs[k] = WholeFile(f)
    PROVE  psa_load_persistent_key(k) = {[status |-> "SUCCESS", file |-> f]}
<1>1. Faults \cap {"open", "read"} = {} /\ Faults \cap {"open"} = {}
      /\ Faults \cap {"read"} = {}
  BY DEF ReadsAndCommitsWork
<1>2. SizeOf[f] \in Nat /\ SizeOf[f] # 0 /\ f # None /\ f # Blank
  BY ItsAssumption, KeyFilesAreNotMarks
<1>3. nvs[k].header = SizeOf[f] /\ nvs[k].data = f
  BY DEF WholeFile
<1>4. GetInfo(k) = {[status |-> "SUCCESS", size |-> SizeOf[f]]}
  BY <1>1, <1>2, <1>3 DEF GetInfo
<1>5. ItsGet(k, SizeOf[f]) = {[status |-> "SUCCESS", data |-> f]}
  BY <1>1, <1>2, <1>3 DEF ItsGet
<1>6. psa_crypto_storage_load(k, SizeOf[f]) = {[status |-> "SUCCESS", file |-> f]}
  BY <1>2, <1>5 DEF psa_crypto_storage_load
<1>7. QED
  BY <1>4, <1>6 DEF psa_load_persistent_key

(* A key that psa_crypto_storage_store reported as saved loads as it was   *)
(* saved, through failing writes and power failures in any driver, until   *)
(* an operation on it begins.                                              *)
THEOREM SavedKeysLoad == ReadsAndCommitsWork => (Spec => []SavedStaysSaved)
<1> SUFFICES ASSUME ReadsAndCommitsWork PROVE Spec => []SavedStaysSaved
  OBVIOUS
<1>1. SavedInv /\ [Next]_vars => SavedInv'
  BY SavedStep DEF ReadsAndCommitsWork
<1>2. SavedInv => SavedStaysSaved
  BY WholeFileLoads DEF SavedInv, SavedKeysWhole, SavedStaysSaved
<1>3. QED
  BY <1>1, <1>2, SavedInit, PTL DEF Spec

-----------------------------------------------------------------------------
(* A driver that writes through.  Then the two copies of the flash are     *)
(* one, a free place is free of old data, and psa_its_set finds it so.     *)

WritesThrough == Faults \cap {"open", "read", "buffer", "tear"} = {}

HeaderOnly(f) == [header |-> SizeOf[f], data |-> None]

WriteOnceInv ==
    /\ TypeInv
    /\ durable = nvs
    /\ \A k \in Keys : nvs[k].header = 0 => nvs[k] = Erased
    /\ its_pc = "opened" => nvs[its_call.uid] = Erased
    /\ its_pc \in {"header_set", "header_committed"}
          => nvs[its_call.uid] = HeaderOnly(its_call.value)

LEMMA WriteOnceInit == Init => WriteOnceInv
<1> SUFFICES ASSUME Init PROVE WriteOnceInv
  OBVIOUS
<1>1. QED
  BY TypeInit DEF Init, ItsInit, WriteOnceInv, Keys

LEMMA NotPresentIsErased ==
    ASSUME WritesThrough, WriteOnceInv, NEW k \in Keys, FALSE \in PresentInStorage(k)
    PROVE  nvs[k] = Erased
<1>1. PICK info \in GetInfo(k) : info.status = "DOES_NOT_EXIST"
  BY DEF PresentInStorage
<1>2. Faults \cap {"open", "read"} = {}
  BY DEF WritesThrough
<1>3. nvs[k].header = 0
  BY <1>1, <1>2 DEF GetInfo
<1>4. QED
  BY <1>3 DEF WriteOnceInv

LEMMA PutIsDurable ==
    ASSUME WritesThrough, NEW u, NEW e, PutBlobs(u, e)
    PROVE  durable' = nvs'
  BY DEF WritesThrough, PutBlobs

LEMMA WriteOnceItsStep ==
    ASSUME WritesThrough, WriteOnceInv, ItsProgress
    PROVE  WriteOnceInv'
<1>1. TypeInv'
  BY ItsStepType DEF WriteOnceInv
<1>2. nvs \in [Uids -> Entry]
  BY DEF WriteOnceInv, TypeInv, KsTypeOK, ItsTypeOK
<1> DEFINE u == its_call.uid
           v == its_call.value
<1>3. CASE SetHeader
  <2>1. u \in Uids /\ v \in Values /\ SizeOf[v] # 0 /\ nvs[u] = Erased
    BY <1>3, ItsAssumption DEF SetHeader, WriteOnceInv, TypeInv, CallMatchesPc
  <2>2. CASE its_pc' = "header_set"
    <3>1. nvs' = [nvs EXCEPT ![u] = HeaderOnly(v)] /\ durable' = nvs'
      BY <1>3, <2>1, <2>2, PutIsDurable
      DEF SetHeader, PutBlobs, ItsReturn, Erased, HeaderOnly
    <3>2. its_call' = its_call
      BY <1>3, <2>2 DEF SetHeader, ItsGoto, ItsReturn
    <3>3. QED
      BY <1>1, <1>2, <2>1, <2>2, <3>1, <3>2 DEF WriteOnceInv, HeaderOnly, Keys
  <2>3. CASE its_pc' = "idle" /\ UNCHANGED <<nvs, durable>>
    BY <1>1, <2>3 DEF WriteOnceInv
  <2>4. QED
    BY <1>3, <2>2, <2>3 DEF SetHeader, ItsGoto, ItsReturn
<1>4. CASE CommitHeader \/ CommitData
  <2>1. durable' = durable /\ nvs' = nvs
    BY <1>2, <1>4 DEF CommitHeader, CommitData, CommitBlobs, WriteOnceInv
  <2>2. \/ its_pc = "header_set" /\ its_pc' = "header_committed" /\ its_call' = its_call
        \/ its_pc' = "idle"
    BY <1>4 DEF CommitHeader, CommitData, ItsGoto, ItsReturn
  <2>3. QED
    BY <1>1, <2>1, <2>2 DEF WriteOnceInv
<1>5. CASE SetData
  <2>1. u \in Uids /\ v \in Values /\ SizeOf[v] # 0 /\ nvs[u] = HeaderOnly(v)
    BY <1>5, ItsAssumption DEF SetData, WriteOnceInv, TypeInv, CallMatchesPc
  <2>2. CASE its_pc' = "data_set"
    <3>1. nvs' = [nvs EXCEPT ![u] = WholeFile(v)] /\ durable' = nvs'
      BY <1>5, <2>1, <2>2, PutIsDurable
      DEF SetData, PutBlobs, ItsReturn, HeaderOnly, WholeFile
    <3>2. QED
      BY <1>1, <1>2, <2>1, <2>2, <3>1 DEF WriteOnceInv, WholeFile, Keys
  <2>3. CASE its_pc' = "idle" /\ UNCHANGED <<nvs, durable>>
    BY <1>1, <2>3 DEF WriteOnceInv
  <2>4. QED
    BY <1>5, <2>2, <2>3 DEF SetData, ItsGoto, ItsReturn
<1>6. CASE EraseAll
  <2>1. its_pc' = "idle" /\ u \in Uids
    BY <1>6 DEF EraseAll, ItsReturn, WriteOnceInv, TypeInv, CallMatchesPc
  <2>2. CASE PutBlobs(u, Erased)
    <3>1. nvs' = [nvs EXCEPT ![u] = Erased] /\ durable' = nvs'
      BY <2>2, PutIsDurable DEF PutBlobs
    <3>2. QED
      BY <1>1, <1>2, <2>1, <3>1 DEF WriteOnceInv, Keys
  <2>3. CASE UNCHANGED <<nvs, durable>>
    BY <1>1, <2>1, <2>3 DEF WriteOnceInv
  <2>4. QED
    BY <1>6, <2>2, <2>3 DEF EraseAll
<1>7. QED
  BY <1>3, <1>4, <1>5, <1>6 DEF ItsProgress, ItsStep

(* The other steps leave the flash as it is.                               *)
LEMMA WriteOnceOtherStep ==
    ASSUME WritesThrough, WriteOnceInv, [Next]_vars, ~ ItsProgress
    PROVE  WriteOnceInv' /\ nvs' = nvs
<1>1. TypeInv'
  BY TypeStep DEF WriteOnceInv
<1>2. CASE UNCHANGED vars
  BY <1>1, <1>2 DEF vars, itsVars, WriteOnceInv
<1>3. CASE \E k \in Keys, f \in Values : StoreBegin(k, f)
  <2>1. PICK k \in Keys, f \in Values : StoreBegin(k, f)
    BY <1>3
  <2>2. CASE UNCHANGED itsVars
    BY <1>1, <2>2 DEF itsVars, WriteOnceInv
  <2>3. CASE SetOpen(k, f) /\ FALSE \in PresentInStorage(k)
    <3>1. nvs[k] = Erased
      BY <2>3, NotPresentIsErased
    <3>2. /\ its_pc' = "opened" /\ its_call'.uid = k
          /\ UNCHANGED <<nvs, durable>>
      BY <2>3 DEF SetOpen, WritesThrough
    <3>3. QED
      BY <1>1, <3>1, <3>2 DEF WriteOnceInv
  <2>4. PICK present \in PresentInStorage(k) :
           IF present THEN UNCHANGED itsVars ELSE SetOpen(k, f)
    BY <2>1 DEF StoreBegin
  <2>5. present \in BOOLEAN
    BY <2>4 DEF PresentInStorage
  <2>6. QED
    BY <2>2, <2>3, <2>4, <2>5
<1>4. CASE StoreVerify \/ StoreCleanup \/ DestroyVerify \/ \E k \in Keys : DestroyBegin(k)
  <2>1. UNCHANGED itsVars \/ \E k : RemoveOpen(k)
    BY <1>4 DEF StoreVerify, StoreCleanup, DestroyVerify, DestroyBegin
  <2>2. nvs' = nvs /\ durable' = durable
        /\ (UNCHANGED <<its_pc, its_call>> \/ its_pc' \in {"idle", "erasing"})
    BY <2>1 DEF itsVars, RemoveOpen, ItsReturn
  <2>3. QED
    BY <1>1, <2>2 DEF WriteOnceInv
<1>5. CASE Crash
  <2>1. ASSUME NEW u \in Uids PROVE \A e \in Surviving(u) : e = nvs[u]
    <3>1. durable[u] = nvs[u] /\ "tear" \notin Faults /\ nvs[u] \in Entry
      BY DEF WriteOnceInv, WritesThrough, TypeInv, KsTypeOK, ItsTypeOK
    <3>2. Surviving(u) = [header : {nvs[u].header}, data : {nvs[u].data}]
      BY <3>1 DEF Surviving
    <3>3. QED
      BY <3>1, <3>2 DEF Entry
  <2>2. /\ nvs' \in [Uids -> UNION {Surviving(u) : u \in Uids}]
        /\ \A u \in Uids : nvs'[u] \in Surviving(u)
        /\ durable' = nvs' /\ its_pc' = "idle"
    BY <1>5 DEF Crash, ItsCrash
  <2>3. nvs' = nvs
    BY <2>1, <2>2 DEF WriteOnceInv, TypeInv, KsTypeOK, ItsTypeOK
  <2>4. QED
    BY <1>1, <2>2, <2>3 DEF WriteOnceInv
<1>6. QED
  BY <1>2, <1>3, <1>4, <1>5 DEF Next, Operation

-----------------------------------------------------------------------------
(* What was destroyed stays away.                                          *)

DestroyedInv ==
    /\ WriteOnceInv
    /\ NoOperationNoCall
    /\ CallIsUnsettled
    /\ \A k \in Keys : promised[k] = None => nvs[k] = Erased

LEMMA DestroyedInit == Init => DestroyedInv
<1> SUFFICES ASSUME Init PROVE DestroyedInv
  OBVIOUS
<1>1. QED
  BY WriteOnceInit
  DEF Init, ItsInit, DestroyedInv, NoOperationNoCall, CallIsUnsettled, Keys

LEMMA DestroyedItsStep ==
    ASSUME WritesThrough, DestroyedInv, ItsProgress
    PROVE  DestroyedInv'
<1>1. WriteOnceInv'
  BY WriteOnceItsStep DEF DestroyedInv
<1>2. /\ UNCHANGED <<ks_pc, ks_call, promised>>
      /\ its_pc # "idle"
      /\ its_pc' = "idle" \/ its_call' = its_call
      /\ \A u \in Uids : u # its_call.uid => nvs'[u] = nvs[u]
  BY DEF ItsProgress, ksVars, ItsStep, SetHeader, CommitHeader, SetData, CommitData,
         EraseAll, PutBlobs, CommitBlobs, ItsGoto, ItsReturn, DestroyedInv,
         WriteOnceInv, TypeInv, KsTypeOK, ItsTypeOK
<1>3. NoOperationNoCall' /\ CallIsUnsettled'
  BY <1>2 DEF DestroyedInv, NoOperationNoCall, CallIsUnsettled
<1>4. ASSUME NEW k \in Keys, promised'[k] = None PROVE nvs'[k] = Erased
  <2>1. promised[its_call.uid] # None
    BY <1>2 DEF DestroyedInv, CallIsUnsettled, Unsettled, None
  <2>2. QED
    BY <1>2, <1>4, <2>1 DEF DestroyedInv, Keys
<1>5. QED
  BY <1>1, <1>3, <1>4 DEF DestroyedInv

LEMMA DestroyedStep ==
    ASSUME WritesThrough, DestroyedInv, [Next]_vars
    PROVE  DestroyedInv'
<1>1. CASE ItsProgress
  BY <1>1, DestroyedItsStep
<1>2. CASE ~ ItsProgress
  <2>1. WriteOnceInv' /\ nvs' = nvs
    BY <1>2, WriteOnceOtherStep DEF DestroyedInv
  <2>2. promised \in [Keys -> Values \cup {None, Unsettled}]
        /\ None \notin Values /\ None # Unsettled
    BY ItsAssumption DEF DestroyedInv, WriteOnceInv, TypeInv, KsTypeOK, None, Unsettled
  <2> USE DEF NoOperationNoCall, CallIsUnsettled
  <2>3. CASE UNCHANGED vars
    BY <2>1, <2>3 DEF vars, itsVars, ksVars, DestroyedInv
  <2>4. CASE StoreVerify
    BY <2>1, <2>2, <2>4
    DEF StoreVerify, RemoveOpen, ItsReturn, itsVars, KsReturn, KsGoto, DestroyedInv,
        WriteOnceInv, TypeInv, CallMatchesPc
  <2>5. CASE StoreCleanup
    BY <2>1, <2>5 DEF StoreCleanup, itsVars, KsReturn, DestroyedInv
  <2>6. CASE DestroyVerify
    <3>1. PICK present \in PresentInStorage(ks_call.key) :
             IF its_ret # "SUCCESS" \/ present
             THEN KsReturn("DATA_INVALID") /\ UNCHANGED promised
             ELSE /\ KsReturn("SUCCESS")
                  /\ promised' = [promised EXCEPT ![ks_call.key] = None]
      BY <2>6 DEF DestroyVerify
    <3>2. present \in BOOLEAN
      BY <3>1 DEF PresentInStorage
    <3>3. ks_call.key \in Keys
      BY <2>6 DEF DestroyVerify, DestroyedInv, WriteOnceInv, TypeInv, CallMatchesPc
    <3>4. ~ present => nvs[ks_call.key] = Erased
      BY <3>1, <3>2, <3>3, NotPresentIsErased DEF DestroyedInv
    <3>5. its_pc = "idle" /\ its_pc' = "idle" /\ ks_pc' = "idle"
      BY <2>6, <3>1 DEF DestroyVerify, itsVars, KsReturn
    <3>6. QED
      BY <2>1, <2>2, <3>1, <3>3, <3>4, <3>5 DEF DestroyedInv
  <2>7. CASE \E k \in Keys : DestroyBegin(k)
    <3>1. PICK k \in Keys : DestroyBegin(k)
      BY <2>7
    <3>2. PICK present \in PresentInStorage(k) :
             IF present
             THEN /\ RemoveOpen(k)
                  /\ KsGoto("destroy_remove", [op |-> "destroy", key |-> k])
                  /\ promised' = [promised EXCEPT ![k] = Unsettled]
             ELSE /\ KsReturn("SUCCESS")
                  /\ promised' = [promised EXCEPT ![k] = None]
                  /\ UNCHANGED itsVars
      BY <3>1 DEF DestroyBegin
    <3>3. present \in BOOLEAN
      BY <3>2 DEF PresentInStorage
    <3>4. ks_pc = "idle"
      BY <3>1 DEF DestroyBegin
    <3>5. CASE present
      BY <2>1, <2>2, <3>2, <3>5 DEF RemoveOpen, ItsReturn, KsGoto, DestroyedInv
    <3>6. CASE ~ present
      <4>1. nvs[k] = Erased
        BY <3>2, <3>3, <3>6, NotPresentIsErased DEF DestroyedInv
      <4>2. QED
        BY <2>1, <2>2, <3>2, <3>4, <3>6, <4>1 DEF itsVars, KsReturn, DestroyedInv
    <3>7. QED
      BY <3>3, <3>5, <3>6
  <2>8. CASE \E k \in Keys, f \in Values : StoreBegin(k, f)
    BY <2>1, <2>2, <2>8
    DEF StoreBegin, SetOpen, ItsReturn, itsVars, KsReturn, KsGoto, DestroyedInv
  <2>9. CASE Crash
    BY <2>1, <2>9 DEF Crash, ItsCrash, DestroyedInv
  <2>10. QED
    BY <1>2, <2>3, <2>4, <2>5, <2>6, <2>7, <2>8, <2>9 DEF Next, Operation
<1>3. QED
  BY <1>1, <1>2

(* A key that psa_destroy_persistent_key reported as destroyed does not    *)
(* come back after a power failure, on a driver that writes through.       *)
THEOREM DestroyedKeysStayAway == WritesThrough => (Spec => []DestroyedStaysDestroyed)
<1> SUFFICES ASSUME WritesThrough PROVE Spec => []DestroyedStaysDestroyed
  OBVIOUS
<1>1. DestroyedInv /\ [Next]_vars => DestroyedInv'
  BY DestroyedStep
<1>2. DestroyedInv => DestroyedStaysDestroyed
  <2>1. ASSUME NEW k \in Keys, nvs[k] = Erased
        PROVE  PresentInStorage(k) = {FALSE}
    <3>1. nvs[k].header = 0
      BY <2>1 DEF Erased
    <3>2. GetInfo(k) = {[status |-> "DOES_NOT_EXIST", size |-> 0]}
      BY <3>1 DEF GetInfo
    <3> DEFINE none == [status |-> "DOES_NOT_EXIST", size |-> 0]
    <3>3. (none.status # "DOES_NOT_EXIST") = FALSE
      OBVIOUS
    <3>4. GetInfo(k) = {none}
      BY <3>2
    <3> HIDE DEF none
    <3>5. QED
      BY <3>3, <3>4, Zenon DEF PresentInStorage
  <2>2. QED
    BY <2>1 DEF DestroyedInv, DestroyedStaysDestroyed
<1>3. QED
  BY <1>1, <1>2, DestroyedInit, PTL DEF Spec

-----------------------------------------------------------------------------
(* The refinement.                                                         *)

Entries == [k \in Keys |-> EntryOf(nvs[k])]
Writer == IF its_call.op = "set"
          THEN [busy |-> TRUE, key |-> its_call.uid, file |-> its_call.value]
          ELSE [busy |-> FALSE]
Writing(k, f) == [busy |-> TRUE, key |-> k, file |-> f]

LEMMA EntryCases ==
    ASSUME NEW f \in Values
    PROVE  /\ EntryOf(Erased) = "absent"
           /\ EntryOf(HeaderOnly(f)) = "torn"
           /\ EntryOf(WholeFile(f)) = f
           /\ f # "absent" /\ f # "torn"
  BY ItsAssumption, KeyFilesAreNotMarks DEF EntryOf, Erased, HeaderOnly, WholeFile

LEMMA AbsentIsErased == EntryOf(Erased) = "absent"
  BY DEF EntryOf, Erased

LEMMA StoreInitRefines == Init => Abstract!StoreInit
<1> SUFFICES ASSUME Init PROVE Abstract!StoreInit
  OBVIOUS
<1>1. Entries = [k \in Keys |-> "absent"]
  BY AbsentIsErased DEF Init, ItsInit, Entries, Keys
<1>2. Writer = [busy |-> FALSE]
  BY DEF Init, ItsInit, Writer, NoCall
<1>3. QED
  BY <1>1, <1>2 DEF Abstract!StoreInit, Abstract!Idle, Abstract!Absent, Entries, Writer

(* A file is claimed by its header, filled by its data, and released by    *)
(* whatever ends the call.                                                 *)
LEMMA ItsStepRefines ==
    ASSUME WritesThrough, WriteOnceInv, ItsProgress
    PROVE  Abstract!StoreNext \/ UNCHANGED <<Entries, Writer>>
<1> DEFINE u == its_call.uid
           v == its_call.value
<1>1. nvs \in [Uids -> Entry]
  BY DEF WriteOnceInv, TypeInv, KsTypeOK, ItsTypeOK
<1>2. ASSUME NEW e, nvs' = [nvs EXCEPT ![u] = e]
      PROVE  Entries' = [Entries EXCEPT ![u] = EntryOf(e)]
  BY <1>1, <1>2 DEF Entries, Keys
<1>3. nvs' = nvs => Entries' = Entries
  BY DEF Entries
<1>4. its_call' = its_call => Writer' = Writer
  BY DEF Writer
<1>5. its_call' = NoCall => Writer' = Abstract!Idle
  BY DEF NoCall, Writer, Abstract!Idle
<1>6. CASE SetHeader \/ CommitHeader \/ SetData \/ CommitData
  <2>1. u \in Keys /\ v \in Values /\ Writer = Writing(u, v)
    BY <1>6 DEF SetHeader, CommitHeader, SetData, CommitData, WriteOnceInv, TypeInv,
                CallMatchesPc, Keys, Writer, Writing
  <2>2. Writer.busy /\ Writer.key = u /\ Writer.file = v
    BY <2>1 DEF Writing
  <2>3. Entries[u] = EntryOf(nvs[u])
    BY <2>1 DEF Entries
  <2>4. CASE its_call' = NoCall /\ nvs' = nvs
    BY <1>3, <1>5, <2>2, <2>4 DEF Abstract!StoreNext, Abstract!End, Entries, Writer
  <2>5. CASE its_pc' = "header_set" /\ SetHeader
    <3>1. nvs[u] = Erased /\ its_call' = its_call
      BY <2>5 DEF SetHeader, ItsGoto, ItsReturn, WriteOnceInv
    <3>2. nvs' = [nvs EXCEPT ![u] = HeaderOnly(v)]
      BY <2>5, <3>1 DEF SetHeader, PutBlobs, ItsReturn, Erased, HeaderOnly
    <3>3. Entries[u] = "absent" /\ Entries' = [Entries EXCEPT ![u] = "torn"]
      BY <1>2, <2>1, <2>3, <3>1, <3>2, EntryCases
    <3>4. QED
      BY <1>4, <2>2, <3>1, <3>3
      DEF Abstract!StoreNext, Abstract!Claim, Abstract!Absent, Abstract!Torn, Entries,
          Writer
  <2>6. CASE its_pc' = "data_set" /\ SetData
    <3>1. nvs[u] = HeaderOnly(v) /\ its_call' = its_call
      BY <2>6 DEF SetData, ItsGoto, ItsReturn, WriteOnceInv
    <3>2. nvs' = [nvs EXCEPT ![u] = WholeFile(v)]
      BY <2>6, <3>1 DEF SetData, PutBlobs, ItsReturn, HeaderOnly, WholeFile
    <3>3. Entries[u] = "torn" /\ Entries' = [Entries EXCEPT ![u] = v]
      BY <1>2, <2>1, <2>3, <3>1, <3>2, EntryCases
    <3>4. QED
      BY <1>4, <2>2, <3>1, <3>3
      DEF Abstract!StoreNext, Abstract!Fill, Abstract!Torn, Entries, Writer
  <2>7. CASE CommitHeader
    BY <1>3, <1>4, <2>7 DEF CommitHeader, CommitBlobs, ItsGoto
  <2>8. QED
    BY <1>6, <2>4, <2>5, <2>6, <2>7
    DEF SetHeader, SetData, CommitData, CommitBlobs, ItsGoto, ItsReturn
<1>7. CASE EraseAll
  <2>1. u \in Keys /\ Writer = Abstract!Idle /\ Writer' = Abstract!Idle
    BY <1>5, <1>7 DEF EraseAll, ItsReturn, WriteOnceInv, TypeInv, CallMatchesPc, Keys,
                      Writer, Abstract!Idle
  <2>2. CASE nvs' = [nvs EXCEPT ![u] = Erased]
    <3>1. Entries' = [Entries EXCEPT ![u] = "absent"]
      BY <1>2, <2>2, AbsentIsErased
    <3>2. CASE Entries[u] = "absent"
      <4>1. Entries' = Entries
        BY <3>1, <3>2 DEF Entries
      <4>2. QED
        BY <2>1, <4>1
    <3>3. CASE Entries[u] # "absent"
      <4>1. Abstract!Erase(u)
        BY <2>1, <3>1, <3>3
        DEF Abstract!Erase, Abstract!Absent, Abstract!Idle, Entries, Writer
      <4>2. QED
        BY <2>1, <4>1 DEF Abstract!StoreNext
    <3>4. QED
      BY <3>2, <3>3
  <2>3. CASE nvs' = nvs
    BY <1>3, <2>1, <2>3
  <2>4. QED
    BY <1>7, <2>2, <2>3 DEF EraseAll, PutBlobs
<1>8. QED
  BY <1>6, <1>7 DEF ItsProgress, ItsStep

LEMMA OtherStepRefines ==
    ASSUME WritesThrough, WriteOnceInv, [Next]_vars, ~ ItsProgress
    PROVE  Abstract!StoreNext \/ UNCHANGED <<Entries, Writer>>
<1>1. Entries' = Entries
  BY WriteOnceOtherStep DEF Entries
<1>2. CASE its_call' = its_call
  BY <1>1, <1>2 DEF Writer
<1>3. CASE \E k \in Keys, f \in Values : StoreBegin(k, f)
  <2>1. PICK k \in Keys, f \in Values : StoreBegin(k, f)
    BY <1>3
  <2>2. PICK present \in PresentInStorage(k) :
           IF present THEN UNCHANGED itsVars ELSE SetOpen(k, f)
    BY <2>1 DEF StoreBegin
  <2>3. present \in BOOLEAN
    BY <2>2 DEF PresentInStorage
  <2>4. CASE present
    BY <1>2, <2>2, <2>4 DEF itsVars
  <2>5. CASE ~ present
    <3>1. Entries[k] = "absent"
      BY <2>2, <2>3, <2>5, NotPresentIsErased, AbsentIsErased DEF Entries
    <3>2. its_pc = "idle" /\ its_call' = [op |-> "set", uid |-> k, value |-> f]
      BY <2>2, <2>5 DEF SetOpen, WritesThrough
    <3>3. Writer = Abstract!Idle /\ Writer' = Writing(k, f)
      BY <3>2 DEF WriteOnceInv, TypeInv, CallMatchesPc, NoCall, Writer, Writing,
                  Abstract!Idle
    <3>4. Abstract!Begin(k, f)
      BY <1>1, <3>1, <3>3
      DEF Abstract!Begin, Abstract!Absent, Abstract!Idle, Entries, Writer, Writing
    <3>5. QED
      BY <3>4 DEF Abstract!StoreNext
  <2>6. QED
    BY <2>3, <2>4, <2>5
<1>4. CASE StoreVerify \/ StoreCleanup \/ DestroyVerify \/ \E k \in Keys : DestroyBegin(k)
  <2>1. CASE UNCHANGED itsVars
    BY <1>2, <2>1 DEF itsVars
  <2>2. CASE \E k : RemoveOpen(k)
    <3>1. its_pc = "idle" /\ its_call'.op # "set"
      BY <2>2 DEF RemoveOpen, ItsReturn, NoCall
    <3>2. its_call.op # "set"
      BY <3>1 DEF WriteOnceInv, TypeInv, CallMatchesPc, NoCall
    <3>3. QED
      BY <1>1, <3>1, <3>2 DEF Writer
  <2>3. QED
    BY <1>4, <2>1, <2>2 DEF StoreVerify, StoreCleanup, DestroyVerify, DestroyBegin
<1>5. CASE Crash
  <2>1. Writer' = Abstract!Idle
    BY <1>5 DEF Crash, ItsCrash, NoCall, Writer, Abstract!Idle
  <2>2. CASE its_call.op = "set"
    <3>1. Writer.busy
      BY <2>2 DEF Writer
    <3>2. QED
      BY <1>1, <2>1, <3>1 DEF Abstract!StoreNext, Abstract!End, Entries, Writer
  <2>3. CASE its_call.op # "set"
    <3>1. Writer' = Writer
      BY <2>1, <2>3 DEF Writer, Abstract!Idle
    <3>2. QED
      BY <1>1, <3>1
  <2>4. QED
    BY <2>2, <2>3
<1>6. QED
  BY <1>2, <1>3, <1>4, <1>5 DEF Next, Operation, vars, itsVars

(* On a driver that writes through, key files over two blobs with separate *)
(* commits implement the write-once store: a file is claimed, filled and   *)
(* released, and a power failure only cuts a write short.                  *)
THEOREM StorageIsWriteOnce == WritesThrough => (Spec => ImplementsKeyStore)
<1> SUFFICES ASSUME WritesThrough PROVE Spec => ImplementsKeyStore
  OBVIOUS
<1>1. WriteOnceInv /\ [Next]_vars => WriteOnceInv'
  BY WriteOnceItsStep, WriteOnceOtherStep
<1>2. WriteOnceInv /\ [Next]_vars => [Abstract!StoreNext]_(Abstract!storeVars)
  BY ItsStepRefines, OtherStepRefines DEF Abstract!storeVars, Entries, Writer
<1>3. QED
  BY <1>1, <1>2, WriteOnceInit, StoreInitRefines, PTL
  DEF Spec, ImplementsKeyStore, Abstract!StoreSpec
-----------------------------------------------------------------------------
(* Loading a key, whatever reads fail.                                     *)

(* The data of a blob is handed out only when it is as long as was asked.  *)
LEMMA GetGivesTheData ==
    ASSUME NEW k, NEW size, NEW r \in ItsGet(k, size),
           r.status = "SUCCESS", r.data # Blank
    PROVE  /\ r.data = nvs[k].data /\ nvs[k].data # None
           /\ nvs[k].header # 0 /\ SizeOf[nvs[k].data] = size
BY DEF ItsGet

LEMMA LoadGivesTheFile ==
    ASSUME ItsTypeOK, NEW k \in Keys, NEW r \in psa_load_persistent_key(k),
           r.status = "SUCCESS"
    PROVE  r.file \in Values /\ r.file = EntryOf(nvs[k])
<1>1. PICK info \in GetInfo(k) :
         r \in IF info.status = "SUCCESS"
               THEN psa_crypto_storage_load(k, info.size)
               ELSE {[status |-> info.status, file |-> None]}
  BY DEF psa_load_persistent_key
<1>2. info.status = "SUCCESS"
  BY <1>1
<1>3. info.size = nvs[k].header
  BY <1>2 DEF GetInfo
<1>4. PICK g \in ItsGet(k, info.size) :
         r = IF g.status = "SUCCESS" /\ g.data # Blank
             THEN [status |-> "SUCCESS", file |-> g.data]
             ELSE [status |-> "DATA_INVALID", file |-> None]
  BY <1>1, <1>2 DEF psa_crypto_storage_load
<1>5. g.status = "SUCCESS" /\ g.data # Blank /\ r.file = g.data
  BY <1>4
<1>6. /\ r.file = nvs[k].data /\ nvs[k].data # None
      /\ nvs[k].header # 0 /\ SizeOf[nvs[k].data] = nvs[k].header
  BY <1>3, <1>4, <1>5, GetGivesTheData
<1>7. nvs[k].data \in Values \cup {None}
  BY DEF ItsTypeOK, Entry, Keys
<1>8. QED
  BY <1>6, <1>7 DEF EntryOf

(* A load that succeeds never gives a torn or a foreign file, whatever the *)
(* driver fails at (psa_load_persistent_key).                              *)
THEOREM SuccessfulLoadsAreTrue == Spec => []LoadsAreTrue
<1>1. TypeInv => LoadsAreTrue
  BY LoadGivesTheFile DEF TypeInv, KsTypeOK, LoadsAreTrue
<1>2. QED
  BY <1>1, TypeInit, TypeStep, PTL DEF Spec
-----------------------------------------------------------------------------
(* Call by call.  What a call may report depends on how far the storage    *)
(* call under it has come, and on what the last one returned: the file of  *)
(* a save has grown as far as its program point says, and a removal that   *)
(* failed has left a file to be found.                                     *)

IdleNoCall == ks_pc = "idle" => its_pc = "idle" /\ ks_call = NoCall

SaveProgress ==
    ks_pc = "store_set" =>
        LET n == nvs[ks_call.key]
            f == ks_call.file
        IN  /\ its_pc = "data_set" => n = WholeFile(f)
            /\ its_pc = "idle" => IF its_ret = "SUCCESS" THEN n = WholeFile(f)
                                  ELSE n \in {Erased, HeaderOnly(f)}

RemovalProgress ==
    ks_pc = "destroy_remove" =>
        /\ its_pc \in {"idle", "erasing"}
        /\ its_pc = "erasing" => /\ its_call.uid = ks_call.key
                                 /\ nvs[ks_call.key].header # 0
        /\ its_pc = "idle" =>
              (its_ret = "SUCCESS" <=> nvs[ks_call.key].header = 0)

FilesInv ==
    /\ WriteOnceInv
    /\ IdleNoCall
    /\ StoreCallsSet
    /\ SaveProgress
    /\ RemovalProgress
    /\ ks_pc # "store_cleanup"

LEMMA FilesInit == Init => FilesInv
<1> SUFFICES ASSUME Init PROVE FilesInv
  OBVIOUS
<1>1. WriteOnceInv
  BY WriteOnceInit
<1>2. ks_pc = "idle" /\ ks_call = NoCall /\ its_pc = "idle"
  BY DEF Init, ItsInit
<1>3. QED
  BY <1>1, <1>2
  DEF FilesInv, IdleNoCall, StoreCallsSet, SaveProgress, RemovalProgress

(* The storage call of a save writes the file of the save.                 *)
LEMMA SaveWrites ==
    ASSUME FilesInv, ks_pc = "store_set", its_pc # "idle"
    PROVE  /\ its_call.op = "set" /\ its_call.uid = ks_call.key
           /\ its_call.value = ks_call.file
           /\ ks_call.key \in Uids /\ ks_call.file \in Values
           /\ its_pc # "erasing"
<1>1. its_call = [op |-> "set", uid |-> ks_call.key, value |-> ks_call.file]
  BY DEF FilesInv, StoreCallsSet
<1>2. its_pc = "erasing" => its_call.op = "remove"
  BY DEF FilesInv, WriteOnceInv, TypeInv, CallMatchesPc
<1>3. QED
  BY <1>1, <1>2 DEF FilesInv, WriteOnceInv, TypeInv, CallMatchesPc, Keys

LEMMA WholeIsNotLess ==
    ASSUME NEW f \in Values
    PROVE  /\ WholeFile(f).header # 0 /\ HeaderOnly(f).header # 0
           /\ WholeFile(f) # Erased /\ WholeFile(f) # HeaderOnly(f)
  BY ItsAssumption DEF WholeFile, HeaderOnly, Erased

LEMMA FilesItsStep ==
    ASSUME WritesThrough, FilesInv, ItsProgress
    PROVE  FilesInv'
<1>1. WriteOnceInv'
  BY WriteOnceItsStep DEF FilesInv
<1>2. nvs \in [Uids -> Entry]
  BY DEF FilesInv, WriteOnceInv, TypeInv, KsTypeOK, ItsTypeOK
<1>3. UNCHANGED <<ks_pc, ks_call>> /\ its_pc # "idle"
  BY DEF ItsProgress, ksVars, ItsStep, SetHeader, CommitHeader, SetData, CommitData,
         EraseAll
<1>4. ks_pc \in {"store_set", "destroy_remove"}
  BY <1>3 DEF FilesInv, IdleNoCall, WriteOnceInv, TypeInv, KsTypeOK
<1>5. CASE ks_pc = "store_set"
  <2> DEFINE k == ks_call.key
             f == ks_call.file
  <2>1. /\ its_call.uid = k /\ its_call.value = f /\ its_pc # "erasing"
        /\ k \in Uids /\ f \in Values
    BY <1>3, <1>5, SaveWrites
  <2>2. CASE SetHeader
    <3>1. nvs[k] = Erased
      BY <2>1, <2>2 DEF SetHeader, FilesInv, WriteOnceInv
    <3>2. CASE its_pc' = "header_set"
      BY <1>1, <1>3, <1>5, <2>2, <3>2
      DEF SetHeader, ItsGoto, ItsReturn, FilesInv, IdleNoCall, StoreCallsSet,
          SaveProgress, RemovalProgress
    <3>3. CASE /\ its_pc' = "idle" /\ its_ret' = "INSUFFICIENT_STORAGE" /\ nvs' = nvs
      BY <1>1, <1>3, <1>5, <3>1, <3>3
      DEF FilesInv, IdleNoCall, StoreCallsSet, SaveProgress, RemovalProgress
    <3>4. QED
      BY <2>2, <3>2, <3>3 DEF SetHeader, ItsGoto, ItsReturn
  <2>3. CASE CommitHeader
    BY <1>1, <1>3, <1>5, <2>3
    DEF CommitHeader, ItsGoto, FilesInv, IdleNoCall, StoreCallsSet, SaveProgress,
        RemovalProgress
  <2>4. CASE SetData
    <3>1. nvs[k] = HeaderOnly(f)
      BY <2>1, <2>4 DEF SetData, FilesInv, WriteOnceInv
    <3>2. CASE its_pc' = "data_set"
      <4>1. nvs' = [nvs EXCEPT ![k] = WholeFile(f)] /\ its_call' = its_call
        BY <2>1, <2>4, <3>1, <3>2
        DEF SetData, PutBlobs, ItsReturn, ItsGoto, HeaderOnly, WholeFile
      <4>2. QED
        BY <1>1, <1>2, <1>3, <1>5, <2>1, <3>2, <4>1
        DEF FilesInv, IdleNoCall, StoreCallsSet, SaveProgress, RemovalProgress
    <3>3. CASE /\ its_pc' = "idle" /\ its_ret' = "INSUFFICIENT_STORAGE" /\ nvs' = nvs
      BY <1>1, <1>3, <1>5, <3>1, <3>3
      DEF FilesInv, IdleNoCall, StoreCallsSet, SaveProgress, RemovalProgress
    <3>4. QED
      BY <2>4, <3>2, <3>3 DEF SetData, ItsGoto, ItsReturn
  <2>5. CASE CommitData
    <3>1. /\ nvs[k] = WholeFile(f) /\ nvs' = nvs
          /\ its_pc' = "idle" /\ its_ret' = "SUCCESS"
      BY <1>5, <2>5
      DEF CommitData, CommitBlobs, ItsReturn, FilesInv, SaveProgress
    <3>2. QED
      BY <1>1, <1>3, <1>5, <3>1
      DEF FilesInv, IdleNoCall, StoreCallsSet, SaveProgress, RemovalProgress
  <2>6. QED
    BY <2>1, <2>2, <2>3, <2>4, <2>5 DEF ItsProgress, ItsStep, EraseAll
<1>6. CASE ks_pc = "destroy_remove"
  <2>1. EraseAll /\ its_call.uid = ks_call.key /\ nvs[ks_call.key].header # 0
    BY <1>3, <1>6
    DEF FilesInv, RemovalProgress, ItsProgress, ItsStep, SetHeader, CommitHeader,
        SetData, CommitData
  <2>2. ks_call.key \in Uids
    BY <1>6 DEF FilesInv, WriteOnceInv, TypeInv, CallMatchesPc, Keys
  <2>3. /\ its_pc' = "idle"
        /\ its_ret' = "SUCCESS" <=> nvs'[ks_call.key].header = 0
    BY <1>2, <2>1, <2>2 DEF EraseAll, PutBlobs, ItsReturn, Erased
  <2>4. QED
    BY <1>1, <1>3, <1>6, <2>3
    DEF FilesInv, IdleNoCall, StoreCallsSet, SaveProgress, RemovalProgress
<1>7. QED
  BY <1>4, <1>5, <1>6

LEMMA PresentOrErased ==
    ASSUME WritesThrough, FilesInv, NEW k \in Keys,
           NEW present \in PresentInStorage(k)
    PROVE  /\ present \in BOOLEAN
           /\ ~ present => nvs[k] = Erased
           /\ present <=> nvs[k].header # 0
<1>1. present \in BOOLEAN
  BY DEF PresentInStorage
<1>2. ~ present => nvs[k] = Erased
  BY <1>1, NotPresentIsErased DEF FilesInv
<1>3. PICK info \in GetInfo(k) : present = (info.status # "DOES_NOT_EXIST")
  BY DEF PresentInStorage
<1>4. nvs[k].header = 0 => info.status = "DOES_NOT_EXIST"
  BY DEF GetInfo
<1>5. ASSUME nvs[k].header = 0, present PROVE FALSE
  BY <1>3, <1>4, <1>5, Zenon
<1>6. nvs[k] = Erased => nvs[k].header = 0
  BY DEF Erased
<1>7. QED
  BY <1>1, <1>2, <1>5, <1>6

(* A save that has returned from psa_its_set with success finds its file.  *)
LEMMA SavedIsThere ==
    ASSUME WritesThrough, FilesInv, ks_pc = "store_set", its_pc = "idle",
           its_ret = "SUCCESS", NEW info \in GetInfo(ks_call.key)
    PROVE  info.status = "SUCCESS" /\ info.size = SizeOf[ks_call.file]
<1>1. nvs[ks_call.key] = WholeFile(ks_call.file) /\ ks_call.file \in Values
  BY DEF FilesInv, SaveProgress, WriteOnceInv, TypeInv, CallMatchesPc
<1>2. nvs[ks_call.key].header = SizeOf[ks_call.file] /\ SizeOf[ks_call.file] # 0
  BY <1>1, ItsAssumption DEF WholeFile
<1>3. Faults \cap {"open", "read"} = {}
  BY DEF WritesThrough
<1>4. QED
  BY <1>2, <1>3 DEF GetInfo

(* The steps that end an operation or begin one.                           *)
SaveStarts(k, f) ==
    /\ ks_pc = "idle" /\ nvs[k] = Erased
    /\ its_pc' = "opened"
    /\ its_call' = [op |-> "set", uid |-> k, value |-> f]
    /\ ks_pc' = "store_set"
    /\ ks_call' = [op |-> "store", key |-> k, file |-> f, status |-> "SUCCESS"]
    /\ ks_ret' = None

RemovalStarts(k) ==
    /\ ks_pc = "idle" /\ nvs[k].header # 0
    /\ its_pc' = "erasing" /\ its_call' = [op |-> "remove", uid |-> k]
    /\ ks_pc' = "destroy_remove"
    /\ ks_call' = [op |-> "destroy", key |-> k]
    /\ ks_ret' = None

NothingToDo(k) ==
    /\ ks_pc = "idle" /\ its_pc' = its_pc
    /\ ks_pc' = "idle" /\ ks_call' = NoCall
    /\ \/ nvs[k].header # 0 /\ ks_ret' = "ALREADY_EXISTS"
       \/ nvs[k] = Erased /\ ks_ret' = "SUCCESS"

Ended ==
    /\ ks_pc # "idle" /\ its_pc' = "idle"
    /\ ks_pc' = "idle" /\ ks_call' = NoCall

SaveEnds ==
    /\ Ended /\ ks_pc = "store_set"
    /\ \/ nvs[ks_call.key] = WholeFile(ks_call.file) /\ ks_ret' = "SUCCESS"
       \/ nvs[ks_call.key] \in {Erased, HeaderOnly(ks_call.file)}
          /\ ks_ret' = "DATA_INVALID"

RemovalEnds ==
    /\ Ended /\ ks_pc = "destroy_remove"
    /\ ks_ret' = IF nvs[ks_call.key].header = 0 THEN "SUCCESS" ELSE "DATA_INVALID"

PowerFails ==
    /\ its_pc' = "idle" /\ ks_pc' = "idle" /\ ks_call' = NoCall /\ ks_ret' = None

LEMMA StepCases ==
    ASSUME WritesThrough, FilesInv, Next, ~ ItsProgress
    PROVE  /\ nvs' = nvs
           /\ \/ \E k \in Keys, f \in Values : SaveStarts(k, f)
              \/ \E k \in Keys : RemovalStarts(k) \/ NothingToDo(k)
              \/ SaveEnds \/ RemovalEnds \/ PowerFails
<1>1. nvs' = nvs
  BY WriteOnceOtherStep DEF FilesInv
<1>2. CASE \E k \in Keys, f \in Values : StoreBegin(k, f)
  <2>1. PICK k \in Keys, f \in Values : StoreBegin(k, f)
    BY <1>2
  <2>2. PICK present \in PresentInStorage(k) :
           IF present
           THEN KsReturn("ALREADY_EXISTS") /\ UNCHANGED itsVars
           ELSE /\ SetOpen(k, f)
                /\ KsGoto("store_set", [op |-> "store", key |-> k, file |-> f,
                                        status |-> "SUCCESS"])
    BY <2>1 DEF StoreBegin
  <2>3. ks_pc = "idle"
    BY <2>1 DEF StoreBegin
  <2>4. /\ present \in BOOLEAN
        /\ ~ present => nvs[k] = Erased
        /\ present <=> nvs[k].header # 0
    BY <2>2, PresentOrErased
  <2>5. CASE present
    BY <1>1, <2>2, <2>3, <2>4, <2>5 DEF KsReturn, itsVars, NothingToDo
  <2>6. CASE ~ present
    <3>1. SaveStarts(k, f)
      BY <2>2, <2>3, <2>4, <2>6 DEF SetOpen, KsGoto, WritesThrough, SaveStarts
    <3>2. QED
      BY <1>1, <3>1
  <2>7. QED
    BY <2>4, <2>5, <2>6
<1>3. CASE \E k \in Keys : DestroyBegin(k)
  <2>1. PICK k \in Keys : DestroyBegin(k)
    BY <1>3
  <2>2. PICK present \in PresentInStorage(k) :
           IF present
           THEN /\ RemoveOpen(k)
                /\ KsGoto("destroy_remove", [op |-> "destroy", key |-> k])
           ELSE KsReturn("SUCCESS") /\ UNCHANGED itsVars
    BY <2>1 DEF DestroyBegin
  <2>3. ks_pc = "idle"
    BY <2>1 DEF DestroyBegin
  <2>4. /\ present \in BOOLEAN
        /\ ~ present => nvs[k] = Erased
        /\ present <=> nvs[k].header # 0
    BY <2>2, PresentOrErased
  <2>5. CASE present
    <3>1. RemovalStarts(k)
      BY <2>2, <2>3, <2>4, <2>5 DEF RemoveOpen, KsGoto, WritesThrough, RemovalStarts
    <3>2. QED
      BY <1>1, <3>1
  <2>6. CASE ~ present
    BY <1>1, <2>2, <2>3, <2>4, <2>6 DEF KsReturn, itsVars, NothingToDo
  <2>7. QED
    BY <2>4, <2>5, <2>6
<1>4. CASE StoreVerify
  <2>1. ks_pc = "store_set" /\ its_pc = "idle"
    BY <1>4 DEF StoreVerify
  <2>2. CASE its_ret # "SUCCESS"
    <3>1. nvs[ks_call.key] \in {Erased, HeaderOnly(ks_call.file)}
      BY <2>1, <2>2 DEF FilesInv, SaveProgress
    <3>2. SaveEnds
      BY <1>4, <2>1, <2>2, <3>1 DEF StoreVerify, KsReturn, itsVars, Ended, SaveEnds
    <3>3. QED
      BY <1>1, <3>2
  <2>3. CASE its_ret = "SUCCESS"
    <3>1. nvs[ks_call.key] = WholeFile(ks_call.file)
      BY <2>1, <2>3 DEF FilesInv, SaveProgress
    <3>2. KsReturn("SUCCESS") /\ UNCHANGED itsVars
      BY <1>4, <2>1, <2>3, SavedIsThere DEF StoreVerify
    <3>3. SaveEnds
      BY <2>1, <3>1, <3>2 DEF KsReturn, itsVars, Ended, SaveEnds
    <3>4. QED
      BY <1>1, <3>3
  <2>4. QED
    BY <2>2, <2>3
<1>5. CASE StoreCleanup
  BY <1>5 DEF StoreCleanup, FilesInv
<1>6. CASE DestroyVerify
  <2>1. ks_pc = "destroy_remove" /\ its_pc = "idle" /\ UNCHANGED itsVars
    BY <1>6 DEF DestroyVerify
  <2>2. ks_call.key \in Keys
    BY <2>1 DEF FilesInv, WriteOnceInv, TypeInv, CallMatchesPc
  <2>3. PICK present \in PresentInStorage(ks_call.key) :
           IF its_ret # "SUCCESS" \/ present THEN KsReturn("DATA_INVALID")
                                             ELSE KsReturn("SUCCESS")
    BY <1>6 DEF DestroyVerify
  <2>4. present \in BOOLEAN /\ (present <=> nvs[ks_call.key].header # 0)
    BY <2>2, <2>3, PresentOrErased
  <2>5. its_ret = "SUCCESS" <=> nvs[ks_call.key].header = 0
    BY <2>1 DEF FilesInv, RemovalProgress
  <2>6. RemovalEnds
    BY <2>1, <2>3, <2>4, <2>5 DEF KsReturn, itsVars, Ended, RemovalEnds
  <2>7. QED
    BY <1>1, <2>6
<1>7. CASE Crash
  BY <1>1, <1>7 DEF Crash, ItsCrash, PowerFails
<1>8. QED
  BY <1>2, <1>3, <1>4, <1>5, <1>6, <1>7 DEF Next, Operation

LEMMA FilesStep ==
    ASSUME WritesThrough, FilesInv, [Next]_vars
    PROVE  FilesInv'
<1> USE DEF FilesInv, IdleNoCall, StoreCallsSet, SaveProgress, RemovalProgress
<1>1. CASE UNCHANGED vars
  <2>1. WriteOnceInv'
    BY <1>1, WriteOnceOtherStep, WriteOnceItsStep
  <2>2. QED
    BY <1>1, <2>1 DEF vars, itsVars, ksVars
<1>2. CASE ItsProgress
  BY <1>2, FilesItsStep
<1>3. CASE Next /\ ~ ItsProgress
  <2>1. WriteOnceInv'
    BY <1>3, WriteOnceOtherStep
  <2>2. nvs' = nvs
    BY <1>3, StepCases
  <2>3. CASE \E k \in Keys, f \in Values : SaveStarts(k, f)
    BY <2>1, <2>2, <2>3 DEF SaveStarts
  <2>4. CASE \E k \in Keys : RemovalStarts(k)
    BY <2>1, <2>2, <2>4 DEF RemovalStarts
  <2>5. CASE \E k \in Keys : NothingToDo(k)
    BY <2>1, <2>2, <2>5 DEF NothingToDo
  <2>6. CASE SaveEnds \/ RemovalEnds \/ PowerFails
    BY <2>1, <2>2, <2>6 DEF SaveEnds, RemovalEnds, Ended, PowerFails
  <2>7. QED
    BY <1>3, <2>3, <2>4, <2>5, <2>6, StepCases
<1>4. QED
  BY <1>1, <1>2, <1>3

(* What the callers see of the state.                                      *)
ShownFiles == [k \in Keys |-> IF BeingSaved(k) THEN "absent" ELSE EntryOf(nvs[k])]
ShownCall ==
    CASE ks_call.op = "store" ->
            [op |-> "save", key |-> ks_call.key, file |-> ks_call.file]
      [] ks_call.op = "destroy" -> [op |-> "destroy", key |-> ks_call.key]
      [] OTHER -> [op |-> "none"]
ShownResult == CASE ks_ret = "SUCCESS" -> "done"
                 [] ks_ret = None -> "none"
                 [] OTHER -> "failed"
ShownVars == <<ShownFiles, ShownCall, ShownResult>>

LEMMA FilesInitRefines == Init => Service!FilesInit
<1> SUFFICES ASSUME Init PROVE Service!FilesInit
  OBVIOUS
<1>1. ShownCall = [op |-> "none"] /\ ~ \E k \in Keys : BeingSaved(k)
  BY DEF Init, NoCall, ShownCall, BeingSaved
<1>2. ShownFiles = [k \in Keys |-> "absent"]
  BY <1>1, AbsentIsErased DEF Init, ItsInit, Keys, ShownFiles
<1>3. ShownResult = "none"
  BY DEF Init, None, ShownResult
<1>4. QED
  BY <1>1, <1>2, <1>3
  DEF Service!FilesInit, Service!Idle, Service!Absent, ShownFiles, ShownCall,
      ShownResult

LEMMA AbsentIsNoHeader ==
    ASSUME FilesInv, NEW k \in Keys
    PROVE  EntryOf(nvs[k]) = "absent" <=> nvs[k].header = 0
<1>1. nvs[k].data \in Values \cup {None}
  BY DEF FilesInv, WriteOnceInv, TypeInv, KsTypeOK, ItsTypeOK, Entry, Keys
<1>2. QED
  BY <1>1, KeyFilesAreNotMarks DEF EntryOf

(* Inside a call: the file under construction does not show, the file that *)
(* is being destroyed may go.                                              *)
LEMMA ItsStepServes ==
    ASSUME WritesThrough, FilesInv, ItsProgress
    PROVE  Service!FilesNext \/ UNCHANGED ShownVars
<1>1. nvs \in [Uids -> Entry]
  BY DEF FilesInv, WriteOnceInv, TypeInv, KsTypeOK, ItsTypeOK
<1>2. UNCHANGED ksVars /\ its_pc # "idle"
  BY DEF ItsProgress, ItsStep, SetHeader, CommitHeader, SetData, CommitData, EraseAll
<1>3. ShownCall' = ShownCall /\ ShownResult' = ShownResult
  BY <1>2 DEF ksVars, ShownCall, ShownResult
<1>4. \A k : BeingSaved(k)' <=> BeingSaved(k)
  BY <1>2 DEF ksVars, BeingSaved
<1>5. ks_pc \in {"store_set", "destroy_remove"}
  BY <1>2 DEF FilesInv, IdleNoCall, WriteOnceInv, TypeInv, KsTypeOK
<1>6. \A u \in Uids : u # its_call.uid => nvs'[u] = nvs[u]
  BY <1>1
  DEF ItsProgress, ItsStep, SetHeader, CommitHeader, SetData, CommitData, EraseAll,
      PutBlobs, CommitBlobs
<1>7. CASE ks_pc = "store_set"
  <2>1. BeingSaved(its_call.uid)
    BY <1>2, <1>7, SaveWrites
    DEF BeingSaved, FilesInv, WriteOnceInv, TypeInv, CallMatchesPc
  <2>2. ShownFiles' = ShownFiles
    BY <1>4, <1>6, <2>1 DEF ShownFiles, Keys, BeingSaved
  <2>3. QED
    BY <1>3, <2>2 DEF ShownVars
<1>8. CASE ks_pc = "destroy_remove"
  <2> DEFINE k == ks_call.key
  <2>1. its_call.uid = k /\ k \in Keys /\ ks_call.op = "destroy" /\ EraseAll
    BY <1>2, <1>8
    DEF FilesInv, RemovalProgress, WriteOnceInv, TypeInv, CallMatchesPc, ItsProgress,
        ItsStep, SetHeader, CommitHeader, SetData, CommitData
  <2>2. \A j : ~ BeingSaved(j)
    BY <2>1 DEF BeingSaved
  <2>3. ShownCall = [op |-> "destroy", key |-> k]
    BY <2>1 DEF ShownCall
  <2>4. CASE nvs' = nvs
    BY <1>3, <1>4, <2>4 DEF ShownFiles, ShownVars
  <2>5. CASE nvs' = [nvs EXCEPT ![k] = Erased]
    <3>1. ShownFiles' = [ShownFiles EXCEPT ![k] = "absent"]
      BY <1>1, <1>4, <2>2, <2>5, AbsentIsErased DEF ShownFiles, Keys
    <3>2. Service!FileGoes
      BY <1>3, <2>3, <3>1
      DEF Service!FileGoes, Service!Absent, ShownFiles, ShownCall, ShownResult
    <3>3. QED
      BY <3>2 DEF Service!FilesNext
  <2>6. QED
    BY <2>1, <2>4, <2>5 DEF EraseAll, PutBlobs
<1>9. QED
  BY <1>5, <1>7, <1>8

(* At the edges of a call.                                                 *)
LEMMA CallStepServes ==
    ASSUME WritesThrough, FilesInv, Next, ~ ItsProgress
    PROVE  Service!FilesNext
<1>1. nvs' = nvs
  BY StepCases
<1>2. ks_pc \in {"idle", "store_set", "destroy_remove"}
  BY DEF FilesInv, WriteOnceInv, TypeInv, KsTypeOK
<1>3. ks_pc = "idle" =>
        /\ ShownCall = [op |-> "none"]
        /\ \A k \in Keys : ShownFiles[k] = EntryOf(nvs[k])
  BY DEF FilesInv, IdleNoCall, NoCall, ShownCall, ShownFiles, BeingSaved
<1>4. ks_call' = NoCall =>
        /\ ShownCall' = [op |-> "none"]
        /\ ShownFiles' = [k \in Keys |-> EntryOf(nvs[k])]
  BY <1>1 DEF NoCall, ShownCall, ShownFiles, BeingSaved
<1>5. ASSUME NEW k \in Keys, NEW f \in Values, SaveStarts(k, f)
      PROVE  Service!FilesNext
  <2>1. ShownCall' = [op |-> "save", key |-> k, file |-> f]
    BY <1>5 DEF SaveStarts, ShownCall
  <2>2. ShownResult' = "none"
    BY <1>5 DEF SaveStarts, ShownResult, None
  <2>3. ShownFiles' = ShownFiles
    <3>1. \A j : BeingSaved(j)' <=> j = k
      BY <1>5 DEF SaveStarts, BeingSaved
    <3>2. \A j : ~ BeingSaved(j)
      BY <1>5 DEF SaveStarts, FilesInv, IdleNoCall, NoCall, BeingSaved
    <3>3. EntryOf(nvs[k]) = "absent"
      BY <1>5, AbsentIsErased DEF SaveStarts
    <3>4. QED
      BY <1>1, <3>1, <3>2, <3>3 DEF ShownFiles
  <2>4. QED
    BY <1>3, <1>5, <2>1, <2>2, <2>3
    DEF SaveStarts, Service!FilesNext, Service!Begin, Service!Idle, ShownFiles,
        ShownCall, ShownResult
<1>6. ASSUME NEW k \in Keys, RemovalStarts(k)
      PROVE  Service!FilesNext
  <2>1. ShownCall' = [op |-> "destroy", key |-> k]
    BY <1>6 DEF RemovalStarts, ShownCall
  <2>2. ShownResult' = "none"
    BY <1>6 DEF RemovalStarts, ShownResult, None
  <2>3. ShownFiles' = ShownFiles
    <3>1. \A j : ~ BeingSaved(j)'
      BY <1>6 DEF RemovalStarts, BeingSaved
    <3>2. \A j : ~ BeingSaved(j)
      BY <1>6 DEF RemovalStarts, FilesInv, IdleNoCall, NoCall, BeingSaved
    <3>3. QED
      BY <1>1, <3>1, <3>2 DEF ShownFiles
  <2>4. QED
    BY <1>3, <1>6, <2>1, <2>2, <2>3
    DEF RemovalStarts, Service!FilesNext, Service!Begin, Service!Idle, ShownFiles,
        ShownCall, ShownResult
<1>7. ASSUME NEW k \in Keys, NothingToDo(k)
      PROVE  Service!FilesNext
  <2>1. ShownFiles' = ShownFiles /\ ShownCall = [op |-> "none"]
        /\ ShownCall' = [op |-> "none"]
    BY <1>1, <1>3, <1>4, <1>7
    DEF NothingToDo, FilesInv, IdleNoCall, NoCall, ShownFiles, BeingSaved
  <2>2. \/ ShownFiles[k] # "absent" /\ ShownResult' = "failed"
        \/ ShownFiles[k] = "absent" /\ ShownResult' = "done"
    BY <1>3, <1>7, AbsentIsNoHeader, AbsentIsErased DEF NothingToDo, ShownResult, None
  <2>3. Service!ReturnAtOnce(k)
    BY <2>1, <2>2
    DEF Service!ReturnAtOnce, Service!Return, Service!Idle, Service!Absent,
        ShownFiles, ShownCall, ShownResult
  <2>4. QED
    BY <2>3 DEF Service!FilesNext
<1>8. ks_pc = "store_set" =>
        /\ ks_call.key \in Keys /\ ks_call.file \in Values
        /\ ShownCall = [op |-> "save", key |-> ks_call.key, file |-> ks_call.file]
        /\ ShownFiles[ks_call.key] = "absent"
        /\ \A j \in Keys : j # ks_call.key => ShownFiles[j] = EntryOf(nvs[j])
  BY DEF FilesInv, WriteOnceInv, TypeInv, CallMatchesPc, ShownCall, ShownFiles,
         BeingSaved
<1>9. ks_pc = "store_set" /\ ks_call' = NoCall =>
        ShownFiles' = [ShownFiles EXCEPT ![ks_call.key] = EntryOf(nvs[ks_call.key])]
  BY <1>4, <1>8 DEF ShownFiles
<1>10. ks_pc = "destroy_remove" =>
        /\ ks_call.key \in Keys
        /\ ShownCall = [op |-> "destroy", key |-> ks_call.key]
        /\ \A j \in Keys : ShownFiles[j] = EntryOf(nvs[j])
  BY DEF FilesInv, WriteOnceInv, TypeInv, CallMatchesPc, ShownCall, ShownFiles,
         BeingSaved
<1>11. (ks_pc = "destroy_remove" \/ ks_pc = "idle") /\ ks_call' = NoCall =>
        ShownFiles' = ShownFiles
  BY <1>3, <1>4, <1>10 DEF ShownFiles
<1>12. CASE SaveEnds
  <2> DEFINE k == ks_call.key
             f == ks_call.file
             Ends(r) == /\ ShownFiles' = [ShownFiles EXCEPT ![k] = r.file]
                        /\ ShownResult' = r.status
  <2>1. ks_pc = "store_set" /\ ks_call' = NoCall
    BY <1>12 DEF SaveEnds, Ended
  <2>2. ShownFiles' = [ShownFiles EXCEPT ![k] = EntryOf(nvs[k])]
    BY <1>9, <2>1
  <2>3. \/ nvs[k] = WholeFile(f) /\ ks_ret' = "SUCCESS"
        \/ nvs[k] = Erased /\ ks_ret' = "DATA_INVALID"
        \/ nvs[k] = HeaderOnly(f) /\ ks_ret' = "DATA_INVALID"
    BY <1>12 DEF SaveEnds
  <2>4. \/ Ends([status |-> "done", file |-> f])
        \/ Ends([status |-> "failed", file |-> "absent"])
        \/ Ends([status |-> "failed", file |-> "torn"])
    BY <1>8, <2>1, <2>2, <2>3, EntryCases DEF ShownResult, None
  <2>5. Service!SaveResults(ShownFiles[k], f) =
          { [status |-> "failed", file |-> "absent"],
            [status |-> "done", file |-> f], [status |-> "failed", file |-> "torn"] }
    BY <1>8, <2>1 DEF Service!SaveResults, Service!Absent, Service!Torn
  <2>6. \E r \in Service!SaveResults(ShownFiles[k], f) : Ends(r)
    BY <2>4, <2>5
  <2>7. /\ ShownCall.op = "save" /\ ShownCall.key = k /\ ShownCall.file = f
        /\ ShownCall' = [op |-> "none"]
    BY <1>4, <1>8, <2>1
  <2>8. Service!SaveReturns
    BY <2>6, <2>7
    DEF Service!SaveReturns, Service!Return, Service!Idle, ShownFiles, ShownCall,
        ShownResult
  <2>9. QED
    BY <2>8 DEF Service!FilesNext
<1>13. CASE RemovalEnds
  <2>1. ks_pc = "destroy_remove" /\ ks_call' = NoCall
    BY <1>13 DEF RemovalEnds, Ended
  <2>2. /\ ShownFiles' = ShownFiles
        /\ ShownCall' = [op |-> "none"]
        /\ ShownCall.op = "destroy" /\ ShownCall.key = ks_call.key
    BY <1>4, <1>10, <1>11, <2>1
  <2>3. ShownResult' = IF ShownFiles[ks_call.key] = "absent" THEN "done" ELSE "failed"
    BY <1>10, <1>13, <2>1, AbsentIsNoHeader DEF RemovalEnds, ShownResult, None
  <2>4. Service!DestroyReturns
    BY <2>2, <2>3
    DEF Service!DestroyReturns, Service!Return, Service!Idle, Service!Absent,
        ShownFiles, ShownCall, ShownResult
  <2>5. QED
    BY <2>4 DEF Service!FilesNext
<1>14. CASE PowerFails
  <2>1. ks_call' = NoCall /\ ShownCall' = [op |-> "none"] /\ ShownResult' = "none"
    BY <1>4, <1>14 DEF PowerFails, ShownResult, None
  <2>2. CASE ks_pc # "store_set"
    <3>1. ShownFiles' = ShownFiles
      BY <1>2, <1>11, <2>1, <2>2
    <3>2. QED
      BY <2>1, <3>1
      DEF Service!FilesNext, Service!PowerFailure, Service!Return, Service!Idle,
          ShownFiles, ShownCall, ShownResult
  <2>3. CASE ks_pc = "store_set"
    <3> DEFINE k == ks_call.key
               f == ks_call.file
    <3>1. nvs[k] \in {Erased, HeaderOnly(f), WholeFile(f)}
      <4>1. its_pc # "idle" => its_pc \in {"opened", "header_set",
                                           "header_committed", "data_set"}
        BY <2>3, SaveWrites DEF FilesInv, WriteOnceInv, TypeInv, KsTypeOK, ItsTypeOK
      <4>2. its_pc # "idle" => its_call.uid = k /\ its_call.value = f
        BY <2>3, SaveWrites
      <4>3. QED
        BY <2>3, <4>1, <4>2 DEF FilesInv, WriteOnceInv, SaveProgress
    <3>2. ShownFiles' = [ShownFiles EXCEPT ![k] = EntryOf(nvs[k])]
      BY <1>9, <2>1, <2>3
    <3>3. \/ ShownFiles' = [ShownFiles EXCEPT ![k] = "absent"]
          \/ \E g \in {"torn", f} : ShownFiles' = [ShownFiles EXCEPT ![k] = g]
      BY <1>8, <2>3, <3>1, <3>2, EntryCases
    <3>4. ShownFiles[k] = "absent" /\ ShownFiles = [j \in Keys |-> ShownFiles[j]]
      BY <1>8, <2>3 DEF ShownFiles
    <3>5. \/ ShownFiles' = ShownFiles
          \/ \E g \in {"torn", f} : ShownFiles' = [ShownFiles EXCEPT ![k] = g]
      BY <3>3, <3>4
    <3>6. ShownCall.op = "save" /\ ShownCall.key = k /\ ShownCall.file = f
      BY <1>8, <2>3
    <3>7. Service!PowerFailure
      BY <2>1, <3>5, <3>6
      DEF Service!PowerFailure, Service!Return, Service!Idle, Service!Torn,
          ShownFiles, ShownCall, ShownResult
    <3>8. QED
      BY <3>7 DEF Service!FilesNext
  <2>4. QED
    BY <2>2, <2>3
<1>15. QED
  BY <1>5, <1>6, <1>7, <1>12, <1>13, <1>14, StepCases

(* On a driver that writes through, the calls of psa_crypto_storage.h      *)
(* implement key files: each ends with a result that the key slots expect, *)
(* and a power failure at any moment of it touches no other file.          *)
THEOREM StorageServesKeyFiles == WritesThrough => (Spec => ImplementsKeyFiles)
<1> SUFFICES ASSUME WritesThrough PROVE Spec => ImplementsKeyFiles
  OBVIOUS
<1>1. FilesInv /\ [Next]_vars => FilesInv'
  BY FilesStep
<1>2. FilesInv /\ [Next]_vars => [Service!FilesNext]_(Service!filesVars)
  <2>1. UNCHANGED vars => UNCHANGED ShownVars
    BY DEF vars, itsVars, ksVars, ShownVars, ShownFiles, ShownCall, ShownResult,
           BeingSaved
  <2>2. UNCHANGED ShownVars => UNCHANGED Service!filesVars
    BY DEF Service!filesVars, ShownVars, ShownFiles, ShownCall, ShownResult
  <2>3. QED
    BY <2>1, <2>2, ItsStepServes, CallStepServes
<1>3. QED
  BY <1>1, <1>2, FilesInit, FilesInitRefines, PTL
  DEF Spec, ImplementsKeyFiles, Service!FilesSpec
=============================================================================
