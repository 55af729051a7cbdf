----------------------------- MODULE KeyStorage -----------------------------
(***************************************************************************)
(* Persistent key files (src/psa_layer/psa_crypto_storage.c) on the        *)
(* internal trusted storage of ItsNvs.  Storing and destroying a key are   *)
(* sequences of storage calls, one action per call; loading a key only     *)
(* reads and is the operator psa_load_persistent_key.                      *)
(***************************************************************************)
EXTENDS ItsNvs

VARIABLES
    ks_pc,      \* where the running storage operation is
    ks_call,    \* its arguments
    ks_ret,     \* the status of the last operation that returned
    promised    \* history: promised[k] is the file a returned operation said
                \* k now has (None: no file), Unsettled when the last
                \* operation on k failed or never returned

ksVars == <<ks_pc, ks_call, ks_ret, promised>>
vars == <<itsVars, ksVars>>

Keys == Uids
Unsettled == "unsettled"

ASSUME KeyFilesAreNotMarks ==
    Values \cap {Unsettled, Blank, "absent", "torn"} = {}

KsCalls ==
    {NoCall} \cup [op : {"store"}, key : Keys, file : Values, status : Statuses]
             \cup [op : {"destroy"}, key : Keys]

KsTypeOK ==
    /\ ItsTypeOK
    /\ ks_pc \in {"idle", "store_set", "store_cleanup", "destroy_remove"}
    /\ ks_call \in KsCalls
    /\ ks_ret \in Statuses \cup {None}
    /\ promised \in [Keys -> Values \cup {None, Unsettled}]

Init ==
    /\ ItsInit
    /\ ks_pc = "idle"
    /\ ks_call = NoCall
    /\ ks_ret = None
    /\ promised = [k \in Keys |-> None]

KsGoto(label, call) ==
    /\ ks_pc' = label
    /\ ks_call' = call
    /\ ks_ret' = None

KsReturn(status) ==
    /\ ks_pc' = "idle"
    /\ ks_call' = NoCall
    /\ ks_ret' = status

-----------------------------------------------------------------------------
(* Reading a key file: the length from the header, then the data.  The     *)
(* buffer is zeroed by calloc, so data the storage did not write fails the *)
(* magic check; a short or failed read is DATA_INVALID.                    *)
psa_crypto_storage_load(k, size) ==
    {IF r.status = "SUCCESS" /\ r.data # Blank
     THEN [status |-> "SUCCESS", file |-> r.data]
     ELSE [status |-> "DATA_INVALID", file |-> None] : r \in ItsGet(k, size)}

psa_load_persistent_key(k) ==
    UNION {IF info.status = "SUCCESS"
           THEN psa_crypto_storage_load(k, info.size)
           ELSE {[status |-> info.status, file |-> None]} : info \in GetInfo(k)}

(* psa_is_key_present_in_storage: the possible answers.                    *)
PresentInStorage(k) == {info.status # "DOES_NOT_EXIST" : info \in GetInfo(k)}

-----------------------------------------------------------------------------
(* psa_crypto_storage_store.  When psa_its_set fails, the function returns *)
(* at once and leaves behind whatever psa_its_set had written.             *)
StoreBegin_Overwrites(k, f) ==   \* mutant: no check for an existing key
    /\ ks_pc = "idle"
    /\ SetOpen(k, f)
    /\ KsGoto("store_set", [op |-> "store", key |-> k, file |-> f,
                            status |-> "SUCCESS"])
    /\ promised' = [promised EXCEPT ![k] = Unsettled]

StoreBegin(k, f) ==
    /\ ks_pc = "idle"
    /\ \E present \in PresentInStorage(k) :
         IF present
         THEN /\ KsReturn("ALREADY_EXISTS")
              /\ UNCHANGED <<itsVars, promised>>
         ELSE /\ SetOpen(k, f)
              /\ KsGoto("store_set", [op |-> "store", key |-> k, file |-> f,
                                      status |-> "SUCCESS"])
              /\ promised' = [promised EXCEPT ![k] = Unsettled]

(* Mutant: the status of psa_its_set is not looked at. *)
StoreVerify_StatusIgnored ==
    /\ ks_pc = "store_set"
    /\ its_pc = "idle"
    /\ \E info \in GetInfo(ks_call.key) :
          /\ info.status = "SUCCESS"
          /\ KsReturn("SUCCESS")
          /\ promised' = [promised EXCEPT ![ks_call.key] = ks_call.file]
          /\ UNCHANGED itsVars

StoreVerify ==
    /\ ks_pc = "store_set"
    /\ its_pc = "idle"
    /\ LET k == ks_call.key
           Wrote(info) == /\ info.status = "SUCCESS"
                          /\ info.size = SizeOf[ks_call.file]
       IN  \/ /\ its_ret # "SUCCESS"
              /\ KsReturn("DATA_INVALID")
              /\ UNCHANGED <<itsVars, promised>>
           \/ /\ its_ret = "SUCCESS"
              /\ \E info \in GetInfo(k) :
                   IF Wrote(info)
                   THEN /\ KsReturn("SUCCESS")
                        /\ promised' = [promised EXCEPT ![k] = ks_call.file]
                        /\ UNCHANGED itsVars
                   ELSE /\ RemoveOpen(k)
                        /\ KsGoto("store_cleanup",
                             [ks_call EXCEPT !.status =
                                IF info.status = "SUCCESS" THEN "DATA_INVALID"
                                                           ELSE info.status])
                        /\ UNCHANGED promised

StoreCleanup ==
    /\ ks_pc = "store_cleanup"
    /\ its_pc = "idle"
    /\ KsReturn(ks_call.status)
    /\ UNCHANGED <<itsVars, promised>>

-----------------------------------------------------------------------------
(* psa_destroy_persistent_key *)
DestroyBegin(k) ==
    /\ ks_pc = "idle"
    /\ \E present \in PresentInStorage(k) :
         IF present
         THEN /\ RemoveOpen(k)
              /\ KsGoto("destroy_remove", [op |-> "destroy", key |-> k])
              /\ promised' = [promised EXCEPT ![k] = Unsettled]
         ELSE /\ KsReturn("SUCCESS")
              /\ promised' = [promised EXCEPT ![k] = None]
              /\ UNCHANGED itsVars

DestroyVerify_Unchecked ==   \* mutant: nothing is checked after the removal
    /\ ks_pc = "destroy_remove"
    /\ its_pc = "idle"
    /\ KsReturn("SUCCESS")
    /\ promised' = [promised EXCEPT ![ks_call.key] = None]
    /\ UNCHANGED itsVars

DestroyVerify ==
    /\ ks_pc = "destroy_remove"
    /\ its_pc = "idle"
    /\ UNCHANGED itsVars
    /\ \E present \in PresentInStorage(ks_call.key) :
         IF its_ret # "SUCCESS" \/ present
         THEN KsReturn("DATA_INVALID") /\ UNCHANGED promised
         ELSE /\ KsReturn("SUCCESS")
              /\ promised' = [promised EXCEPT ![ks_call.key] = None]

-----------------------------------------------------------------------------
Crash ==
    /\ ItsCrash
    /\ ks_pc' = "idle"
    /\ ks_call' = NoCall
    /\ ks_ret' = None
    /\ UNCHANGED promised

ItsProgress == ItsStep /\ UNCHANGED ksVars

Operation ==
    \/ ItsProgress
    \/ StoreVerify \/ StoreCleanup \/ DestroyVerify
    \/ \E k \in Keys : DestroyBegin(k) \/ \E f \in Values : StoreBegin(k, f)

Next == Operation \/ Crash

Spec == Init /\ [][Next]_vars

-----------------------------------------------------------------------------
(* The two blobs of a key seen as one entry of the abstract store.         *)
EntryOf(e) ==
    IF e.header = 0 THEN "absent"
    ELSE IF e.data # None /\ SizeOf[e.data] = e.header THEN e.data
    ELSE "torn"

(* A key reported as saved loads, and loads as the file that was saved,    *)
(* through any power failure and any failed operation on other keys, until *)
(* an operation on that key begins (psa_crypto_storage_store).             *)
SavedStaysSaved ==
    \A k \in Keys :
        promised[k] \in Values =>
            psa_load_persistent_key(k) =
                {[status |-> "SUCCESS", file |-> promised[k]]}

(* The same of what the flash holds, whether or not a read of it succeeds: *)
(* psa_crypto_storage_store checks only the size in the header, yet when it *)
(* succeeds both blobs are there and committed.                            *)
SavedOnFlash ==
    \A k \in Keys :
        promised[k] \in Values =>
            /\ EntryOf(nvs[k]) = promised[k]
            /\ durable[k] = nvs[k]

(* A key reported as destroyed by psa_destroy_persistent_key does not come *)
(* back after a power failure.                                             *)
DestroyedStaysDestroyed ==
    \A k \in Keys : promised[k] = None => PresentInStorage(k) = {FALSE}

(* A store that reports an error leaves no file that was not there before: *)
(* psa_crypto_storage_store removes the file "in case we managed to create *)
(* it but something went wrong".                                           *)
FailedStoreLeavesNothing ==
    [][StoreVerify /\ ks_ret' # "SUCCESS" /\ ks_pc' = "idle"
         => nvs[ks_call.key].header = 0]_vars

-----------------------------------------------------------------------------
Abstract ==
    INSTANCE KeyStore WITH
        Files <- Values,
        entry <- [k \in Keys |-> EntryOf(nvs[k])],
        writer <- IF its_call.op = "set"
                  THEN [busy |-> TRUE,
                        key |-> its_call.uid, file |-> its_call.value]
                  ELSE [busy |-> FALSE]

(* Storage over two blobs implements the write-once store: no step, and no *)
(* power failure between two steps, exposes a file that was not written    *)
(* whole, or changes a key other than the one being written or erased.     *)
ImplementsKeyStore == Abstract!StoreSpec

(* What the callers of psa_crypto_storage.h see: a file that is being      *)
(* saved shows when the call has returned, or when a power failure has     *)
(* ended it.                                                               *)
BeingSaved(k) == ks_call.op = "store" /\ ks_call.key = k

Service ==
    INSTANCE KeyFiles WITH
        Files <- Values,
        file <- [k \in Keys |-> IF BeingSaved(k) THEN "absent"
                               ELSE EntryOf(nvs[k])],
        call <- CASE ks_call.op = "store" ->
                        [op |-> "save", key |-> ks_call.key,
                         file |-> ks_call.file]
                  [] ks_call.op = "destroy" ->
                        [op |-> "destroy", key |-> ks_call.key]
                  [] OTHER -> [op |-> "none"],
        result <- CASE ks_ret = "SUCCESS" -> "done"
                    [] ks_ret = None -> "none"
                    [] OTHER -> "failed"

(* Every call of psa_crypto_storage.h ends with a result that the key      *)
(* slots expect of it: a save that succeeds has left the file, one that    *)
(* fails nothing or half of it, and a power failure at any moment touches  *)
(* no other file.                                                          *)
ImplementsKeyFiles == Service!FilesSpec

(* A load that succeeds gives the file that is on the flash, whole: never  *)
(* a torn one, whatever reads fail (psa_load_persistent_key).              *)
LoadsAreTrue ==
    \A k \in Keys : \A r \in psa_load_persistent_key(k) :
        r.status = "SUCCESS" => r.file \in Values /\ r.file = EntryOf(nvs[k])
=============================================================================
