------------------------------- MODULE ItsNvs -------------------------------
(***************************************************************************)
(* Internal trusted storage over the ESP32 non-volatile storage driver     *)
(* (src/psa_layer/psa_its_nvs.c on src/hal/nvs).  Every uid is an NVS      *)
(* namespace holding two blobs, "header" (the size of the data) and        *)
(* "data".  A call of psa_its_set or psa_its_remove is several driver      *)
(* calls, and the power may fail between any two of them; the read-only    *)
(* calls are operators that return the set of their possible results.      *)
(***************************************************************************)
EXTENDS Naturals

CONSTANTS
    Uids,       \* storage uids in use
    Values,     \* the values a client stores (formatted key files)
    SizeOf,     \* SizeOf[v]: number of bytes of v, never 0
    Faults      \* what may go wrong in the driver, see FaultKinds

FaultKinds ==
    { "open",       \* nvs_open fails
      "set",        \* nvs_set_blob fails (full or worn flash)
      "commit",     \* nvs_commit fails
      "erase",      \* nvs_erase_all fails
      "read",       \* nvs_get_blob fails although the blob is there
      "buffer",     \* changes are lost by a power failure until committed
      "tear" }      \* a power failure stops nvs_erase_all half way

None == "none"

ASSUME ItsAssumption ==
    /\ SizeOf \in [Values -> Nat \ {0}]
    /\ None \notin Values
    /\ Faults \subseteq FaultKinds

VARIABLES
    nvs,        \* nvs[u]: the two blobs of namespace u, as reads see them
    durable,    \* the part of nvs that no power failure can undo
    its_pc,     \* where the running psa_its_set or psa_its_remove is
    its_call,   \* its arguments
    its_ret     \* the status of the last call that returned

itsVars == <<nvs, durable, its_pc, its_call, its_ret>>

Statuses ==
    { "SUCCESS", "DOES_NOT_EXIST", "STORAGE_FAILURE", "INSUFFICIENT_STORAGE",
      "INVALID_ARGUMENT", "DATA_CORRUPT", "DATA_INVALID", "ALREADY_EXISTS" }

Entry == [header : {SizeOf[v] : v \in Values} \cup {0},
          data   : Values \cup {None}]
Erased == [header |-> 0, data |-> None]      \* header 0: no such blob

NoCall == [op |-> "none"]
ItsCalls ==
    {NoCall} \cup [op : {"set"}, uid : Uids, value : Values]
             \cup [op : {"remove"}, uid : Uids]

ItsTypeOK ==
    /\ nvs \in [Uids -> Entry]
    /\ durable \in [Uids -> Entry]
    /\ its_pc \in {"idle", "opened", "header_set", "header_committed",
                   "data_set", "erasing"}
    /\ its_call \in ItsCalls
    /\ its_ret \in Statuses \cup {None}

ItsInit ==
    /\ nvs = [u \in Uids |-> Erased]
    /\ durable = [u \in Uids |-> Erased]
    /\ its_pc = "idle"
    /\ its_call = NoCall
    /\ its_ret = None

(* A change of the blobs of u becomes permanent at once when the driver    *)
(* writes through, and at the next commit of u when it buffers.            *)
PutBlobs(u, e) ==
    /\ nvs' = [nvs EXCEPT ![u] = e]
    /\ durable' = IF "buffer" \in Faults THEN durable ELSE nvs'

(* nvs_commit; psa_its_set ignores its status.                             *)
CommitBlobs(u) ==
    /\ \/ durable' = [durable EXCEPT ![u] = nvs[u]]
       \/ "commit" \in Faults /\ UNCHANGED durable
    /\ UNCHANGED nvs

(* Every exit path closes the handle and returns.                          *)
ItsReturn(status) ==
    /\ its_pc' = "idle"
    /\ its_call' = NoCall
    /\ its_ret' = status

ItsGoto(label) ==
    /\ its_pc' = label
    /\ UNCHANGED <<its_call, its_ret>>

-----------------------------------------------------------------------------
(* psa_its_set *)

SetOpen(u, v) ==
    /\ its_pc = "idle"
    /\ \/ /\ its_pc' = "opened"
          /\ its_call' = [op |-> "set", uid |-> u, value |-> v]
          /\ its_ret' = None
       \/ "open" \in Faults /\ ItsReturn("STORAGE_FAILURE")
    /\ UNCHANGED <<nvs, durable>>

SetHeader_OffByOne ==   \* mutant: the size counts a terminating byte
    /\ its_pc = "opened"
    /\ PutBlobs(its_call.uid, [nvs[its_call.uid] EXCEPT
                                 !.header = SizeOf[its_call.value] + 1])
    /\ ItsGoto("header_set")

SetHeader ==
    /\ its_pc = "opened"
    /\ \/ /\ PutBlobs(its_call.uid, [nvs[its_call.uid] EXCEPT
                                       !.header = SizeOf[its_call.value]])
          /\ ItsGoto("header_set")
       \/ /\ "set" \in Faults
          /\ ItsReturn("INSUFFICIENT_STORAGE")
          /\ UNCHANGED <<nvs, durable>>

CommitHeader ==
    /\ its_pc = "header_set"
    /\ CommitBlobs(its_call.uid)
    /\ ItsGoto("header_committed")

SetData ==
    /\ its_pc = "header_committed"
    /\ \/ /\ PutBlobs(its_call.uid, [nvs[its_call.uid] EXCEPT
                                       !.data = its_call.value])
          /\ ItsGoto("data_set")
       \/ /\ "set" \in Faults
          /\ ItsReturn("INSUFFICIENT_STORAGE")
          /\ UNCHANGED <<nvs, durable>>

CommitData_Missing ==   \* mutant: the second commit is forgotten
    /\ its_pc = "data_set"
    /\ ItsReturn("SUCCESS")
    /\ UNCHANGED <<nvs, durable>>

CommitData ==
    /\ its_pc = "data_set"
    /\ CommitBlobs(its_call.uid)
    /\ ItsReturn("SUCCESS")

-----------------------------------------------------------------------------
(* psa_its_remove: it never commits, and leaks the handle when the erase   *)
(* fails.                                                                  *)

RemoveOpen(u) ==
    /\ its_pc = "idle"
    /\ \/ /\ its_pc' = "erasing"
          /\ its_call' = [op |-> "remove", uid |-> u]
          /\ its_ret' = None
       \/ "open" \in Faults /\ ItsReturn("DOES_NOT_EXIST")
    /\ UNCHANGED <<nvs, durable>>

EraseAll ==
    /\ its_pc = "erasing"
    /\ \/ PutBlobs(its_call.uid, Erased) /\ ItsReturn("SUCCESS")
       \/ /\ "erase" \in Faults
          /\ ItsReturn("STORAGE_FAILURE")
          /\ UNCHANGED <<nvs, durable>>

-----------------------------------------------------------------------------
(* psa_its_get_info: any failure to open or to read the header is reported *)
(* as a missing file.                                                      *)
GetInfo(u) ==
    LET size == nvs[u].header IN
    {[status |-> IF size = 0 THEN "DOES_NOT_EXIST" ELSE "SUCCESS",
      size   |-> size]}
    \cup {[status |-> "DOES_NOT_EXIST", size |-> 0] :
             f \in Faults \cap {"open", "read"}}

(* psa_its_get(u, 0, len): length and status of the read of "data" go      *)
(* different ways.  The status is dropped; the length is left as it was    *)
(* when the blob does not exist, so the call then succeeds and writes      *)
(* nothing in the caller's buffer.                                         *)
Blank == "blank"
ItsGet(u, len) ==
    LET e == nvs[u]
        Result(s, d) == [status |-> s, data |-> d]
    IN  {IF e.header = 0 THEN Result("DATA_CORRUPT", None)
         ELSE IF len > e.header THEN Result("INVALID_ARGUMENT", None)
         ELSE IF e.data = None THEN Result("SUCCESS", Blank)
         ELSE IF SizeOf[e.data] # len THEN Result("STORAGE_FAILURE", None)
         ELSE Result("SUCCESS", e.data)}
        \cup {Result("DOES_NOT_EXIST", None) : f \in Faults \cap {"open"}}
        \cup {Result("DATA_CORRUPT", None) : f \in Faults \cap {"read"}}
        \cup {Result("SUCCESS", Blank) :
                f \in {g \in Faults \cap {"read"} : len <= e.header}}

-----------------------------------------------------------------------------
(* A power failure or a reset.  Each blob comes back as reads saw it or as *)
(* it was last made permanent; an erase under way may have reached either  *)
(* blob.                                                                   *)
Surviving(u) ==
    LET torn == /\ "tear" \in Faults
                /\ its_pc = "erasing"
                /\ its_call.uid = u
    IN  [header : {nvs[u].header, durable[u].header}
                     \cup {0 : t \in {torn} \cap {TRUE}},
         data   : {nvs[u].data, durable[u].data}
                     \cup {None : t \in {torn} \cap {TRUE}}]

ItsCrash ==
    /\ \E after \in [Uids -> UNION {Surviving(u) : u \in Uids}] :
          /\ \A u \in Uids : after[u] \in Surviving(u)
          /\ nvs' = after
          /\ durable' = after
    /\ its_pc' = "idle"
    /\ its_call' = NoCall
    /\ its_ret' = None

ItsStep == SetHeader \/ CommitHeader \/ SetData \/ CommitData \/ EraseAll
=============================================================================
