------------------------------ MODULE ItsFile ------------------------------
(***************************************************************************)
(* Internal trusted storage over files (src/psa_layer/psa_its_file.c), the *)
(* build for hosts.  psa_its_set writes a header and the data into one     *)
(* temporary file, closes it, renames it to the file of the uid and        *)
(* removes what may be left of it.  Every library call may fail, the       *)
(* program may die between two of them, and a power failure takes away     *)
(* what the operating system had not yet written to the disk.              *)
(***************************************************************************)
EXTENDS Naturals

CONSTANTS
    FileUids,       \* storage uids in use, none of them 0
    FileValues,     \* the values a client stores
    FileSizeOf,     \* FileSizeOf[v]: number of bytes of v, never 0
    FileFaults      \* the library calls that may fail, see FileFaultKinds

FileFaultKinds == {"fopen", "fwrite", "fclose", "rename", "remove"}

NotThere == "absent"
Unreadable == "torn"

ASSUME ItsFileAssumption ==
    /\ FileSizeOf \in [FileValues -> Nat \ {0}]
    /\ FileValues \cap {NotThere, Unreadable} = {}
    /\ FileFaults \subseteq FileFaultKinds

VARIABLES
    files,      \* files[u]: the file of uid u as programs see it
    temp,       \* the temporary file, shared by all uids
    ondisk,     \* ondisk[u]: the file of u that a power failure leaves
    file_pc,    \* where the running psa_its_set or psa_its_remove is
    file_call,  \* its arguments
    file_ret    \* its status so far, that of the last call when idle

fileVars == <<files, temp, ondisk, file_pc, file_call, file_ret>>

(* A file holds a beginning of what was written: nothing usable, the       *)
(* header, or header and data.                                             *)
NoFile == [exists |-> FALSE]
File(v, n) == [exists |-> TRUE, value |-> v, parts |-> n]
MaybeFile == {NoFile} \cup [exists : {TRUE}, value : FileValues, parts : 0..2]

NoFileCall == [op |-> "none"]
FileCalls == {NoFileCall} \cup [op : {"set"}, uid : FileUids, value : FileValues]
                          \cup [op : {"remove"}, uid : FileUids]

FileStatuses == {"none", "SUCCESS", "DOES_NOT_EXIST", "STORAGE_FAILURE",
                 "INSUFFICIENT_STORAGE"}

FileTypeOK ==
    /\ files \in [FileUids -> MaybeFile]
    /\ temp \in MaybeFile
    /\ ondisk \in [FileUids -> MaybeFile]
    /\ file_pc \in {"idle", "header", "data", "close", "rename",
                    "remove_temp", "unlink"}
    /\ file_call \in FileCalls
    /\ file_ret \in FileStatuses

FileInit ==
    /\ files = [u \in FileUids |-> NoFile]
    /\ temp = NoFile
    /\ ondisk = [u \in FileUids |-> NoFile]
    /\ file_pc = "idle"
    /\ file_call = NoFileCall
    /\ file_ret = "none"

Fails(call) == call \in FileFaults

Goto(label, status) ==
    /\ file_pc' = label
    /\ file_ret' = status
    /\ UNCHANGED file_call

FileReturn(status) ==
    /\ file_pc' = "idle"
    /\ file_call' = NoFileCall
    /\ file_ret' = status

-----------------------------------------------------------------------------
(* psa_its_set *)

OpenTemp(u, v) ==
    /\ file_pc = "idle"
    /\ file_call' = [op |-> "set", uid |-> u, value |-> v]
    /\ \/ /\ temp' = File(v, 0)
          /\ file_pc' = "header"
          /\ file_ret' = "INSUFFICIENT_STORAGE"
       \/ /\ Fails("fopen")
          /\ file_pc' = "remove_temp"
          /\ file_ret' = "STORAGE_FAILURE"
          /\ UNCHANGED temp
    /\ UNCHANGED <<files, ondisk>>

WriteHeader ==
    /\ file_pc = "header"
    /\ \/ temp' = File(file_call.value, 1) /\ Goto("data", file_ret)
       \/ Fails("fwrite") /\ Goto("close", file_ret) /\ UNCHANGED temp
    /\ UNCHANGED <<files, ondisk>>

WriteData ==
    /\ file_pc = "data"
    /\ \/ temp' = File(file_call.value, 2) /\ Goto("close", "SUCCESS")
       \/ Fails("fwrite") /\ Goto("close", file_ret) /\ UNCHANGED temp
    /\ UNCHANGED <<files, ondisk>>

CloseTemp_AlwaysRenames ==   \* mutant: a short write is renamed all the same
    /\ file_pc = "close"
    /\ Goto("rename", file_ret)
    /\ UNCHANGED <<files, temp, ondisk>>

CloseTemp ==
    /\ file_pc = "close"
    /\ \/ Goto(IF file_ret = "SUCCESS" THEN "rename" ELSE "remove_temp", file_ret)
       \/ Fails("fclose") /\ Goto("remove_temp", "INSUFFICIENT_STORAGE")
    /\ UNCHANGED <<files, temp, ondisk>>

RenameTemp ==
    /\ file_pc = "rename"
    /\ \/ /\ files' = [files EXCEPT ![file_call.uid] = temp]
          /\ temp' = NoFile
          /\ Goto("remove_temp", file_ret)
       \/ /\ Fails("rename")
          /\ Goto("remove_temp", "STORAGE_FAILURE")
          /\ UNCHANGED <<files, temp>>
    /\ UNCHANGED ondisk

(* The status of this remove() is ignored.                                 *)
RemoveTemp ==
    /\ file_pc = "remove_temp"
    /\ \/ temp' = NoFile
       \/ Fails("remove") /\ UNCHANGED temp
    /\ FileReturn(file_ret)
    /\ UNCHANGED <<files, ondisk>>

-----------------------------------------------------------------------------
(* psa_its_remove *)

RemoveLooks(u) ==
    /\ file_pc = "idle"
    /\ \/ /\ files[u] # NoFile
          /\ file_pc' = "unlink"
          /\ file_call' = [op |-> "remove", uid |-> u]
          /\ file_ret' = "none"
       \/ /\ files[u] = NoFile \/ Fails("fopen")
          /\ FileReturn("DOES_NOT_EXIST")
    /\ UNCHANGED <<files, temp, ondisk>>

Unlink ==
    /\ file_pc = "unlink"
    /\ \/ /\ files' = [files EXCEPT ![file_call.uid] = NoFile]
          /\ FileReturn("SUCCESS")
       \/ /\ Fails("remove")
          /\ FileReturn("STORAGE_FAILURE")
          /\ UNCHANGED files
    /\ UNCHANGED <<temp, ondisk>>

-----------------------------------------------------------------------------
(* psa_its_get_info and psa_its_get(u, 0, len) on a file f, when no call   *)
(* of theirs fails.                                                        *)
FileGetInfo(f) ==
    IF f = NoFile THEN [status |-> "DOES_NOT_EXIST", size |-> 0]
    ELSE IF f.parts = 0 THEN [status |-> "DATA_CORRUPT", size |-> 0]
    ELSE [status |-> "SUCCESS", size |-> FileSizeOf[f.value]]

FileGet(f, len) ==
    LET info == FileGetInfo(f)
        Result(s, d) == [status |-> s, data |-> d]
    IN  IF info.status # "SUCCESS" THEN Result(info.status, Unreadable)
        ELSE IF len > info.size THEN Result("INVALID_ARGUMENT", Unreadable)
        ELSE IF f.parts < 2 THEN Result("STORAGE_FAILURE", Unreadable)
        ELSE Result("SUCCESS", f.value)

-----------------------------------------------------------------------------
(* The file system, modelled from how psa_its_file.c uses it: it never     *)
(* asks for its files to be brought to the disk.                           *)
Writeback(u) ==
    /\ ondisk' = [ondisk EXCEPT ![u] = files[u]]
    /\ UNCHANGED <<files, temp, file_pc, file_call, file_ret>>

FileCrash ==
    /\ file_pc' = "idle"
    /\ file_call' = NoFileCall
    /\ file_ret' = "none"
    /\ UNCHANGED <<files, temp, ondisk>>

CutShort(f) == IF f = NoFile THEN {NoFile}
               ELSE {[f EXCEPT !.parts = p] : p \in 0..f.parts}

Left(u) == IF files[u] = ondisk[u] THEN {files[u]}
                                   ELSE {ondisk[u]} \cup CutShort(files[u])

PowerFailure ==
    /\ \E after \in [FileUids -> UNION {Left(u) : u \in FileUids}] :
          /\ \A u \in FileUids : after[u] \in Left(u)
          /\ files' = after
          /\ ondisk' = after
    /\ temp' \in {NoFile} \cup CutShort(temp)
    /\ file_pc' = "idle"
    /\ file_call' = NoFileCall
    /\ file_ret' = "none"

FileNext ==
    \/ WriteHeader \/ WriteData \/ CloseTemp \/ RenameTemp \/ RemoveTemp
    \/ Unlink \/ FileCrash \/ PowerFailure
    \/ \E u \in FileUids : \/ RemoveLooks(u) \/ Writeback(u)
                       \/ \E v \in FileValues : OpenTemp(u, v)

-----------------------------------------------------------------------------
(* What a client that asks for the size and then for the data finds.       *)
Found(f) ==
    LET info == FileGetInfo(f) IN
    IF info.status = "DOES_NOT_EXIST" THEN NotThere
                                      ELSE FileGet(f, info.size).data

FileTask ==
    IF file_call.op = "set"
    THEN [op |-> "set", place |-> file_call.uid, content |-> file_call.value]
    ELSE IF file_call.op = "remove"
    THEN [op |-> "remove", place |-> file_call.uid]
    ELSE [op |-> "none"]

Renamed == file_pc = "remove_temp" /\ file_ret = "SUCCESS"

FileAnswer ==
    IF file_pc # "idle" \/ file_ret = "none" THEN "none"
    ELSE IF file_ret = "SUCCESS" THEN "ok" ELSE "error"

Atomic ==
    INSTANCE AtomicStore WITH
        Places <- FileUids,
        Contents <- FileValues,
        entry <- [u \in FileUids |-> Found(files[u])],
        settled <- [u \in FileUids |-> Found(ondisk[u])],
        task <- FileTask,
        done <- Renamed,
        answer <- FileAnswer

(* Through failing library calls, crashes and power failures, and the      *)
(* temporary file all uids share, psa_its_file.c changes a file in one     *)
(* step from whole to whole and answers success exactly when it did.       *)
ImplementsAtomicStore == Atomic!StoreSpec
=============================================================================
