------------------------ MODULE StorageBuildsProofs ------------------------
(***************************************************************************)
(* Proofs about the builds without NVS.  Storage over files implements     *)
(* AtomicStore, for any uids, any values and any library calls that may    *)
(* fail; storage over raw flash keeps what the cells it can reach hold,    *)
(* for any layout of the block, any sizes of files and any failures.       *)
(***************************************************************************)
EXTENDS StorageBuilds, TLAPS

(* What each program point of psa_its_set and psa_its_remove implies of    *)
(* the call, of the status so far and of the temporary file.               *)
CallMatchesPoint ==
    /\ file_pc = "idle" => file_call = NoFileCall
    /\ file_pc \in {"header", "data", "close", "rename", "remove_temp"}
          => file_call \in [op : {"set"}, uid : FileUids, value : FileValues]
    /\ file_pc = "unlink" => file_call \in [op : {"remove"}, uid : FileUids]

StatusMatchesPoint ==
    /\ file_pc \in {"header", "data"} => file_ret = "INSUFFICIENT_STORAGE"
    /\ file_pc \in {"close", "remove_temp"} => file_ret # "none"
    /\ file_pc = "rename" => file_ret = "SUCCESS"

TempMatchesPoint ==
    /\ file_pc = "header" => temp = File(file_call.value, 0)
    /\ file_pc = "data" => temp = File(file_call.value, 1)
    /\ file_pc \in {"close", "rename"} /\ file_ret = "SUCCESS"
          => temp = File(file_call.value, 2)

FileInv ==
    /\ FileTypeOK
    /\ CallMatchesPoint
    /\ StatusMatchesPoint
    /\ TempMatchesPoint

LEMMA FileInvInit == FileInit => FileInv
  BY DEF FileInit, FileInv, FileTypeOK, MaybeFile, NoFile, FileCalls, FileStatuses,
         CallMatchesPoint, StatusMatchesPoint, TempMatchesPoint

LEMMA FileIsFile ==
    ASSUME NEW v \in FileValues, NEW n \in 0..2
    PROVE  /\ File(v, n) \in MaybeFile
           /\ File(v, n) # NoFile
           /\ File(v, n).value = v
           /\ File(v, n).parts = n
  BY DEF File, MaybeFile, NoFile

LEMMA SetKeepsFileInv ==
    ASSUME FileInv,
           \/ \E u \in FileUids, v \in FileValues : OpenTemp(u, v)
           \/ WriteHeader \/ WriteData \/ CloseTemp \/ RenameTemp \/ RemoveTemp
    PROVE  FileInv'
<1> USE DEF FileInv, FileTypeOK, CallMatchesPoint, StatusMatchesPoint,
            TempMatchesPoint, Goto, FileReturn, FileStatuses
<1>1. CASE \E u \in FileUids, v \in FileValues : OpenTemp(u, v)
  <2>1. PICK u \in FileUids, v \in FileValues : OpenTemp(u, v)
    BY <1>1
  <2>2. File(v, 0) \in MaybeFile
    BY FileIsFile
  <2> QED  BY <2>1, <2>2 DEF OpenTemp, FileCalls
<1>2. CASE WriteHeader
  <2>1. file_call.value \in FileValues
    BY <1>2 DEF WriteHeader
  <2>2. File(file_call.value, 1) \in MaybeFile
    BY <2>1, FileIsFile
  <2> QED  BY <1>2, <2>2 DEF WriteHeader
<1>3. CASE WriteData
  <2>1. file_call.value \in FileValues
    BY <1>3 DEF WriteData
  <2>2. File(file_call.value, 2) \in MaybeFile
    BY <2>1, FileIsFile
  <2> QED  BY <1>3, <2>2 DEF WriteData
<1>4. CASE CloseTemp
  BY <1>4 DEF CloseTemp
<1>5. CASE RenameTemp
  <2>1. NoFile \in MaybeFile
    BY DEF MaybeFile
  <2>2. files' \in [FileUids -> MaybeFile] /\ temp' \in MaybeFile
    BY <1>5, <2>1 DEF RenameTemp
  <2> QED  BY <1>5, <2>2 DEF RenameTemp
<1>6. CASE RemoveTemp
  BY <1>6 DEF RemoveTemp, MaybeFile, FileCalls
<1>7. QED
  BY <1>1, <1>2, <1>3, <1>4, <1>5, <1>6

LEMMA RemoveKeepsFileInv ==
    ASSUME FileInv, Unlink \/ \E u \in FileUids : RemoveLooks(u)
    PROVE  FileInv'
<1> USE DEF FileInv, FileTypeOK, CallMatchesPoint, StatusMatchesPoint,
            TempMatchesPoint, FileReturn, FileStatuses, FileCalls
<1>1. CASE Unlink
  BY <1>1 DEF Unlink, MaybeFile
<1>2. CASE \E u \in FileUids : RemoveLooks(u)
  <2>1. PICK u \in FileUids : RemoveLooks(u)
    BY <1>2
  <2>2. [op |-> "remove", uid |-> u] \in [op : {"remove"}, uid : FileUids]
    OBVIOUS
  <2>3. CASE file_pc' = "unlink"
    BY <2>1, <2>2, <2>3 DEF RemoveLooks
  <2>4. CASE file_pc' = "idle"
    BY <2>1, <2>4 DEF RemoveLooks
  <2> QED  BY <2>1, <2>3, <2>4 DEF RemoveLooks
<1>3. QED
  BY <1>1, <1>2

(* What a power failure leaves of a file is again a file, or none.         *)
LEMMA CutShortType ==
    ASSUME NEW f \in MaybeFile, NEW g \in CutShort(f)
    PROVE  g \in MaybeFile
<1>1. CASE f = NoFile
  BY <1>1 DEF CutShort, MaybeFile
<1>2. CASE f # NoFile
  <2>1. f \in [exists : {TRUE}, value : FileValues, parts : 0..2]
    BY <1>2 DEF MaybeFile
  <2>2. PICK p \in 0..f.parts : g = [f EXCEPT !.parts = p]
    BY <1>2 DEF CutShort
  <2>3. p \in 0..2
    BY <2>1, <2>2
  <2> QED  BY <2>1, <2>2, <2>3 DEF MaybeFile
<1>3. QED
  BY <1>1, <1>2

LEMMA LeftType ==
    ASSUME FileTypeOK, NEW u \in FileUids, NEW g \in Left(u)
    PROVE  g \in MaybeFile
  BY CutShortType DEF FileTypeOK, Left

LEMMA CrashKeepsFileInv ==
    ASSUME FileInv, FileCrash \/ PowerFailure \/ \E u \in FileUids : Writeback(u)
    PROVE  FileInv'
<1> USE DEF FileInv, FileTypeOK, CallMatchesPoint, StatusMatchesPoint,
            TempMatchesPoint, FileStatuses, FileCalls
<1>1. CASE FileCrash
  BY <1>1 DEF FileCrash
<1>2. CASE PowerFailure
  <2>1. PICK after \in [FileUids -> UNION {Left(u) : u \in FileUids}] :
           /\ \A u \in FileUids : after[u] \in Left(u)
           /\ files' = after
           /\ ondisk' = after
    BY <1>2 DEF PowerFailure
  <2>2. after \in [FileUids -> MaybeFile]
    BY <2>1, LeftType
  <2>3. temp' \in MaybeFile
    BY <1>2, CutShortType DEF PowerFailure, MaybeFile
  <2> QED  BY <1>2, <2>1, <2>2, <2>3 DEF PowerFailure
<1>3. CASE \E u \in FileUids : Writeback(u)
  BY <1>3 DEF Writeback
<1>4. QED
  BY <1>1, <1>2, <1>3

LEMMA FileInvInductive == FileInv /\ [FileNext]_fileVars => FileInv'
<1> SUFFICES ASSUME FileInv, [FileNext]_fileVars
             PROVE  FileInv'
  OBVIOUS
<1>1. CASE FileNext
  BY <1>1, SetKeepsFileInv, RemoveKeepsFileInv, CrashKeepsFileInv DEF FileNext
<1>2. CASE UNCHANGED fileVars
  BY <1>2 DEF fileVars, FileInv, FileTypeOK, CallMatchesPoint, StatusMatchesPoint,
              TempMatchesPoint
<1>3. QED
  BY <1>1, <1>2

-----------------------------------------------------------------------------
(* What a reader finds of a file, and of what a power failure leaves of it.*)
LEMMA FoundOfFile ==
    ASSUME NEW v \in FileValues, NEW n \in 0..2
    PROVE  Found(File(v, n)) = IF n = 2 THEN v ELSE Unreadable
<1> DEFINE f == File(v, n)
<1>1. f # NoFile /\ f.value = v /\ f.parts = n
  BY FileIsFile
<1>2. CASE n = 0
  BY <1>1, <1>2 DEF Found, FileGetInfo, FileGet
<1>3. CASE n = 1
  BY <1>1, <1>3, ItsFileAssumption DEF Found, FileGetInfo, FileGet
<1>4. CASE n = 2
  BY <1>1, <1>4, ItsFileAssumption DEF Found, FileGetInfo, FileGet
<1>5. QED
  BY <1>2, <1>3, <1>4

LEMMA FoundOfNoFile == Found(NoFile) = NotThere
  BY DEF Found, FileGetInfo

LEMMA MaybeFileCases ==
    ASSUME NEW f \in MaybeFile
    PROVE  f = NoFile \/ \E v \in FileValues, n \in 0..2 : f = File(v, n)
<1> SUFFICES ASSUME f # NoFile
             PROVE  \E v \in FileValues, n \in 0..2 : f = File(v, n)
  OBVIOUS
<1>1. f \in [exists : {TRUE}, value : FileValues, parts : 0..2]
  BY DEF MaybeFile
<1>2. f = File(f.value, f.parts) /\ f.value \in FileValues /\ f.parts \in 0..2
  BY <1>1 DEF File
<1>3. QED
  BY <1>2

LEMMA FoundType ==
    ASSUME NEW f \in MaybeFile
    PROVE  Found(f) \in FileValues \cup {NotThere, Unreadable}
  BY MaybeFileCases, FoundOfFile, FoundOfNoFile

LEMMA FoundOfCutShort ==
    ASSUME NEW f \in MaybeFile, NEW g \in CutShort(f)
    PROVE  Found(g) \in {Found(f), Unreadable}
<1>1. CASE f = NoFile
  BY <1>1 DEF CutShort
<1>2. CASE f # NoFile
  <2>1. PICK v \in FileValues, n \in 0..2 : f = File(v, n)
    BY <1>2, MaybeFileCases
  <2>2. f.parts = n /\ f.value = v
    BY <2>1, FileIsFile
  <2>3. PICK p \in 0..n : g = File(v, p)
    BY <1>2, <2>1, <2>2 DEF CutShort, File
  <2>4. p \in 0..2 /\ (p = 2 => n = 2)
    BY <2>3
  <2> QED  BY <2>1, <2>3, <2>4, FoundOfFile
<1>3. QED
  BY <1>1, <1>2

LEMMA FoundOfLeft ==
    ASSUME FileTypeOK, NEW u \in FileUids, NEW g \in Left(u)
    PROVE  Found(g) \in Atomic!Outcomes(u)
<1> DEFINE now == Found(files[u])
           then == Found(ondisk[u])
<1>1. /\ files[u] \in MaybeFile
      /\ ondisk[u] \in MaybeFile
  BY DEF FileTypeOK
<1>2. Atomic!Outcomes(u) = IF now = then THEN {now} ELSE {now, then, Unreadable}
  BY DEF Atomic!Outcomes, Atomic!Torn, Unreadable
<1>3. CASE files[u] = ondisk[u]
  BY <1>2, <1>3 DEF Left
<1>4. CASE files[u] # ondisk[u]
  <2>1. g = ondisk[u] \/ g \in CutShort(files[u])
    BY <1>4 DEF Left
  <2>2. Found(g) \in {now, then, Unreadable}
    BY <1>1, <2>1, FoundOfCutShort
  <2>3. CASE now # then
    BY <1>2, <2>2, <2>3
  <2>4. CASE now = then
    <3>1. now = Unreadable
      BY <1>1, <1>4, <2>4, MaybeFileCases, FoundOfFile, FoundOfNoFile, ItsFileAssumption
      DEF NotThere, Unreadable
    <3> QED  BY <1>2, <2>2, <2>4, <3>1
  <2> QED  BY <2>3, <2>4
<1>5. QED
  BY <1>3, <1>4

-----------------------------------------------------------------------------
(* Every step is a step of AtomicStore or leaves its variables alone.      *)
Entries == [u \in FileUids |-> Found(files[u])]
Settled == [u \in FileUids |-> Found(ondisk[u])]

(* Steps before the rename, and those that only change the status.         *)
LEMMA StutteringStep ==
    ASSUME FileInv, WriteHeader \/ WriteData \/ CloseTemp
    PROVE  UNCHANGED <<Entries, Settled, FileTask, Renamed, FileAnswer>>
<1>1. UNCHANGED <<files, ondisk, file_call>>
  BY DEF WriteHeader, WriteData, CloseTemp, Goto
<1>2. UNCHANGED <<Entries, Settled>>
  BY <1>1 DEF Entries, Settled
<1>3. file_pc # "idle" /\ file_pc' # "idle"
  BY DEF WriteHeader, WriteData, CloseTemp, Goto
<1>4. Renamed = FALSE
  BY DEF WriteHeader, WriteData, CloseTemp, Renamed
<1>5. Renamed' = FALSE
  BY DEF WriteHeader, WriteData, CloseTemp, Goto, Renamed
<1>6. UNCHANGED FileTask
  BY <1>1 DEF FileTask
<1>7. UNCHANGED FileAnswer
  BY <1>3 DEF FileAnswer
<1>8. QED
  BY <1>2, <1>4, <1>5, <1>6, <1>7

SetTask(u, v) == [op |-> "set", place |-> u, content |-> v]
RemoveTask(u) == [op |-> "remove", place |-> u]

LEMMA StartOfSet ==
    ASSUME FileInv, NEW u \in FileUids, NEW v \in FileValues, OpenTemp(u, v)
    PROVE  Atomic!Start
<1>1. FileTask = Atomic!NoTask
  BY DEF OpenTemp, FileInv, CallMatchesPoint, NoFileCall, FileTask, Atomic!NoTask
<1>2. FileTask' = SetTask(u, v)
  BY DEF OpenTemp, FileTask, SetTask
<1>3. SetTask(u, v) \in Atomic!Tasks /\ Renamed = FALSE /\ Renamed' = FALSE
  BY DEF OpenTemp, SetTask, Atomic!Tasks, Renamed
<1>4. FileAnswer' = "none"
  BY DEF OpenTemp, FileAnswer
<1>5. UNCHANGED <<Entries, Settled>>
  BY DEF OpenTemp, Entries, Settled
<1>6. QED
  BY <1>1, <1>2, <1>3, <1>4, <1>5 DEF Atomic!Start, Entries, Settled

LEMMA RenameApplies ==
    ASSUME FileInv, RenameTemp
    PROVE  Atomic!Apply \/ UNCHANGED <<Entries, Settled, FileTask, Renamed, FileAnswer>>
<1> DEFINE u == file_call.uid
           v == file_call.value
<1>1. /\ file_call \in [op : {"set"}, uid : FileUids, value : FileValues]
      /\ temp = File(v, 2)
      /\ file_pc = "rename"
      /\ file_ret = "SUCCESS"
  BY DEF RenameTemp, FileInv, CallMatchesPoint, StatusMatchesPoint, TempMatchesPoint
<1>2. FileTask = SetTask(u, v) /\ FileAnswer = "none" /\ Renamed = FALSE
  BY <1>1 DEF FileTask, FileAnswer, SetTask, Renamed
<1>3. UNCHANGED <<file_call, ondisk>> /\ file_pc' = "remove_temp"
  BY DEF RenameTemp, Goto
<1>4. FileAnswer' = "none" /\ UNCHANGED Settled
  BY <1>3 DEF FileAnswer, Settled
<1>5. FileTask' = SetTask(u, v)
  BY <1>1, <1>3 DEF FileTask, SetTask
<1>6. CASE files' = [files EXCEPT ![u] = temp] /\ file_ret' = "SUCCESS"
  <2>1. Renamed' = TRUE
    BY <1>3, <1>6 DEF Renamed
  <2>2. Found(temp) = v
    BY <1>1, FoundOfFile
  <2>3. \A w \in FileUids : files'[w] = IF w = u THEN temp ELSE files[w]
    BY <1>6 DEF FileInv, FileTypeOK
  <2>4. Entries' = [Entries EXCEPT ![u] = v]
    BY <1>1, <2>2, <2>3 DEF Entries
  <2>5. /\ SetTask(u, v) # Atomic!NoTask
        /\ SetTask(u, v).op = "set"
        /\ SetTask(u, v).place = u
        /\ SetTask(u, v).content = v
    BY DEF SetTask, Atomic!NoTask
  <2> HIDE DEF u, v
  <2> QED  BY <1>2, <1>4, <1>5, <2>1, <2>4, <2>5
           DEF Atomic!Apply, Atomic!Effect, Entries, Settled
<1>7. CASE UNCHANGED files /\ file_ret' = "STORAGE_FAILURE"
  <2>1. Renamed' = FALSE
    BY <1>7 DEF Renamed
  <2> QED  BY <1>2, <1>4, <1>5, <1>7, <2>1 DEF Entries
<1>8. QED
  BY <1>1, <1>6, <1>7 DEF RenameTemp, Goto

LEMMA RemoveTempFinishes ==
    ASSUME FileInv, RemoveTemp
    PROVE  Atomic!Finish
<1> DEFINE u == file_call.uid
           v == file_call.value
<1>1. /\ file_call \in [op : {"set"}, uid : FileUids, value : FileValues]
      /\ file_pc = "remove_temp"
      /\ file_ret # "none"
  BY DEF RemoveTemp, FileInv, CallMatchesPoint, StatusMatchesPoint
<1>2. FileTask = SetTask(u, v) /\ SetTask(u, v) # Atomic!NoTask
  BY <1>1 DEF FileTask, SetTask, Atomic!NoTask
<1>3. FileTask' = Atomic!NoTask /\ Renamed' = FALSE
  BY DEF RemoveTemp, FileReturn, NoFileCall, FileTask, Atomic!NoTask, Renamed
<1>4. FileAnswer' = IF file_ret = "SUCCESS" THEN "ok" ELSE "error"
  BY <1>1 DEF RemoveTemp, FileReturn, FileAnswer
<1>5. UNCHANGED <<Entries, Settled>>
  BY DEF RemoveTemp, Entries, Settled
<1> HIDE DEF u, v
<1>6. CASE file_ret = "SUCCESS"
  <2>1. Renamed
    BY <1>1, <1>6 DEF Renamed
  <2> QED  BY <1>2, <1>3, <1>4, <1>5, <1>6, <2>1 DEF Atomic!Finish, Entries, Settled
<1>7. CASE file_ret # "SUCCESS"
  <2>1. ~ Renamed
    BY <1>7 DEF Renamed
  <2> QED  BY <1>2, <1>3, <1>4, <1>5, <1>7, <2>1 DEF Atomic!Finish, Entries, Settled
<1>8. QED
  BY <1>6, <1>7

LEMMA RemoveStarts ==
    ASSUME FileInv, NEW u \in FileUids, RemoveLooks(u)
    PROVE  Atomic!Start \/ Atomic!Refuse
<1>1. FileTask = Atomic!NoTask
  BY DEF RemoveLooks, FileInv, CallMatchesPoint, NoFileCall, FileTask, Atomic!NoTask
<1>2. UNCHANGED <<Entries, Settled>>
  BY DEF RemoveLooks, Entries, Settled
<1>3. CASE file_pc' = "unlink" /\ file_call' = [op |-> "remove", uid |-> u]
  <2>1. FileTask' = RemoveTask(u) /\ FileAnswer' = "none"
    BY <1>3 DEF FileTask, FileAnswer, RemoveTask
  <2>2. RemoveTask(u) \in Atomic!Tasks /\ Renamed = FALSE /\ Renamed' = FALSE
    BY <1>3 DEF RemoveLooks, Atomic!Tasks, RemoveTask, Renamed
  <2> QED  BY <1>1, <1>2, <2>1, <2>2 DEF Atomic!Start, Entries, Settled
<1>4. CASE FileReturn("DOES_NOT_EXIST")
  <2>1. FileTask' = Atomic!NoTask /\ FileAnswer' = "error"
    BY <1>4 DEF FileReturn, FileTask, FileAnswer, NoFileCall, Atomic!NoTask
  <2>2. Renamed = FALSE /\ Renamed' = FALSE
    BY <1>4 DEF RemoveLooks, FileReturn, Renamed
  <2> QED  BY <1>1, <1>2, <2>1, <2>2 DEF Atomic!Refuse, Entries, Settled
<1>5. QED
  BY <1>3, <1>4 DEF RemoveLooks

LEMMA UnlinkFinishes ==
    ASSUME FileInv, Unlink
    PROVE  Atomic!Finish
<1> DEFINE u == file_call.uid
           t == RemoveTask(u)
<1>1. file_call \in [op : {"remove"}, uid : FileUids]
  BY DEF Unlink, FileInv, CallMatchesPoint
<1>2. FileTask = t /\ FileTask' = Atomic!NoTask
  BY <1>1 DEF Unlink, FileReturn, NoFileCall, FileTask, RemoveTask, Atomic!NoTask
<1>3. UNCHANGED Settled
  BY DEF Unlink, Settled
<1>4. /\ t # Atomic!NoTask /\ t.op # "set" /\ t.place = u
      /\ Renamed = FALSE /\ Renamed' = FALSE
  BY DEF Unlink, FileReturn, RemoveTask, Renamed, Atomic!NoTask
<1>5. CASE files' = [files EXCEPT ![u] = NoFile] /\ FileReturn("SUCCESS")
  <2>1. FileAnswer' = "ok"
    BY <1>5 DEF FileReturn, FileAnswer
  <2>2. \A w \in FileUids : files'[w] = IF w = u THEN NoFile ELSE files[w]
    BY <1>5 DEF FileInv, FileTypeOK
  <2>3. Entries' = [Entries EXCEPT ![u] = NotThere]
    BY <1>1, <2>2, FoundOfNoFile DEF Entries
  <2> HIDE DEF t, u
  <2> QED  BY <1>2, <1>3, <1>4, <2>1, <2>3
           DEF Atomic!Finish, Atomic!Effect, Atomic!Absent, NotThere, Entries, Settled
<1>6. CASE UNCHANGED files /\ FileReturn("STORAGE_FAILURE")
  <2>1. FileAnswer' = "error" /\ UNCHANGED Entries
    BY <1>6 DEF FileReturn, FileAnswer, Entries
  <2> HIDE DEF t, u
  <2> QED  BY <1>2, <1>3, <1>4, <2>1 DEF Atomic!Finish, Entries, Settled
<1>7. QED
  BY <1>5, <1>6 DEF Unlink

LEMMA WritebackSettles ==
    ASSUME FileInv, NEW u \in FileUids, Writeback(u)
    PROVE  Atomic!Settle(u)
<1>1. UNCHANGED <<Entries, FileTask, Renamed, FileAnswer>>
  BY DEF Writeback, Entries, FileTask, Renamed, FileAnswer
<1>2. \A w \in FileUids : ondisk'[w] = IF w = u THEN files[u] ELSE ondisk[w]
  BY DEF Writeback, FileInv, FileTypeOK
<1>3. Settled' = [Settled EXCEPT ![u] = Entries[u]]
  BY <1>2 DEF Settled, Entries
<1>4. QED
  BY <1>1, <1>3 DEF Atomic!Settle, Entries, Settled

LEMMA CrashDies ==
    ASSUME FileInv, FileCrash
    PROVE  Atomic!Die
<1>1. FileTask' = Atomic!NoTask /\ Renamed' = FALSE /\ FileAnswer' = "none"
  BY DEF FileCrash, NoFileCall, FileTask, Renamed, FileAnswer, Atomic!NoTask
<1>2. UNCHANGED <<Entries, Settled>>
  BY DEF FileCrash, Entries, Settled
<1>3. QED
  BY <1>1, <1>2 DEF Atomic!Die, Entries, Settled

LEMMA PowerFailureCuts ==
    ASSUME FileInv, PowerFailure
    PROVE  Atomic!PowerCut
<1>1. FileTask' = Atomic!NoTask /\ Renamed' = FALSE /\ FileAnswer' = "none"
  BY DEF PowerFailure, NoFileCall, FileTask, Renamed, FileAnswer, Atomic!NoTask
<1>2. /\ \A u \in FileUids : files'[u] \in Left(u)
      /\ ondisk' = files'
  BY DEF PowerFailure
<1>3. Settled' = Entries'
  BY <1>2 DEF Settled, Entries
<1>4. \A u \in FileUids : Entries'[u] \in Atomic!Outcomes(u)
  BY <1>2, FoundOfLeft DEF Entries, FileInv
<1>5. \A u \in FileUids : files'[u] \in MaybeFile
  BY <1>2, LeftType DEF FileInv
<1>6. Entries' \in [FileUids -> FileValues \cup {Atomic!Absent, Atomic!Torn}]
  BY <1>5, FoundType DEF Entries, NotThere, Unreadable, Atomic!Absent, Atomic!Torn
<1>7. QED
  BY <1>1, <1>3, <1>4, <1>6 DEF Atomic!PowerCut, Entries, Settled

LEMMA InitRefines == FileInit => Atomic!StoreInit
<1> SUFFICES ASSUME FileInit
             PROVE  Atomic!StoreInit
  OBVIOUS
<1>1. Entries = [u \in FileUids |-> NotThere] /\ Settled = Entries
  BY FoundOfNoFile DEF FileInit, Entries, Settled
<1>2. FileTask = Atomic!NoTask /\ Renamed = FALSE /\ FileAnswer = "none"
  BY DEF FileInit, NoFileCall, FileTask, Renamed, FileAnswer, Atomic!NoTask
<1>3. QED
  BY <1>1, <1>2 DEF Atomic!StoreInit, Atomic!Absent, NotThere, Entries, Settled

LEMMA StepRefines ==
    FileInv /\ [FileNext]_fileVars => [Atomic!StoreNext]_(Atomic!storeVars)
<1> SUFFICES ASSUME FileInv, [FileNext]_fileVars
             PROVE  Atomic!StoreNext \/ UNCHANGED <<Entries, Settled, FileTask, Renamed, FileAnswer>>
  BY DEF Atomic!storeVars, Entries, Settled
<1>1. CASE WriteHeader \/ WriteData \/ CloseTemp
  BY <1>1, StutteringStep
<1>2. CASE \E u \in FileUids, v \in FileValues : OpenTemp(u, v)
  BY <1>2, StartOfSet DEF Atomic!StoreNext
<1>3. CASE RenameTemp
  BY <1>3, RenameApplies DEF Atomic!StoreNext
<1>4. CASE RemoveTemp
  BY <1>4, RemoveTempFinishes DEF Atomic!StoreNext
<1>5. CASE \E u \in FileUids : RemoveLooks(u)
  BY <1>5, RemoveStarts DEF Atomic!StoreNext
<1>6. CASE Unlink
  BY <1>6, UnlinkFinishes DEF Atomic!StoreNext
<1>7. CASE \E u \in FileUids : Writeback(u)
  BY <1>7, WritebackSettles DEF Atomic!StoreNext
<1>8. CASE FileCrash
  BY <1>8, CrashDies DEF Atomic!StoreNext
<1>9. CASE PowerFailure
  BY <1>9, PowerFailureCuts DEF Atomic!StoreNext
<1>10. CASE UNCHANGED fileVars
  BY <1>10 DEF fileVars, Entries, Settled, FileTask, Renamed, FileAnswer
<1>11. QED
  BY <1>1, <1>2, <1>3, <1>4, <1>5, <1>6, <1>7, <1>8, <1>9, <1>10 DEF FileNext

(* Through failing calls, crashes and power failures, storage over files   *)
(* implements AtomicStore.                                                 *)
THEOREM FileStoreIsAtomic == BuildsSpec => ImplementsAtomicStore
<1>1. BuildsInit => FileInit
  BY DEF BuildsInit
<1>2. [BuildsNext]_buildVars => [FileNext]_fileVars
  BY DEF BuildsNext, buildVars, fileVars
<1>3. QED
  BY <1>1, <1>2, InitRefines, StepRefines, FileInvInit, FileInvInductive, PTL
  DEF BuildsSpec, ImplementsAtomicStore, Atomic!StoreSpec

-----------------------------------------------------------------------------
(* Raw flash.  Only the first place is ever written or read as a header.   *)
(* A promise for a uid that has it is kept when its cells say so.          *)
HeaderOf(f) == \A i \in 1 .. HeaderLength : flash[i - 1] = Header(f)[i]

NoHeader == \E i \in 1 .. MagicLength : flash[i - 1] # Magic(i)

Stored(f) ==
    /\ HeaderOf(f)
    /\ HeaderLength + CellsOf[f] <= BlockEnd
    /\ \A i \in 1 .. CellsOf[f] :
          HeaderLength + i <= CellsOf[f] => flash[HeaderLength + i - 1] = Piece(f, i)

Promise(u) ==
    Place(u) = 0 => /\ kept[u] \in FlashFiles => Stored(kept[u])
                    /\ kept[u] = Gone => NoHeader

FlashCallMatches ==
    /\ flash_pc = "idle" => flash_call = NoFlashCall
    /\ flash_pc \in {"header", "data"}
          => flash_call \in [op : {"set"}, uid : FlashUids, file : FlashFiles]
    /\ flash_pc = "erase" => flash_call = [op |-> "remove"]

(* A call that lands finds no promise for a file, and none for its place.  *)
NothingPromised(u, f) ==
    Lands(u, f) => \A w \in FlashUids : /\ kept[w] \notin FlashFiles
                                        /\ Place(w) = Place(u) => kept[w] # Gone

CallTouchesNoPromise ==
    /\ flash_pc \in {"header", "data"} =>
          NothingPromised(flash_call.uid, flash_call.file)
    /\ flash_pc = "erase" => \A w \in FlashUids : kept[w] = Open

HeaderIsThere ==
    flash_pc = "data" /\ Place(flash_call.uid) = 0 => HeaderOf(flash_call.file)

FlashInv ==
    /\ FlashTypeOK
    /\ FlashCallMatches
    /\ CallTouchesNoPromise
    /\ HeaderIsThere
    /\ \A u \in FlashUids : Promise(u)

LEMMA Layout ==
    /\ Slots \in Nat /\ SlotCells \in Nat /\ HeaderLength \in Nat
    /\ MagicLength \in Nat /\ MagicLength >= 1 /\ MagicLength < HeaderLength
    /\ HeaderLength <= SlotCells /\ SlotCells <= BlockEnd /\ BlockEnd \in Nat
    /\ \A f \in FlashFiles : CellsOf[f] \in Nat /\ CellsOf[f] >= 1
<1>1. /\ Slots \in Nat \ {0} /\ SlotCells \in Nat \ {0}
  BY ItsFlashAssumption
<1>2. \A m \in Nat \ {0}, n \in Nat : m * n >= n /\ m * n \in Nat
  OBVIOUS
<1>3. SlotCells <= BlockEnd /\ BlockEnd \in Nat
  BY <1>1, <1>2 DEF BlockEnd
<1>4. QED
  BY <1>1, <1>3, ItsFlashAssumption

(* A place is the first, or begins behind the header of the first.         *)
LEMMA PlaceIsFirstOrBehind ==
    ASSUME NEW u \in FlashUids
    PROVE  Place(u) \in Nat /\ (Place(u) = 0 \/ Place(u) >= HeaderLength)
<1> DEFINE m == (u - 1) % PlaceLimit
<1>1. u - 1 \in Nat /\ PlaceLimit \in Nat \ {0}
  BY ItsFlashAssumption
<1>2. m \in Nat
  BY <1>1
<1> HIDE DEF m
<1>3. \A k \in Nat \ {0}, n \in Nat : k * n >= n /\ k * n \in Nat
  OBVIOUS
<1>4. m = 0 => m * SlotCells = 0
  BY Layout
<1>5. m # 0 => m * SlotCells >= SlotCells /\ m * SlotCells \in Nat
  BY <1>2, <1>3, Layout
<1>6. Place(u) = m * SlotCells
  BY DEF Place, m
<1>7. QED
  BY <1>4, <1>5, <1>6, Layout

LEMMA CellsDiffer ==
    \A i : Zero # Magic(i) /\ Lost # Magic(i)
  BY DEF Zero, Lost, Magic

LEMMA CellTypes ==
    /\ Zero \in FlashCells /\ Lost \in FlashCells
    /\ \A i \in 1 .. MagicLength : Magic(i) \in FlashCells
    /\ \A f \in FlashFiles : Size(CellsOf[f]) \in FlashCells
    /\ \A f \in FlashFiles : \A i \in 1 .. CellsOf[f] : Piece(f, i) \in FlashCells
  BY DEF FlashCells

(* The buffers the driver is given.                                        *)
LEMMA HeaderBuffer ==
    ASSUME NEW f \in FlashFiles
    PROVE  /\ Len(Header(f)) = HeaderLength
           /\ \A i \in 1 .. HeaderLength : Header(f)[i] \in FlashCells
           /\ \A i \in 1 .. MagicLength : Header(f)[i] = Magic(i)
           /\ Header(f)[MagicLength + 1] = Size(CellsOf[f])
<1>1. Len(Header(f)) = HeaderLength
  BY Layout DEF Header
<1>2. \A i \in 1 .. HeaderLength :
         Header(f)[i] = IF i <= MagicLength THEN Magic(i)
                        ELSE IF i = MagicLength + 1 THEN Size(CellsOf[f]) ELSE Zero
  BY DEF Header
<1>3. \A i \in 1 .. HeaderLength : i <= MagicLength => i \in 1 .. MagicLength
  BY Layout
<1>4. \A i \in 1 .. HeaderLength : Header(f)[i] \in FlashCells
  BY <1>2, <1>3, CellTypes
<1>5. /\ \A i \in 1 .. MagicLength : i \in 1 .. HeaderLength /\ i <= MagicLength
      /\ MagicLength + 1 \in 1 .. HeaderLength /\ ~ (MagicLength + 1 <= MagicLength)
  BY Layout
<1>6. QED
  BY <1>1, <1>2, <1>4, <1>5

LEMMA PiecesBuffer ==
    ASSUME NEW f \in FlashFiles
    PROVE  /\ Len(Pieces(f)) = CellsOf[f]
           /\ \A i \in 1 .. CellsOf[f] : /\ Pieces(f)[i] = Piece(f, i)
                                         /\ Pieces(f)[i] \in FlashCells
  BY Layout, CellTypes DEF Pieces

LEMMA ZerosBuffer ==
    /\ Len(Zeros) = BlockEnd
    /\ \A i \in 1 .. BlockEnd : Zeros[i] = Zero /\ Zeros[i] \in FlashCells
  BY Layout, CellTypes DEF Zeros

-----------------------------------------------------------------------------
(* What a commit leaves, done or not: cells of the block.                  *)
Results(at, buf) == {flash, Committed(at, buf)} \cup Interrupted(at, buf)

LEMMA ResultTypes ==
    ASSUME FlashTypeOK, NEW at \in Nat, NEW buf, Len(buf) \in Nat,
           \A i \in 1 .. Len(buf) : buf[i] \in FlashCells,
           NEW after \in Results(at, buf)
    PROVE  after \in [Addresses -> FlashCells]
<1>1. flash \in [Addresses -> FlashCells] /\ Lost \in FlashCells
  BY CellTypes DEF FlashTypeOK
<1>2. Programmed(at, buf) \in [Addresses -> FlashCells]
  BY <1>1 DEF Programmed
<1>3. Committed(at, buf) \in [Addresses -> FlashCells]
  BY <1>1, <1>2 DEF Committed
<1>4. ASSUME after \in Interrupted(at, buf)
      PROVE  after \in [Addresses -> FlashCells]
  BY <1>1, <1>2, <1>4 DEF Interrupted
<1>5. QED
  BY <1>1, <1>3, <1>4 DEF Results

(* Nothing changes the first header but a write that begins there.         *)
LEMMA NoHeaderStays ==
    ASSUME NoHeader, NEW at \in Nat, at >= HeaderLength, NEW buf, Len(buf) \in Nat,
           flash' \in Results(at, buf)
    PROVE  NoHeader'
<1>1. PICK i \in 1 .. MagicLength : flash[i - 1] # Magic(i)
  BY DEF NoHeader
<1> DEFINE a == i - 1
<1>2. a \in Nat /\ a < at /\ a < BlockEnd
  BY <1>1, Layout
<1>3. a \in Addresses
  BY <1>2, Layout DEF Addresses
<1>4. a - at + 1 \notin 1 .. Len(buf)
  BY <1>2
<1> HIDE DEF a
<1>5. Programmed(at, buf)[a] \in {flash[a], Lost}
  BY <1>3, <1>4 DEF Programmed
<1>6. Committed(at, buf)[a] \in {flash[a], Lost}
  BY <1>5 DEF Committed
<1>7. flash' \in Interrupted(at, buf) => flash'[a] \in {flash[a], Lost}
  BY <1>3, <1>5 DEF Interrupted
<1>8. flash'[a] \in {flash[a], Lost}
  BY <1>6, <1>7 DEF Results
<1>9. flash'[a] # Magic(i)
  BY <1>1, <1>8, CellsDiffer DEF a
<1>10. QED
  BY <1>1, <1>9 DEF NoHeader, a

(* A write that lands nowhere leaves the flash as it is.                   *)
LEMMA CleanWriteIsIdle ==
    ASSUME NEW at, NEW buf, NEW ok, ~ Dirty(at, buf), FlashWrite(at, buf, ok)
    PROVE  UNCHANGED flash
  BY DEF FlashWrite, Committed

LEMMA WriteResults ==
    ASSUME NEW at, NEW buf, NEW ok, FlashWrite(at, buf, ok)
    PROVE  /\ flash' \in Results(at, buf)
           /\ ok => at + Len(buf) <= BlockEnd /\ flash' = Committed(at, buf)
           /\ ~ Dirty(at, buf) => UNCHANGED flash
  BY DEF FlashWrite, Results, Committed

LEMMA DirtyHeaderLands ==
    ASSUME NEW u \in FlashUids, NEW f \in FlashFiles, Dirty(Place(u), Header(f))
    PROVE  Lands(u, f) /\ Place(u) = 0
<1>1. Len(Header(f)) = HeaderLength
  BY HeaderBuffer
<1>2. PICK i \in 1 .. HeaderLength : Place(u) + i - 1 < HeaderLength
  BY <1>1 DEF Dirty
<1>3. Place(u) < HeaderLength
  BY <1>2, PlaceIsFirstOrBehind, Layout
<1>4. QED
  BY <1>3, PlaceIsFirstOrBehind, Layout DEF Lands

LEMMA DirtyDataLands ==
    ASSUME NEW u \in FlashUids, NEW f \in FlashFiles, Dirty(DataPlace(u), Pieces(f))
    PROVE  Lands(u, f) /\ DataPlace(u) < CellsOf[f]
<1>1. Len(Pieces(f)) = CellsOf[f]
  BY PiecesBuffer
<1>2. PICK i \in 1 .. CellsOf[f] : DataPlace(u) + i - 1 < CellsOf[f]
  BY <1>1 DEF Dirty
<1>3. DataPlace(u) \in Nat
  BY PlaceIsFirstOrBehind, Layout DEF DataPlace
<1>4. DataPlace(u) < CellsOf[f]
  BY <1>2, <1>3, Layout
<1>5. QED
  BY <1>4 DEF Lands

LEMMA HeaderCommitted ==
    ASSUME NEW f \in FlashFiles, flash' = Committed(0, Header(f))
    PROVE  HeaderOf(f)'
<1>1. Len(Header(f)) = HeaderLength
  BY HeaderBuffer
<1> SUFFICES ASSUME NEW i \in 1 .. HeaderLength
             PROVE  flash'[i - 1] = Header(f)[i]
  BY DEF HeaderOf, Header
<1>2. /\ i - 1 \in Addresses /\ i - 1 < HeaderLength /\ ~ (i - 1 >= HeaderLength)
      /\ i - 1 - 0 + 1 = i /\ 0 + i - 1 = i - 1
  BY Layout DEF Addresses
<1>3. CASE Dirty(0, Header(f))
  BY <1>1, <1>2, <1>3 DEF Committed, Programmed
<1>4. CASE ~ Dirty(0, Header(f))
  BY <1>1, <1>2, <1>4 DEF Committed, Dirty
<1>5. QED
  BY <1>3, <1>4

(* Behind the first header, the data lands up to its own length.           *)
LEMMA DataCommitted ==
    ASSUME NEW f \in FlashFiles, HeaderOf(f),
           flash' = Committed(HeaderLength, Pieces(f)),
           HeaderLength + CellsOf[f] <= BlockEnd
    PROVE  Stored(f)'
<1> DEFINE n == CellsOf[f]
           H == HeaderLength
<1>1. /\ Len(Pieces(f)) = n /\ n \in Nat /\ H \in Nat /\ BlockEnd \in Nat
      /\ \A i \in 1 .. n : Pieces(f)[i] = Piece(f, i)
  BY PiecesBuffer, Layout
<1>2. CASE Dirty(H, Pieces(f))
  <2>1. PICK i \in 1 .. n : H + i - 1 < n
    BY <1>1, <1>2 DEF Dirty
  <2>2. H < n
    BY <1>1, <2>1
  <2>3. flash' = [a \in Addresses |-> IF a >= n THEN Lost
                                      ELSE IF a - H + 1 \in 1 .. n
                                      THEN Pieces(f)[a - H + 1] ELSE flash[a]]
    BY <1>1, <1>2 DEF Committed, Programmed
  <2>4. ASSUME NEW k \in 1 .. H
        PROVE  flash'[k - 1] = flash[k - 1]
    <3>1. /\ k - 1 \in Addresses /\ ~ (k - 1 >= n) /\ k - 1 - H + 1 \notin 1 .. n
      BY <1>1, <2>2, Layout DEF Addresses
    <3> HIDE DEF n, H
    <3> QED  BY <2>3, <3>1
  <2>5. ASSUME NEW k \in 1 .. n, H + k <= n
        PROVE  flash'[H + k - 1] = Piece(f, k)
    <3>1. /\ H + k - 1 \in Addresses /\ ~ (H + k - 1 >= n)
          /\ H + k - 1 - H + 1 = k
      BY <1>1, <2>5, Layout DEF Addresses
    <3> HIDE DEF n, H
    <3> QED  BY <1>1, <2>3, <3>1
  <2>6. HeaderOf(f)'
    BY <2>4 DEF HeaderOf, Header
  <2> QED  BY <2>5, <2>6 DEF Stored
<1>3. CASE ~ Dirty(H, Pieces(f))
  <2>1. flash' = flash
    BY <1>3 DEF Committed
  <2>2. ASSUME NEW k \in 1 .. n, H + k <= n
        PROVE  flash[H + k - 1] = Piece(f, k)
    <3>1. H + k - 1 < n
      BY <1>1, <2>2
    <3> QED  BY <1>1, <1>3, <3>1 DEF Dirty
  <2> QED  BY <2>1, <2>2 DEF Stored, HeaderOf, Header
<1>4. QED
  BY <1>2, <1>3

LEMMA ErasedHasNoHeader ==
    ASSUME flash' = Committed(0, Zeros) PROVE NoHeader'
<1>1. 1 \in 1 .. MagicLength /\ 0 \in Addresses /\ 1 - 1 = 0 /\ 0 + 1 - 1 = 0
      /\ ~ (0 >= BlockEnd) /\ 0 < BlockEnd /\ 0 - 0 + 1 = 1 /\ 1 \in 1 .. BlockEnd
  BY Layout DEF Addresses
<1>2. Len(Zeros) = BlockEnd /\ Zeros[1] = Zero
  BY <1>1, ZerosBuffer
<1>3. CASE Dirty(0, Zeros)
  <2>1. flash'[0] = Zero
    BY <1>1, <1>2, <1>3 DEF Committed, Programmed
  <2> QED  BY <1>1, <2>1, CellsDiffer DEF NoHeader
<1>4. CASE ~ Dirty(0, Zeros)
  <2>1. flash'[0] = Zero
    BY <1>1, <1>2, <1>4 DEF Committed, Dirty
  <2> QED  BY <1>1, <2>1, CellsDiffer DEF NoHeader
<1>5. QED
  BY <1>3, <1>4

-----------------------------------------------------------------------------
LEMMA FlashInvInit == FlashInit => FlashInv
<1> SUFFICES ASSUME FlashInit
             PROVE  FlashInv
  OBVIOUS
<1>1. FlashTypeOK
  BY CellTypes DEF FlashInit, FlashTypeOK
<1>2. FlashCallMatches /\ CallTouchesNoPromise /\ HeaderIsThere
  BY DEF FlashInit, FlashCallMatches, CallTouchesNoPromise, HeaderIsThere
<1>3. NoHeader
  <2>1. 1 \in 1 .. MagicLength /\ 1 - 1 \in Addresses
    BY Layout DEF Addresses
  <2> QED  BY <2>1, CellsDiffer DEF NoHeader, FlashInit
<1>4. ASSUME NEW u \in FlashUids
      PROVE  Promise(u)
  <2>1. kept[u] = Gone /\ Gone \notin FlashFiles
    BY ItsFlashAssumption DEF FlashInit, Gone
  <2> QED  BY <1>3, <2>1 DEF Promise
<1>5. QED
  BY <1>1, <1>2, <1>4 DEF FlashInv

LEMMA PromiseStays ==
    ASSUME NEW u \in FlashUids, Promise(u), UNCHANGED flash,
           kept'[u] \in {kept[u], Open}
    PROVE  Promise(u)'
<1>1. Open \notin FlashFiles /\ Open # Gone
  BY ItsFlashAssumption DEF Open, Gone
<1>2. UNCHANGED NoHeader
  BY DEF NoHeader
<1>3. \A f : Stored(f)' = Stored(f)
  BY DEF Stored, HeaderOf, Header
<1>4. QED
  BY <1>1, <1>2, <1>3 DEF Promise

LEMMA SetBeginKeepsFlashInv ==
    ASSUME FlashInv, NEW u \in FlashUids, NEW f \in FlashFiles, FlashSetBegin(u, f)
    PROVE  FlashInv'
<1>1. FlashTypeOK'
  BY DEF FlashInv, FlashTypeOK, FlashSetBegin
<1>2. FlashCallMatches' /\ HeaderIsThere'
  BY DEF FlashSetBegin, FlashCallMatches, HeaderIsThere
<1>3. \A w \in FlashUids : kept'[w] \in {kept[w], Open}
  BY DEF FlashSetBegin
<1>4. CallTouchesNoPromise'
  <2>1. flash_pc' = "header" /\ flash_call'.uid = u /\ flash_call'.file = f
    BY DEF FlashSetBegin
  <2>2. Open \notin FlashFiles /\ Open # Gone
    BY ItsFlashAssumption DEF Open, Gone
  <2>3. ASSUME Lands(u, f), NEW w \in FlashUids
        PROVE  /\ kept'[w] \notin FlashFiles
               /\ Place(w) = Place(u) => kept'[w] # Gone
    BY <2>2, <2>3 DEF FlashSetBegin
  <2> QED  BY <2>1, <2>3 DEF CallTouchesNoPromise, NothingPromised
<1>5. \A w \in FlashUids : Promise(w)'
  BY <1>3, PromiseStays DEF FlashInv, FlashSetBegin
<1>6. QED
  BY <1>1, <1>2, <1>4, <1>5 DEF FlashInv

(* A write of the running call keeps every promise made before it.         *)
LEMMA CallKeepsPromises ==
    ASSUME FlashInv, flash_pc \in {"header", "data"},
           NEW u \in FlashUids, NEW f \in FlashFiles,
           flash_call.uid = u, flash_call.file = f,
           NEW at \in Nat, NEW buf, Len(buf) \in Nat,
           flash' \in Results(at, buf),
           UNCHANGED flash \/ (Lands(u, f) /\ (Place(u) = 0 \/ at >= HeaderLength)),
           NEW w \in FlashUids, kept'[w] = kept[w]
    PROVE  Promise(w)'
<1>1. CASE UNCHANGED flash
  BY <1>1, PromiseStays DEF FlashInv
<1>2. CASE Lands(u, f) /\ (Place(u) = 0 \/ at >= HeaderLength)
  <2>1. /\ kept[w] \notin FlashFiles
        /\ Place(w) = Place(u) => kept[w] # Gone
    BY <1>2 DEF FlashInv, CallTouchesNoPromise, NothingPromised
  <2>2. CASE Place(u) = 0
    BY <2>1, <2>2 DEF Promise
  <2>3. CASE at >= HeaderLength /\ Place(w) = 0 /\ kept[w] = Gone
    <3>1. NoHeader
      BY <2>3 DEF FlashInv, Promise
    <3> QED  BY <2>1, <2>3, <3>1, NoHeaderStays DEF Promise
  <2> QED  BY <1>2, <2>1, <2>2, <2>3 DEF Promise
<1>3. QED
  BY <1>1, <1>2

(* The two writes of a call, and what a power failure leaves of them.      *)
LEMMA HeaderKeepsPromises ==
    ASSUME FlashInv, flash_pc = "header",
           NEW u \in FlashUids, NEW f \in FlashFiles,
           flash_call.uid = u, flash_call.file = f,
           flash' \in Results(Place(u), Header(f)),
           ~ Dirty(Place(u), Header(f)) => UNCHANGED flash
    PROVE  /\ flash' \in [Addresses -> FlashCells]
           /\ \A w \in FlashUids : kept'[w] = kept[w] => Promise(w)'
<1> DEFINE at == Place(u)
           buf == Header(f)
<1>1. /\ at \in Nat /\ Len(buf) \in Nat
      /\ \A i \in 1 .. Len(buf) : buf[i] \in FlashCells
  BY HeaderBuffer, Layout, PlaceIsFirstOrBehind
<1>2. Dirty(at, buf) => Lands(u, f) /\ Place(u) = 0
  BY DirtyHeaderLands
<1>3. FlashTypeOK /\ flash' \in Results(at, buf)
  BY DEF FlashInv
<1>4. UNCHANGED flash \/ (Lands(u, f) /\ (Place(u) = 0 \/ at >= HeaderLength))
  BY <1>2
<1> HIDE DEF at, buf
<1>5. flash' \in [Addresses -> FlashCells]
  BY <1>1, <1>3, ResultTypes
<1>6. ASSUME NEW w \in FlashUids, kept'[w] = kept[w]
      PROVE  Promise(w)'
  BY <1>1, <1>3, <1>4, <1>6, CallKeepsPromises
<1>7. QED
  BY <1>5, <1>6

LEMMA DataKeepsPromises ==
    ASSUME FlashInv, flash_pc = "data",
           NEW u \in FlashUids, NEW f \in FlashFiles,
           flash_call.uid = u, flash_call.file = f,
           flash' \in Results(DataPlace(u), Pieces(f)),
           ~ Dirty(DataPlace(u), Pieces(f)) => UNCHANGED flash
    PROVE  /\ flash' \in [Addresses -> FlashCells]
           /\ \A w \in FlashUids : kept'[w] = kept[w] => Promise(w)'
<1> DEFINE at == DataPlace(u)
           buf == Pieces(f)
<1>1. /\ at \in Nat /\ Len(buf) \in Nat /\ at >= HeaderLength
      /\ \A i \in 1 .. Len(buf) : buf[i] \in FlashCells
  BY PiecesBuffer, Layout, PlaceIsFirstOrBehind DEF DataPlace
<1>2. Dirty(at, buf) => Lands(u, f)
  BY DirtyDataLands
<1>3. FlashTypeOK /\ flash' \in Results(at, buf)
  BY DEF FlashInv
<1>4. UNCHANGED flash \/ (Lands(u, f) /\ (Place(u) = 0 \/ at >= HeaderLength))
  BY <1>1, <1>2
<1> HIDE DEF at, buf
<1>5. flash' \in [Addresses -> FlashCells]
  BY <1>1, <1>3, ResultTypes
<1>6. QED
  BY <1>1, <1>3, <1>4, <1>5, CallKeepsPromises

LEMMA SetHeaderKeepsFlashInv ==
    ASSUME FlashInv, FlashSetHeader
    PROVE  FlashInv'
<1>1. PICK u \in FlashUids, f \in FlashFiles :
         flash_pc = "header" /\ u = flash_call.uid /\ f = flash_call.file
  BY DEF FlashInv, FlashCallMatches, FlashSetHeader
<1>2. PICK ok \in BOOLEAN :
        /\ FlashWrite(Place(u), Header(f), ok)
        /\ IF ok THEN flash_pc' = "data" /\ UNCHANGED flash_call ELSE FlashReturn
  BY <1>1 DEF FlashSetHeader
<1>3. UNCHANGED kept
  BY DEF FlashSetHeader
<1>4. /\ flash' \in Results(Place(u), Header(f))
      /\ ok => flash' = Committed(Place(u), Header(f))
      /\ ~ Dirty(Place(u), Header(f)) => UNCHANGED flash
  BY <1>2, WriteResults
<1>5. /\ flash' \in [Addresses -> FlashCells]
      /\ \A w \in FlashUids : Promise(w)'
  BY <1>1, <1>3, <1>4, HeaderKeepsPromises
<1>6. FlashTypeOK'
  BY <1>1, <1>2, <1>3, <1>5 DEF FlashInv, FlashTypeOK, FlashReturn
<1>7. FlashCallMatches' /\ CallTouchesNoPromise'
  BY <1>1, <1>2, <1>3 DEF FlashInv, FlashCallMatches, FlashReturn,
     CallTouchesNoPromise, NothingPromised, Lands, Place, DataPlace
<1>8. HeaderIsThere'
  <2> SUFFICES ASSUME ok, Place(u) = 0
               PROVE  HeaderOf(f)'
    BY <1>1, <1>2 DEF HeaderIsThere, FlashReturn, Place
  <2> QED  BY <1>4, HeaderCommitted
<1>9. QED
  BY <1>5, <1>6, <1>7, <1>8 DEF FlashInv

LEMMA SetDataKeepsFlashInv ==
    ASSUME FlashInv, FlashSetData
    PROVE  FlashInv'
<1>1. PICK u \in FlashUids, f \in FlashFiles :
         flash_pc = "data" /\ u = flash_call.uid /\ f = flash_call.file
  BY DEF FlashInv, FlashCallMatches, FlashSetData
<1>2. PICK ok \in BOOLEAN :
        /\ FlashWrite(DataPlace(u), Pieces(f), ok)
        /\ kept' = IF ok THEN [kept EXCEPT ![u] = f] ELSE kept
  BY <1>1 DEF FlashSetData
<1>3. FlashReturn
  BY DEF FlashSetData
<1>4. /\ flash' \in Results(DataPlace(u), Pieces(f))
      /\ ok => /\ DataPlace(u) + Len(Pieces(f)) <= BlockEnd
               /\ flash' = Committed(DataPlace(u), Pieces(f))
      /\ ~ Dirty(DataPlace(u), Pieces(f)) => UNCHANGED flash
  BY <1>2, WriteResults
<1>5. /\ flash' \in [Addresses -> FlashCells]
      /\ \A w \in FlashUids : kept'[w] = kept[w] => Promise(w)'
  BY <1>1, <1>4, DataKeepsPromises
<1>6. FlashTypeOK'
  BY <1>1, <1>2, <1>3, <1>5 DEF FlashInv, FlashTypeOK, FlashReturn
<1>7. FlashCallMatches' /\ CallTouchesNoPromise' /\ HeaderIsThere'
  BY <1>3 DEF FlashReturn, FlashCallMatches, CallTouchesNoPromise, HeaderIsThere
<1>8. CASE ok
  <2>1. kept \in [FlashUids -> FlashFiles \cup {Gone, Open}]
    BY DEF FlashInv, FlashTypeOK
  <2>2. kept'[u] = f /\ \A w \in FlashUids \ {u} : kept'[w] = kept[w]
    BY <1>2, <1>8, <2>1
  <2>3. ASSUME Place(u) = 0
        PROVE  Stored(f)'
    <3>1. HeaderOf(f)
      BY <1>1, <2>3 DEF FlashInv, HeaderIsThere
    <3>2. DataPlace(u) = HeaderLength /\ Len(Pieces(f)) = CellsOf[f]
      BY <2>3, Layout, PiecesBuffer DEF DataPlace
    <3> QED  BY <1>4, <1>8, <3>1, <3>2, DataCommitted
  <2>4. Promise(u)'
    BY <2>2, <2>3, ItsFlashAssumption DEF Promise, Gone, Place
  <2> QED  BY <1>5, <1>6, <1>7, <2>2, <2>4 DEF FlashInv
<1>9. CASE ~ ok
  BY <1>2, <1>5, <1>6, <1>7, <1>9 DEF FlashInv
<1>10. QED
  BY <1>8, <1>9

LEMMA RemoveKeepsFlashInv ==
    ASSUME FlashInv, FlashRemove
    PROVE  FlashInv'
<1>1. \A w \in FlashUids : kept'[w] = Open
  BY DEF FlashRemove
<1>2. \A w \in FlashUids : Promise(w)'
  BY <1>1, PromiseStays DEF FlashRemove, FlashInv
<1>3. FlashTypeOK'
  BY DEF FlashRemove, FlashInv, FlashTypeOK
<1>4. FlashCallMatches' /\ CallTouchesNoPromise' /\ HeaderIsThere'
  BY <1>1 DEF FlashRemove, FlashCallMatches, CallTouchesNoPromise, HeaderIsThere
<1>5. QED
  BY <1>2, <1>3, <1>4 DEF FlashInv

(* While the block is erased nothing is promised.                          *)
LEMMA NothingOpenIsPromised ==
    ASSUME NEW w \in FlashUids, kept'[w] = Open PROVE Promise(w)'
  BY ItsFlashAssumption DEF Promise, Open, Gone

LEMMA EraseResults ==
    ASSUME FlashTypeOK, flash' \in Results(0, Zeros)
    PROVE  flash' \in [Addresses -> FlashCells]
  BY ResultTypes, ZerosBuffer, Layout

LEMMA EraseKeepsFlashInv ==
    ASSUME FlashInv, FlashErase
    PROVE  FlashInv'
<1>1. FlashReturn /\ flash_pc = "erase"
  BY DEF FlashErase
<1>2. flash' \in [Addresses -> FlashCells]
  BY EraseResults DEF FlashErase, Results, FlashInv
<1>3. FlashCallMatches' /\ CallTouchesNoPromise' /\ HeaderIsThere'
  BY <1>1 DEF FlashReturn, FlashCallMatches, CallTouchesNoPromise, HeaderIsThere
<1>4. CASE flash' = Committed(0, Zeros) /\ kept' = [w \in FlashUids |-> Gone]
  <2>1. NoHeader'
    BY <1>4, ErasedHasNoHeader
  <2>2. \A w \in FlashUids : Promise(w)'
    BY <1>4, <2>1, ItsFlashAssumption DEF Promise, Gone
  <2>3. FlashTypeOK'
    BY <1>1, <1>2, <1>4 DEF FlashReturn, FlashTypeOK
  <2> QED  BY <1>3, <2>2, <2>3 DEF FlashInv
<1>5. CASE UNCHANGED kept
  <2>1. \A w \in FlashUids : Promise(w)'
    BY <1>1, <1>5, NothingOpenIsPromised DEF FlashInv, CallTouchesNoPromise
  <2>2. FlashTypeOK'
    BY <1>1, <1>2, <1>5 DEF FlashReturn, FlashTypeOK, FlashInv
  <2> QED  BY <1>3, <2>1, <2>2 DEF FlashInv
<1>6. QED
  BY <1>4, <1>5 DEF FlashErase

LEMMA PowerFailureKeepsFlashInv ==
    ASSUME FlashInv, FlashPowerFailure
    PROVE  FlashInv'
<1>1. FlashReturn /\ UNCHANGED kept
  BY DEF FlashPowerFailure
<1>2. FlashTypeOK /\ \A w \in FlashUids : Promise(w)
  BY DEF FlashInv
<1>3. /\ flash' \in [Addresses -> FlashCells]
      /\ \A w \in FlashUids : Promise(w)'
  <2>1. CASE UNCHANGED flash
    BY <1>1, <1>2, <2>1, PromiseStays DEF FlashTypeOK
  <2>2. CASE /\ flash_pc = "header"
             /\ flash' \in Cuts(Place(flash_call.uid), Header(flash_call.file))
    <3>1. PICK u \in FlashUids, f \in FlashFiles :
             u = flash_call.uid /\ f = flash_call.file
      BY <2>2 DEF FlashInv, FlashCallMatches
    <3>2. Dirty(Place(u), Header(f)) /\ flash' \in Results(Place(u), Header(f))
      BY <2>2, <3>1 DEF Cuts, Results
    <3> QED  BY <1>1, <2>2, <3>1, <3>2, HeaderKeepsPromises
  <2>3. CASE /\ flash_pc = "data"
             /\ flash' \in Cuts(DataPlace(flash_call.uid), Pieces(flash_call.file))
    <3>1. PICK u \in FlashUids, f \in FlashFiles :
             u = flash_call.uid /\ f = flash_call.file
      BY <2>3 DEF FlashInv, FlashCallMatches
    <3>2. Dirty(DataPlace(u), Pieces(f)) /\ flash' \in Results(DataPlace(u), Pieces(f))
      BY <2>3, <3>1 DEF Cuts, Results
    <3> QED  BY <1>1, <2>3, <3>1, <3>2, DataKeepsPromises
  <2>4. CASE flash_pc = "erase" /\ flash' \in Cuts(0, Zeros)
    <3>1. flash' \in Results(0, Zeros)
      BY <2>4 DEF Cuts, Results
    <3>2. \A w \in FlashUids : kept'[w] = Open
      BY <1>1, <2>4 DEF FlashInv, CallTouchesNoPromise
    <3> QED  BY <1>2, <3>1, <3>2, EraseResults, NothingOpenIsPromised
  <2> QED  BY <2>1, <2>2, <2>3, <2>4 DEF FlashPowerFailure
<1>4. FlashTypeOK'
  BY <1>1, <1>2, <1>3 DEF FlashTypeOK, FlashReturn
<1>5. FlashCallMatches' /\ CallTouchesNoPromise' /\ HeaderIsThere'
  BY <1>1 DEF FlashReturn, FlashCallMatches, CallTouchesNoPromise, HeaderIsThere
<1>6. QED
  BY <1>3, <1>4, <1>5 DEF FlashInv

LEMMA FlashInvInductive == FlashInv /\ [FlashNext]_flashVars => FlashInv'
<1> SUFFICES ASSUME FlashInv, [FlashNext]_flashVars
             PROVE  FlashInv'
  OBVIOUS
<1>1. CASE FlashNext
  BY <1>1, SetBeginKeepsFlashInv, SetHeaderKeepsFlashInv, SetDataKeepsFlashInv,
     RemoveKeepsFlashInv, EraseKeepsFlashInv, PowerFailureKeepsFlashInv DEF FlashNext
<1>2. CASE UNCHANGED flashVars
  <2>1. UNCHANGED flash /\ UNCHANGED kept
    BY <1>2 DEF flashVars
  <2>2. \A w \in FlashUids : Promise(w)'
    BY <2>1, PromiseStays DEF FlashInv
  <2>3. FlashTypeOK' /\ FlashCallMatches'
    BY <1>2 DEF flashVars, FlashInv, FlashTypeOK, FlashCallMatches
  <2>4. CallTouchesNoPromise' /\ HeaderIsThere'
    BY <1>2 DEF flashVars, FlashInv, CallTouchesNoPromise, NothingPromised, Lands,
                Place, DataPlace, HeaderIsThere, HeaderOf, Header
  <2> QED  BY <2>2, <2>3, <2>4 DEF FlashInv
<1>3. QED
  BY <1>1, <1>2

-----------------------------------------------------------------------------
(* What a client reads of the first place.                                 *)
LEMMA FirstHeaderRead ==
    \A i \in 1 .. HeaderLength : FlashRead(0, HeaderLength)[i] = flash[i - 1]
<1>1. \A i \in 1 .. HeaderLength : 0 + i - 1 < HeaderLength /\ 0 + i - 1 = i - 1
  BY Layout
<1>2. QED
  BY <1>1 DEF FlashRead

LEMMA StoredIsFound ==
    ASSUME NEW u \in FlashUids, NEW f \in FlashFiles, Place(u) = 0, Stored(f)
    PROVE  Finds(u, CellsOf[f], Beginning(f))
<1> DEFINE n == CellsOf[f]
           H == HeaderLength
           header == FlashRead(Place(u), H)
<1>1. n \in Nat /\ H \in Nat /\ H + n <= BlockEnd /\ BlockEnd \in Nat
  BY Layout DEF Stored
<1>2. \A i \in 1 .. H : header[i] = Header(f)[i]
  BY FirstHeaderRead DEF Stored, HeaderOf
<1>3. /\ \A i \in 1 .. MagicLength : i \in 1 .. H
      /\ MagicLength + 1 \in 1 .. H
      /\ ~ (Place(u) + H > BlockEnd)
  BY <1>1, Layout
<1>4. \A i \in 1 .. MagicLength : header[i] = Magic(i)
  BY <1>2, <1>3, HeaderBuffer
<1>5. SizeIn(header[MagicLength + 1]) = n
  <2>1. header[MagicLength + 1] = Size(n)
    BY <1>2, <1>3, HeaderBuffer
  <2> QED  BY <2>1 DEF SizeIn, Size
<1>6. FlashGetInfo(u) = [status |-> "SUCCESS", cells |-> n]
  BY <1>3, <1>4, <1>5 DEF FlashGetInfo
<1>7. DataPlace(u) = H
  BY <1>1 DEF DataPlace
<1>8. FlashRead(H, n) = Beginning(f)
  <2>1. ASSUME NEW i \in 1 .. n
        PROVE  (IF H + i - 1 < n THEN flash[H + i - 1] ELSE Zero)
                 = (IF H + i <= n THEN Piece(f, i) ELSE Zero)
    <3>1. H + i - 1 < n <=> H + i <= n
      BY <1>1
    <3> QED  BY <3>1 DEF Stored
  <2> QED  BY <2>1 DEF FlashRead, Beginning
<1>9. FlashGet(u, n) = [status |-> "SUCCESS", data |-> Beginning(f)]
  <2>1. ~ (DataPlace(u) + n > BlockEnd)
    BY <1>1, <1>7
  <2> QED  BY <1>7, <1>8, <2>1 DEF FlashGet
<1>10. QED
  BY <1>6, <1>9 DEF Finds

LEMMA NoHeaderIsFound ==
    ASSUME NEW u \in FlashUids, Place(u) = 0 => NoHeader
    PROVE  FlashGetInfo(u).status # "SUCCESS"
<1> DEFINE header == FlashRead(Place(u), HeaderLength)
<1>1. \E i \in 1 .. MagicLength : header[i] # Magic(i)
  <2>1. \A i \in 1 .. MagicLength : i \in 1 .. HeaderLength
    BY Layout
  <2>2. CASE Place(u) = 0
    BY <2>1, <2>2, FirstHeaderRead DEF NoHeader
  <2>3. CASE Place(u) # 0
    <3>1. /\ 1 \in 1 .. MagicLength /\ 1 \in 1 .. HeaderLength
          /\ ~ (Place(u) + 1 - 1 < HeaderLength)
      BY <2>3, Layout, PlaceIsFirstOrBehind
    <3>2. header[1] = Zero
      BY <3>1 DEF FlashRead
    <3> QED  BY <3>1, <3>2, CellsDiffer
  <2> QED  BY <2>2, <2>3
<1> HIDE DEF header
<1>2. FlashGetInfo(u) \in {[status |-> "DATA_CORRUPT", cells |-> 0],
                           [status |-> "DOES_NOT_EXIST", cells |-> 0]}
  BY <1>1 DEF FlashGetInfo, header
<1>3. QED
  BY <1>2

(* In a block of any layout, and whatever commits and erases fail, what    *)
(* psa_its_set reported stored at the first place has its size and its     *)
(* beginning until a call that lands there begins.                         *)
THEOREM BeginningsStay == BuildsSpec => []FlashKeepsBeginnings
<1>1. BuildsInit => FlashInit
  BY DEF BuildsInit
<1>2. [BuildsNext]_buildVars => [FlashNext]_flashVars
  BY DEF BuildsNext, buildVars, flashVars
<1>3. FlashInv => FlashKeepsBeginnings
  BY StoredIsFound DEF FlashInv, Promise, FlashKeepsBeginnings
<1>4. QED
  BY <1>1, <1>2, <1>3, FlashInvInit, FlashInvInductive, PTL DEF BuildsSpec

(* After an erase that took its effect, no place reads as a file before    *)
(* one is written there, whatever is cut off elsewhere in the sector.      *)
THEOREM NoFileAppears == BuildsSpec => []NoFlashFileAppears
<1>1. BuildsInit => FlashInit
  BY DEF BuildsInit
<1>2. [BuildsNext]_buildVars => [FlashNext]_flashVars
  BY DEF BuildsNext, buildVars, flashVars
<1>3. FlashInv => NoFlashFileAppears
  BY NoHeaderIsFound DEF FlashInv, Promise, NoFlashFileAppears
<1>4. QED
  BY <1>1, <1>2, <1>3, FlashInvInit, FlashInvInductive, PTL DEF BuildsSpec

(* Type correctness of the two builds without NVS.                         *)
THEOREM BuildsTypeCorrect == BuildsSpec => []BuildsTypeOK
<1>1. BuildsInit => FileInit /\ FlashInit /\ build \in {"nvs", "file", "flash"}
  BY DEF BuildsInit
<1>2. [BuildsNext]_buildVars => [FlashNext]_flashVars /\ [FileNext]_fileVars /\ UNCHANGED build
  BY DEF BuildsNext, buildVars, flashVars, fileVars
<1> DEFINE Which == build \in {"nvs", "file", "flash"}
<1>3. Which /\ UNCHANGED build => Which'
  OBVIOUS
<1>4. FlashInv /\ FileInv /\ Which => BuildsTypeOK
  BY DEF FlashInv, FileInv, BuildsTypeOK
<1> HIDE DEF Which
<1>5. BuildsInit => Which
  BY <1>1 DEF Which
<1>6. QED
  BY <1>1, <1>2, <1>3, <1>4, <1>5, FlashInvInit, FlashInvInductive, FileInvInit,
     FileInvInductive, PTL DEF BuildsSpec
=============================================================================
