--------------------------- MODULE WsIotSdkProofs ---------------------------
(***************************************************************************)
(* Proofs about a device, for any key files, and any failures of the SDK's *)
(* calls.  First its identity: of the driver's faults, failing commits,    *)
(* whose status nobody looks at, and failing reads, which are taken for a  *)
(* missing file, are excluded there, for with either a saved key may be    *)
(* lost.  Then the start, whatever fails, and the arithmetic of LowS on    *)
(* arrays of digits, with it the types of the device and the s of what it  *)
(* sends.                                                                  *)
(***************************************************************************)
EXTENDS WsIotSdk, KeyStorageProofs, RecursionProofs

(* Of the whole device, only the storage changes the flash.                *)
LEMMA SdkStepIsStorageStep == [SdkNext]_allVars => [Next]_vars
<1> SUFFICES ASSUME [SdkNext]_allVars PROVE [Next]_vars
  OBVIOUS
<1>1. CASE Storage
  BY <1>1 DEF Storage, Next, Operation
<1>2. ASSUME NEW f \in Values, GenerateKey(f) PROVE Next
  BY <1>2, SdkAssumption DEF GenerateKey, Next, Operation, Keys
<1>3. CASE PowerFailure
  BY <1>3 DEF PowerFailure, Next
<1>4. QED
  BY <1>1, <1>2, <1>3
  DEF SdkNext, allVars, Boot, Report, PowerOn, ExportKey, GenerateFails,
      GenerateDone, ExportAgain, ReportBegin, ReportSign, ReportSend, Evict,
      SetMqttStatus

-----------------------------------------------------------------------------
(* The inductive invariant.  ShownKeyIsSaved alone says nothing of the key *)
(* in the slot, which is the next to be shown, nor of the copy that reads  *)
(* see, from which it is loaded.                                           *)

DeviceFile == nvs[DeviceKey]
DurableFile == durable[DeviceKey]

(* The device's key file is written whole, and for good.                   *)
FileIs(key) == DeviceFile = WholeFile(key) /\ durable[DeviceKey] = DeviceFile

(* The keys that the device has shown, has in a slot, or is about to take  *)
(* as saved.                                                               *)
Adopted ==
    shown \cup ({key_slot} \ {None})
          \cup {key \in {generated} : /\ boot = "storing" /\ ks_pc = "idle"
                                      /\ ks_ret = "SUCCESS"}

(* Only a start that creates the key writes, only the key file, and it     *)
(* never comes to a removal.                                               *)
StoresDeviceKey ==
    /\ its_pc # "erasing"
    /\ ks_pc \in {"idle", "store_set"}
    /\ ks_pc = "store_set" => /\ boot = "storing"
                              /\ ks_call.key = DeviceKey
                              /\ ks_call.file = generated
                              /\ Adopted = {}

(* What reads see is permanent, except between a write and its commit.     *)
Committed ==
    its_pc \in {"idle", "opened", "header_committed"} =>
        durable[DeviceKey] = DeviceFile

AdoptedIsSaved == \A key \in Adopted : key \in Values /\ FileIs(key)

ReportsWhenRunning ==
    /\ upload.message \in Messages
    /\ upload.pc # "idle" => boot = "running"

ExportedWasShown == exported \in shown \cup {None}

Fits(message) ==
    message.sign # None /\ message.pubkey # None =>
        message.sign \in shown /\ message.pubkey \in shown

SdkInv ==
    /\ SavedInv
    /\ StoresDeviceKey
    /\ Committed
    /\ AdoptedIsSaved
    /\ ReportsWhenRunning
    /\ ExportedWasShown
    /\ Fits(upload.message) /\ Fits(sent)
LEMMA AdoptedIsWhole ==
    ASSUME NEW key \in Values, FileIs(key)
    PROVE  /\ DeviceFile.header # 0
           /\ DeviceFile.data = key
           /\ EntryOf(DeviceFile) = key
<1>1. SizeOf[key] # 0 /\ key # None
  BY ItsAssumption
<1>2. DeviceFile.header = SizeOf[key] /\ DeviceFile.data = key
  BY DEF FileIs, WholeFile
<1>3. QED
  BY <1>1, <1>2 DEF EntryOf

LEMMA SdkInvInit == SdkInit => SdkInv
<1> SUFFICES ASSUME SdkInit PROVE SdkInv
  OBVIOUS
<1>1. SavedInv
  BY SavedInit DEF SdkInit
<1>2. Adopted = {}
  BY DEF SdkInit, Adopted
<1>3. StoresDeviceKey
  BY DEF SdkInit, Init, ItsInit, StoresDeviceKey
<1>4. Committed
  BY SdkAssumption DEF SdkInit, Init, ItsInit, Committed, DeviceFile
<1>5. ReportsWhenRunning /\ ExportedWasShown /\ Fits(upload.message) /\ Fits(sent)
  BY DEF SdkInit, ReportsWhenRunning, ExportedWasShown, Fits, NoUpload, NoMessage,
         Messages
<1>6. QED
  BY <1>1, <1>2, <1>3, <1>4, <1>5 DEF SdkInv, AdoptedIsSaved

-----------------------------------------------------------------------------
(* Steps that leave storage alone.                                         *)

LEMMA UnchangedSaved ==
    ASSUME SdkInv, UNCHANGED vars
    PROVE  SavedInv'
<1>1. TypeInv' /\ WritesAreSeen'
  BY TypeStep, WritesStaySeen DEF SdkInv, SavedInv
<1>2. QED
  BY <1>1
  DEF vars, itsVars, ksVars, SdkInv, SavedInv, SavedKeysWhole, NoOperationNoCall,
      CallIsUnsettled, StoreCallsSet, OthersRemove, SetProgress

(* A step of the main task or of the application, with no store under way, *)
(* keeps the invariant when it shows and puts into the slot nothing but a  *)
(* key whose file is whole.                                                *)
LEMMA QuietStep ==
    ASSUME SdkInv, UNCHANGED vars, ks_pc = "idle", boot' # "storing",
           \A key \in shown' \cup ({key_slot'} \ {None}) :
              key \in Values /\ FileIs(key),
           ReportsWhenRunning', ExportedWasShown', Fits(upload.message)', Fits(sent)'
    PROVE  SdkInv'
<1>1. /\ its_pc' = its_pc /\ ks_pc' = ks_pc
      /\ nvs' = nvs /\ durable' = durable
  BY DEF vars, itsVars, ksVars
<1>2. StoresDeviceKey'
  BY <1>1 DEF SdkInv, StoresDeviceKey
<1>3. Committed'
  BY <1>1 DEF SdkInv, Committed, DeviceFile
<1>4. AdoptedIsSaved'
  BY <1>1 DEF AdoptedIsSaved, Adopted, FileIs, DeviceFile
<1>5. QED
  BY <1>2, <1>3, <1>4, UnchangedSaved DEF SdkInv

(* The device's key comes from its slot or from a file that is whole, with *)
(* no write under way.                                                     *)
LEMMA FoundIsSaved ==
    ASSUME ReadsAndCommitsWork, SdkInv, its_pc = "idle",
           NEW key \in DeviceKeyFound, key # None
    PROVE  key \in Values /\ FileIs(key)
<1>1. CASE key_slot # None /\ key = key_slot
  BY <1>1 DEF SdkInv, AdoptedIsSaved, Adopted
<1>2. CASE key_slot = None
  <2>1. PICK r \in psa_load_persistent_key(DeviceKey) : key \in MayFail("load", r.file)
    BY <1>2 DEF DeviceKeyFound
  <2>2. key = r.file
    BY <2>1 DEF MayFail
  <2>3. Faults \cap {"open", "read"} = {} /\ Faults \cap {"open"} = {}
        /\ Faults \cap {"read"} = {}
    BY DEF ReadsAndCommitsWork
  <2>4. PICK info \in GetInfo(DeviceKey) :
           r \in IF info.status = "SUCCESS"
                 THEN psa_crypto_storage_load(DeviceKey, info.size)
                 ELSE {[status |-> info.status, file |-> None]}
    BY <2>1 DEF psa_load_persistent_key
  <2>5. info.size = DeviceFile.header /\ r \in psa_crypto_storage_load(DeviceKey, info.size)
    BY <2>2, <2>3, <2>4 DEF GetInfo, DeviceFile
  <2>6. PICK got \in ItsGet(DeviceKey, info.size) :
           got.status = "SUCCESS" /\ got.data # Blank /\ key = got.data
    BY <2>2, <2>5 DEF psa_crypto_storage_load
  <2>7. /\ DeviceFile.data = key
        /\ SizeOf[key] = DeviceFile.header
    BY <2>3, <2>5, <2>6 DEF ItsGet, DeviceFile
  <2>8. DeviceFile \in Entry
    BY SdkAssumption
    DEF DeviceFile, SdkInv, SavedInv, TypeInv, KsTypeOK, ItsTypeOK
  <2>9. key \in Values /\ DeviceFile = WholeFile(key)
    BY <2>7, <2>8 DEF Entry, WholeFile
  <2>10. QED
    BY <2>9 DEF SdkInv, Committed, FileIs
<1>3. QED
  BY <1>1, <1>2 DEF DeviceKeyFound
-----------------------------------------------------------------------------
(* Starts.                                                                 *)

LEMMA NoStoreUnderWay ==
    ASSUME SdkInv, boot # "storing"
    PROVE  /\ ks_pc = "idle" /\ its_pc = "idle"
           /\ \A key \in shown \cup ({key_slot} \ {None}) :
                 key \in Values /\ FileIs(key)
<1>1. ks_pc = "idle"
  BY DEF SdkInv, StoresDeviceKey
<1>2. QED
  BY <1>1 DEF SdkInv, SavedInv, NoOperationNoCall, AdoptedIsSaved, Adopted

LEMMA ExportKeeps ==
    ASSUME SdkInv, boot # "storing", UNCHANGED vars,
           NEW key, NEW next \in {"generate", "running"}, Export(key, next),
           key \in {None, key_slot'},
           key_slot' # None => key_slot' \in Values /\ FileIs(key_slot'),
           boot # "running", UNCHANGED <<upload, sent>>
    PROVE  SdkInv'
<1>1. shown' = shown \cup ({key} \ {None}) /\ boot' \in {"generate", "running"}
  BY DEF Export
<1>2. \A k \in shown' \cup ({key_slot'} \ {None}) : k \in Values /\ FileIs(k)
  BY <1>1, NoStoreUnderWay
<1>3. ExportedWasShown' /\ Fits(upload.message)' /\ Fits(sent)'
  BY <1>1 DEF Export, ExportedWasShown, SdkInv, Fits
<1>4. ReportsWhenRunning'
  BY DEF SdkInv, ReportsWhenRunning
<1>5. QED
  BY <1>1, <1>2, <1>3, <1>4, NoStoreUnderWay, QuietStep

LEMMA PowerOnKeeps ==
    ASSUME SdkInv, PowerOn
    PROVE  SdkInv'
<1>1. /\ boot # "storing" /\ boot' # "storing" /\ boot # "running"
      /\ UNCHANGED <<key_slot, exported, upload, sent, shown>> /\ UNCHANGED vars
  BY DEF PowerOn
<1>2. ReportsWhenRunning' /\ ExportedWasShown' /\ Fits(upload.message)' /\ Fits(sent)'
  BY <1>1 DEF SdkInv, ReportsWhenRunning, ExportedWasShown, Fits
<1>3. QED
  BY <1>1, <1>2, NoStoreUnderWay, QuietStep

LEMMA ExportKeyKeeps ==
    ASSUME ReadsAndCommitsWork, SdkInv, ExportKey
    PROVE  SdkInv'
<1>1. /\ boot = "export" /\ UNCHANGED vars /\ UNCHANGED <<upload, sent>>
      /\ key_slot' \in DeviceKeyFound
  BY DEF ExportKey
<1>2. PICK key \in MayFail("export", key_slot') : Export(key, "generate")
  BY DEF ExportKey
<1>3. key_slot' # None => key_slot' \in Values /\ FileIs(key_slot')
  BY <1>1, NoStoreUnderWay, FoundIsSaved
<1>4. key \in {None, key_slot'}
  BY <1>2 DEF MayFail
<1>5. QED
  BY <1>1, <1>2, <1>3, <1>4, ExportKeeps

LEMMA ExportAgainKeeps ==
    ASSUME SdkInv, ExportAgain
    PROVE  SdkInv'
<1>1. /\ boot = "export_again" /\ UNCHANGED vars
      /\ UNCHANGED <<key_slot, upload, sent>>
  BY DEF ExportAgain
<1>2. PICK key : key \in {None, key_slot} /\ Export(key, "running")
  BY DEF ExportAgain, MayFail
<1>3. key_slot' # None => key_slot' \in Values /\ FileIs(key_slot')
  BY <1>1, NoStoreUnderWay
<1>4. QED
  BY <1>1, <1>2, <1>3, ExportKeeps

(* A key is drawn into an empty file only, and then nothing was adopted.   *)
LEMMA GenerateKeyKeeps ==
    ASSUME ReadsAndCommitsWork, SdkInv, SavedInv', NEW f \in Values, GenerateKey(f)
    PROVE  SdkInv'
<1>1. /\ boot = "generate" /\ boot' = "storing" /\ generated' = f
      /\ UNCHANGED <<key_slot, exported, upload, sent, shown>>
      /\ StoreBegin(DeviceKey, f)
  BY DEF GenerateKey
<1>2. /\ ks_pc = "idle" /\ its_pc = "idle"
      /\ \A key \in shown \cup ({key_slot} \ {None}) :
            key \in Values /\ FileIs(key)
  BY <1>1, NoStoreUnderWay
<1>3. /\ ReportsWhenRunning' /\ ExportedWasShown'
      /\ Fits(upload.message)' /\ Fits(sent)'
  BY <1>1 DEF SdkInv, ReportsWhenRunning, ExportedWasShown, Fits
<1>4. PICK present \in PresentInStorage(DeviceKey) :
         IF present
         THEN /\ KsReturn("ALREADY_EXISTS")
              /\ UNCHANGED <<itsVars, promised>>
         ELSE /\ SetOpen(DeviceKey, f)
              /\ KsGoto("store_set", [op |-> "store", key |-> DeviceKey,
                                      file |-> f, status |-> "SUCCESS"])
  BY <1>1 DEF StoreBegin
<1>5. CASE present
  <2>1. /\ ks_pc' = "idle" /\ ks_ret' # "SUCCESS"
        /\ its_pc' = its_pc /\ nvs' = nvs /\ durable' = durable
    BY <1>4, <1>5 DEF KsReturn, itsVars
  <2>2. StoresDeviceKey'
    BY <1>2, <2>1 DEF StoresDeviceKey
  <2>3. Committed'
    BY <2>1 DEF SdkInv, Committed, DeviceFile
  <2>4. AdoptedIsSaved'
    BY <1>1, <1>2, <2>1 DEF AdoptedIsSaved, Adopted, FileIs, DeviceFile
  <2>5. QED
    BY <1>3, <2>2, <2>3, <2>4 DEF SdkInv
<1>6. CASE ~ present
  <2>1. DeviceFile.header = 0
    <3>1. Faults \cap {"open", "read"} = {}
      BY DEF ReadsAndCommitsWork
    <3>2. PICK info \in GetInfo(DeviceKey) : info.status = "DOES_NOT_EXIST"
      BY <1>4, <1>6 DEF PresentInStorage
    <3>3. QED
      BY <3>1, <3>2 DEF GetInfo, DeviceFile
  <2>2. shown \cup ({key_slot} \ {None}) = {}
    BY <1>2, <2>1, AdoptedIsWhole
  <2>3. /\ its_pc' = "opened" /\ nvs' = nvs /\ durable' = durable
    BY <1>4, <1>6 DEF SetOpen, ReadsAndCommitsWork
  <2>4. /\ ks_pc' = "store_set"
        /\ ks_call' = [op |-> "store", key |-> DeviceKey, file |-> f,
                       status |-> "SUCCESS"]
    BY <1>4, <1>6 DEF KsGoto
  <2>5. Adopted' = {}
    BY <1>1, <2>2, <2>4 DEF Adopted
  <2>6. StoresDeviceKey'
    BY <1>1, <2>3, <2>4, <2>5 DEF StoresDeviceKey
  <2>7. Committed'
    BY <1>2, <2>3 DEF SdkInv, Committed, DeviceFile
  <2>8. QED
    BY <1>3, <2>5, <2>6, <2>7 DEF SdkInv, AdoptedIsSaved
<1>7. QED
  BY <1>5, <1>6

(* A commit of the device key's file makes permanent what reads see of it. *)
LEMMA DeviceCommits ==
    ASSUME ReadsAndCommitsWork, SdkInv, CommitBlobs(DeviceKey)
    PROVE  nvs' = nvs /\ DurableFile' = DeviceFile
<1>1. ItsTypeOK /\ WritesAreSeen /\ DeviceKey \in Uids /\ CommitsCount
  BY SdkAssumption
  DEF SdkInv, SavedInv, TypeInv, KsTypeOK, ReadsAndCommitsWork
<1>2. nvs' = nvs /\ durable' = [durable EXCEPT ![DeviceKey] = nvs[DeviceKey]]
  BY <1>1, CommitSettles
<1>3. QED
  BY <1>1, <1>2 DEF ItsTypeOK, DurableFile, DeviceFile

(* While the file is written, no key is shown or taken as saved.           *)
LEMMA StorageKeeps ==
    ASSUME ReadsAndCommitsWork, SdkInv, SavedInv', Storage
    PROVE  SdkInv'
<1>1. UNCHANGED sdkVars
  BY DEF Storage
<1>2. /\ boot' = boot /\ generated' = generated /\ key_slot' = key_slot
      /\ exported' = exported /\ upload' = upload /\ sent' = sent
      /\ shown' = shown
  BY <1>1 DEF sdkVars
<1>3. /\ ReportsWhenRunning' /\ ExportedWasShown'
      /\ Fits(upload.message)' /\ Fits(sent)'
  BY <1>2 DEF SdkInv, ReportsWhenRunning, ExportedWasShown, Fits
<1>4. ks_pc = "store_set"
  BY DEF Storage, ItsProgress, ItsStep, SetHeader, CommitHeader, SetData,
         CommitData, EraseAll, StoreVerify, StoreCleanup, SdkInv, StoresDeviceKey,
         SavedInv, NoOperationNoCall
<1>5. /\ boot = "storing" /\ ks_call.key = DeviceKey
      /\ ks_call.file = generated /\ Adopted = {}
      /\ its_pc # "erasing"
  BY <1>4 DEF SdkInv, StoresDeviceKey
<1>6. /\ nvs \in [Uids -> Entry] /\ durable \in [Uids -> Entry]
      /\ generated \in Values /\ DeviceKey \in Uids
  BY <1>4, <1>5, SdkAssumption
  DEF SdkInv, SavedInv, TypeInv, KsTypeOK, ItsTypeOK, CallMatchesPc
<1>7. CASE ItsProgress
  <2>1. ks_pc' = ks_pc /\ ks_call' = ks_call /\ ItsStep
    BY <1>7 DEF ItsProgress, ksVars
  <2>2. Adopted' = {}
    BY <1>2, <1>4, <1>5, <2>1 DEF Adopted
  <2>3. its_pc # "idle" /\ its_pc' # "erasing"
    BY <1>5, <2>1
    DEF ItsStep, SetHeader, CommitHeader, SetData, CommitData, EraseAll, ItsGoto,
        ItsReturn
  <2>4. its_call.uid = DeviceKey
    BY <1>4, <1>5, <2>3 DEF SdkInv, SavedInv, StoreCallsSet
  <2>5. Committed'
    <3>1. CASE SetHeader \/ SetData
      BY <1>6, <2>4, <3>1
      DEF SdkInv, Committed, DeviceFile, SetHeader, SetData, ItsGoto, ItsReturn
    <3>2. CASE CommitHeader \/ CommitData
      BY <2>4, <3>2, DeviceCommits
      DEF CommitHeader, CommitData, Committed, DeviceFile, DurableFile
    <3>3. QED
      BY <1>5, <2>1, <3>1, <3>2 DEF ItsStep, EraseAll
  <2>6. StoresDeviceKey'
    BY <1>2, <1>4, <1>5, <2>1, <2>2, <2>3 DEF StoresDeviceKey
  <2>7. QED
    BY <1>3, <2>2, <2>5, <2>6 DEF SdkInv, AdoptedIsSaved
<1>8. CASE StoreVerify
  <2>1. its_pc = "idle"
    BY <1>8 DEF StoreVerify
  <2>2. its_ret = "SUCCESS" => FileIs(generated)
    BY <1>4, <1>5, <2>1 DEF SdkInv, SavedInv, SetProgress, FileIs, DeviceFile
  <2>3. its_ret = "SUCCESS" =>
           GetInfo(DeviceKey) = {[status |-> "SUCCESS", size |-> SizeOf[generated]]}
    <3>1. Faults \cap {"open", "read"} = {}
      BY DEF ReadsAndCommitsWork
    <3>2. SUFFICES ASSUME its_ret = "SUCCESS"
                   PROVE  GetInfo(DeviceKey) =
                            {[status |-> "SUCCESS", size |-> SizeOf[generated]]}
      OBVIOUS
    <3>3. nvs[DeviceKey].header = SizeOf[generated] /\ SizeOf[generated] # 0
      BY <1>6, <2>2, <3>2, ItsAssumption DEF FileIs, DeviceFile, WholeFile
    <3>4. QED
      BY <3>1, <3>3 DEF GetInfo
  <2>4. /\ UNCHANGED itsVars /\ ks_pc' = "idle"
        /\ ks_ret' = "SUCCESS" => its_ret = "SUCCESS"
    <3>1. CASE its_ret # "SUCCESS"
      BY <1>8, <3>1 DEF StoreVerify, KsReturn
    <3>2. CASE its_ret = "SUCCESS"
      <4>1. PICK info \in GetInfo(DeviceKey) :
               (info.status = "SUCCESS" /\ info.size = SizeOf[generated])
                  => UNCHANGED itsVars /\ KsReturn("SUCCESS")
        BY <1>5, <1>8, <3>2 DEF StoreVerify
      <4>2. info.status = "SUCCESS" /\ info.size = SizeOf[generated]
        BY <2>3, <3>2
      <4>3. QED
        BY <3>2, <4>1, <4>2 DEF KsReturn
    <3>3. QED
      BY <3>1, <3>2
  <2>5. its_pc' = its_pc /\ nvs' = nvs /\ durable' = durable
    BY <2>4 DEF itsVars
  <2>6. StoresDeviceKey'
    BY <2>1, <2>4, <2>5 DEF StoresDeviceKey
  <2>7. Committed'
    BY <2>5 DEF SdkInv, Committed, DeviceFile
  <2>8. Adopted' \subseteq {key \in {generated} : its_ret = "SUCCESS"}
    BY <1>2, <1>5, <2>4 DEF Adopted
  <2>9. AdoptedIsSaved'
    BY <1>6, <2>2, <2>5, <2>8 DEF AdoptedIsSaved, FileIs, DeviceFile
  <2>10. QED
    BY <1>3, <2>6, <2>7, <2>9 DEF SdkInv
<1>9. QED
  BY <1>4, <1>7, <1>8 DEF Storage, StoreCleanup

LEMMA GenerateEndsKeeps ==
    ASSUME SdkInv, GenerateFails \/ GenerateDone
    PROVE  SdkInv'
<1>1. /\ boot' = "export_again" /\ boot # "running" /\ UNCHANGED vars
      /\ UNCHANGED <<exported, upload, sent, shown>>
  BY DEF GenerateFails, GenerateDone
<1>2. ks_pc = "idle"
  BY NoStoreUnderWay DEF GenerateFails, GenerateDone
<1>3. key_slot' = key_slot \/ key_slot' \in Adopted
  BY <1>2 DEF GenerateFails, GenerateDone, Adopted
<1>4. \A key \in shown' \cup ({key_slot'} \ {None}) : key \in Values /\ FileIs(key)
  BY <1>1, <1>3 DEF SdkInv, AdoptedIsSaved, Adopted
<1>5. /\ ReportsWhenRunning' /\ ExportedWasShown'
      /\ Fits(upload.message)' /\ Fits(sent)'
  BY <1>1 DEF SdkInv, ReportsWhenRunning, ExportedWasShown, Fits
<1>6. QED
  BY <1>1, <1>2, <1>4, <1>5, QuietStep

-----------------------------------------------------------------------------
(* Reports, and what happens to the device.                                *)

LEMMA ReportSignKeeps ==
    ASSUME ReadsAndCommitsWork, SdkInv, ReportSign
    PROVE  SdkInv'
<1>1. /\ upload.pc = "sign" /\ UNCHANGED vars
      /\ UNCHANGED <<boot, exported, sent, shown>>
  BY DEF ReportSign
<1>2. boot = "running"
  BY <1>1 DEF SdkInv, ReportsWhenRunning
<1>3. PICK sign : sign \in {None, key_slot'} /\ Signed(sign)
  BY DEF ReportSign, MayFail
<1>4. key_slot' # None => key_slot' \in Values /\ FileIs(key_slot')
  BY <1>2, NoStoreUnderWay, FoundIsSaved DEF ReportSign
<1>5. \A key \in shown' \cup ({key_slot'} \ {None}) : key \in Values /\ FileIs(key)
  BY <1>1, <1>2, <1>4, NoStoreUnderWay
<1>6. ExportedWasShown' /\ Fits(sent)'
  BY <1>1 DEF SdkInv, ExportedWasShown, Fits
<1>7. upload.message \in Messages
  BY DEF SdkInv, ReportsWhenRunning
<1>8. exported \in Values \cup {None} /\ sign \in Values \cup {None}
  BY <1>2, <1>3, <1>4, NoStoreUnderWay DEF SdkInv, ExportedWasShown
<1>9. upload'.message = [kind |-> upload.message.kind, sign |-> sign,
                         pubkey |-> exported]
  BY <1>3, <1>7 DEF Signed, Messages
<1>10. ReportsWhenRunning'
  BY <1>1, <1>2, <1>7, <1>8, <1>9 DEF ReportsWhenRunning, Messages
<1>11. Fits(upload.message)'
  <2>1. SUFFICES ASSUME sign # None, exported # None
                 PROVE  sign \in shown' /\ exported \in shown'
    BY <1>9 DEF Fits
  <2>2. exported \in shown
    BY <2>1 DEF SdkInv, ExportedWasShown
  <2>3. FileIs(exported) /\ FileIs(sign)
    BY <1>2, <1>3, <1>4, <2>1, <2>2, NoStoreUnderWay
  <2>4. sign = exported
    BY <1>8, <2>1, <2>3, AdoptedIsWhole
  <2>5. QED
    BY <1>1, <2>2, <2>4
<1>12. QED
  BY <1>1, <1>2, <1>5, <1>6, <1>10, <1>11, NoStoreUnderWay, QuietStep

LEMMA ReportKeeps ==
    ASSUME SdkInv,
           \/ \E kind \in Kinds : ReportBegin(kind)
           \/ ReportSend \/ Evict
           \/ \E s \in AppStatuses : SetMqttStatus(s)
    PROVE  SdkInv'
<1>1. /\ boot' = boot /\ exported' = exported /\ shown' = shown /\ UNCHANGED vars
      /\ key_slot' \in {key_slot, None}
  BY DEF ReportBegin, ReportSend, Evict, SetMqttStatus
<1>2. boot = "running"
  <2>1. CASE ReportSend
    BY <2>1 DEF ReportSend, SdkInv, ReportsWhenRunning
  <2>2. QED
    BY <2>1 DEF ReportBegin, Evict, SetMqttStatus
<1>3. \A key \in shown' \cup ({key_slot'} \ {None}) : key \in Values /\ FileIs(key)
  BY <1>1, <1>2, NoStoreUnderWay
<1>4. upload'.message \in Messages /\ Fits(upload.message)' /\ Fits(sent)'
  <2>1. ASSUME NEW kind \in Kinds, upload'.message = [NoMessage EXCEPT !.kind = kind]
        PROVE  upload'.message \in Messages /\ Fits(upload.message)'
    <3>1. upload'.message = [kind |-> kind, sign |-> None, pubkey |-> None]
      BY <2>1 DEF NoMessage
    <3>2. QED
      BY <3>1 DEF Messages, Fits
  <2>2. NoUpload.message \in Messages /\ NoUpload.message.sign = None
    BY DEF NoUpload, NoMessage, Messages
  <2>3. CASE \E kind \in Kinds : ReportBegin(kind)
    <3>1. PICK kind \in Kinds : ReportBegin(kind)
      BY <2>3
    <3>2. sent' = sent /\ (upload' = upload
                            \/ upload'.message = [NoMessage EXCEPT !.kind = kind])
      BY <3>1 DEF ReportBegin
    <3>3. QED
      BY <1>1, <2>1, <3>2 DEF SdkInv, ReportsWhenRunning, Fits
  <2>4. CASE ReportSend
    <3>1. upload' = NoUpload /\ sent' \in {sent, upload.message}
      BY <2>4 DEF ReportSend
    <3>2. QED
      BY <1>1, <2>2, <3>1 DEF SdkInv, Fits
  <2>5. CASE Evict \/ \E s \in AppStatuses : SetMqttStatus(s)
    <3>1. upload' = upload /\ sent' = sent
      BY <2>5 DEF Evict, SetMqttStatus
    <3>2. QED
      BY <1>1, <3>1 DEF SdkInv, ReportsWhenRunning, Fits
  <2>6. QED
    BY <2>3, <2>4, <2>5
<1>5. ReportsWhenRunning' /\ ExportedWasShown'
  BY <1>1, <1>2, <1>4 DEF ReportsWhenRunning, SdkInv, ExportedWasShown
<1>6. QED
  BY <1>1, <1>2, <1>3, <1>4, <1>5, NoStoreUnderWay, QuietStep

(* A power failure takes what was not committed, and of a file that was    *)
(* adopted everything was.                                                 *)
LEMMA PowerFailureKeeps ==
    ASSUME SdkInv, SavedInv', PowerFailure
    PROVE  SdkInv'
<1>1. /\ Crash /\ boot' = "off" /\ key_slot' = None /\ exported' = None
      /\ upload' = NoUpload /\ sent' = sent /\ shown' = shown
  BY DEF PowerFailure
<1>2. /\ its_pc' = "idle" /\ ks_pc' = "idle" /\ durable' = nvs'
      /\ \A u \in Uids : nvs'[u] \in Surviving(u)
  BY <1>1 DEF Crash, ItsCrash
<1>3. StoresDeviceKey' /\ Committed'
  BY <1>2 DEF StoresDeviceKey, Committed, DeviceFile
<1>4. ASSUME NEW key \in shown
      PROVE  key \in Values /\ FileIs(key)'
  <2>1. key \in Values /\ FileIs(key) /\ its_pc # "erasing"
    BY DEF SdkInv, AdoptedIsSaved, Adopted, StoresDeviceKey
  <2>2. nvs[DeviceKey] = WholeFile(key) /\ durable[DeviceKey] = nvs[DeviceKey]
    BY <2>1 DEF FileIs, DeviceFile
  <2>3. Surviving(DeviceKey) = [header : {nvs[DeviceKey].header},
                                data : {nvs[DeviceKey].data}]
    BY <2>1, <2>2 DEF Surviving
  <2>4. nvs'[DeviceKey] = nvs[DeviceKey]
    <3>1. nvs'[DeviceKey] \in Surviving(DeviceKey)
      BY <1>2, SdkAssumption
    <3>2. \A e \in Surviving(DeviceKey) : e = nvs[DeviceKey]
      BY <2>2, <2>3 DEF WholeFile
    <3>3. QED
      BY <3>1, <3>2
  <2>5. QED
    BY <1>2, <2>1, <2>2, <2>4 DEF FileIs, DeviceFile
<1>5. AdoptedIsSaved'
  BY <1>1, <1>4 DEF AdoptedIsSaved, Adopted
<1>6. /\ ReportsWhenRunning' /\ ExportedWasShown'
      /\ Fits(upload.message)' /\ Fits(sent)'
  BY <1>1 DEF SdkInv, ReportsWhenRunning, ExportedWasShown, Fits, NoUpload, NoMessage,
              Messages
<1>7. QED
  BY <1>3, <1>5, <1>6 DEF SdkInv

-----------------------------------------------------------------------------
LEMMA SdkStep ==
    ASSUME ReadsAndCommitsWork, SdkInv, [SdkNext]_allVars
    PROVE  SdkInv'
<1>1. SavedInv'
  BY SdkStepIsStorageStep, SavedStep DEF SdkInv, ReadsAndCommitsWork
<1>2. CASE UNCHANGED allVars
  BY <1>1, <1>2
  DEF allVars, sdkVars, vars, itsVars, ksVars, SdkInv, StoresDeviceKey, Committed,
      AdoptedIsSaved, Adopted, FileIs, DeviceFile, ReportsWhenRunning,
      ExportedWasShown, Fits
<1>3. CASE SdkNext
  BY <1>1, <1>3, PowerOnKeeps, ExportKeyKeeps, ExportAgainKeeps, GenerateKeyKeeps,
     StorageKeeps, GenerateEndsKeeps, ReportSignKeeps, ReportKeeps, PowerFailureKeeps
  DEF SdkNext, Boot, Report
<1>4. QED
  BY <1>2, <1>3

LEMMA SdkInvariance == ReadsAndCommitsWork => (SdkSpec => []SdkInv)
<1> SUFFICES ASSUME ReadsAndCommitsWork PROVE SdkSpec => []SdkInv
  OBVIOUS
<1>1. SdkInv /\ [SdkNext]_allVars => SdkInv'
  BY SdkStep
<1>2. QED
  BY <1>1, SdkInvInit, PTL DEF SdkSpec

(* iotex_wsiotsdk_init: a key that the device has shown is the one its     *)
(* flash would give back after a power failure now, wherever the power     *)
(* went, and whichever writes, erases and calls failed, ever.              *)
THEOREM ShownKeysAreSaved ==
    ReadsAndCommitsWork => (SdkSpec => []ShownKeyIsSaved)
<1> SUFFICES ASSUME ReadsAndCommitsWork PROVE SdkSpec => []ShownKeyIsSaved
  OBVIOUS
<1>1. SdkInv => ShownKeyIsSaved
  BY AdoptedIsWhole DEF SdkInv, AdoptedIsSaved, Adopted, FileIs, ShownKeyIsSaved
<1>2. QED
  BY <1>1, SdkInvariance, PTL

(* iotex_export_public_key: a device shows one public key in its life.     *)
THEOREM IdentityIsStable ==
    ReadsAndCommitsWork => (SdkSpec => []IdentityStable)
<1> SUFFICES ASSUME ReadsAndCommitsWork PROVE SdkSpec => []IdentityStable
  OBVIOUS
<1>1. SdkInv => IdentityStable
  BY AdoptedIsWhole DEF SdkInv, AdoptedIsSaved, Adopted, IdentityStable
<1>2. QED
  BY <1>1, SdkInvariance, PTL

(* iotex_dev_access_data_upload_with_userdata: a report with a signature   *)
(* and a public key carries the signature of that key, although the one    *)
(* comes from a slot or the flash and the other is a copy made at start.   *)
THEOREM SignaturesFitKeys ==
    ReadsAndCommitsWork => (SdkSpec => []SignatureFitsKey)
<1> SUFFICES ASSUME ReadsAndCommitsWork PROVE SdkSpec => []SignatureFitsKey
  OBVIOUS
<1>1. SdkInv => SignatureFitsKey
  BY AdoptedIsWhole DEF SdkInv, AdoptedIsSaved, Adopted, Fits, SignatureFitsKey
<1>2. QED
  BY <1>1, SdkInvariance, PTL


-----------------------------------------------------------------------------
(* The refinement of DeviceIdentity.  The key file grows and never shrinks *)
(* or changes: the first start finds its place empty, header and data are  *)
(* made permanent in this order, and nothing is written over a file.       *)

WholeFiles == {WholeFile(f) : f \in Values}
FileForms == {Erased} \cup {HeaderOnly(f) : f \in Values} \cup WholeFiles

FileGrows ==
    /\ DeviceFile \in FileForms /\ DurableFile \in FileForms
    /\ its_pc = "opened" => DeviceFile = Erased
    /\ its_pc = "header_set" => /\ DeviceFile = HeaderOnly(generated)
                                /\ DurableFile \in {Erased, HeaderOnly(generated)}
    /\ its_pc = "header_committed" => DeviceFile = HeaderOnly(generated)
    /\ its_pc = "data_set" =>
          DurableFile \in {HeaderOnly(generated), WholeFile(generated)}

(* What is signed is signed with the device's key.                         *)
SignedByDevice ==
    \A key \in {upload.message.sign} \ {None} : key \in Values /\ FileIs(key)

ClaimsWhatWasShown == upload.message.pubkey \in shown \cup {None}

IdentityInv == FileGrows /\ SignedByDevice /\ ClaimsWhatWasShown

LEMMA FilesDiffer ==
    ASSUME NEW f \in Values, NEW g \in Values
    PROVE  /\ WholeFile(f) # Erased /\ HeaderOnly(f) # Erased
           /\ WholeFile(f) # HeaderOnly(g)
           /\ WholeFile(f) = WholeFile(g) => f = g
           /\ HeaderOnly(f).data = None /\ HeaderOnly(f).header = SizeOf[f]
           /\ WholeFile(f).data = f /\ WholeFile(f).header = SizeOf[f]
  BY ItsAssumption DEF WholeFile, HeaderOnly, Erased

LEMMA IdentityInit == SdkInit => IdentityInv
<1> SUFFICES ASSUME SdkInit PROVE IdentityInv
  OBVIOUS
<1>1. DeviceFile = Erased /\ DurableFile = Erased /\ its_pc = "idle"
  BY SdkAssumption DEF SdkInit, Init, ItsInit, DeviceFile, DurableFile
<1>2. FileGrows
  BY <1>1 DEF FileGrows, FileForms
<1>3. SignedByDevice /\ ClaimsWhatWasShown
  BY DEF SdkInit, SignedByDevice, ClaimsWhatWasShown, NoUpload, NoMessage
<1>4. QED
  BY <1>2, <1>3 DEF IdentityInv

(* A step of the storage in the start that stores the key.                 *)
LEMMA StorageGrows ==
    ASSUME ReadsAndCommitsWork, SdkInv, SdkInv', FileGrows, Storage
    PROVE  /\ FileGrows'
           /\ DurableFile \in WholeFiles => DurableFile' = DurableFile
           /\ DeviceFile \in WholeFiles => DeviceFile' = DeviceFile
<1>1. generated' = generated /\ boot' = boot
  BY DEF Storage, sdkVars
<1>2. ks_pc = "store_set"
  BY DEF Storage, ItsProgress, ItsStep, SetHeader, CommitHeader, SetData,
         CommitData, EraseAll, StoreVerify, StoreCleanup, SdkInv, StoresDeviceKey,
         SavedInv, NoOperationNoCall
<1>3. /\ ks_call.key = DeviceKey /\ ks_call.file = generated
      /\ its_pc # "erasing" /\ its_pc' # "erasing"
  BY <1>2 DEF SdkInv, StoresDeviceKey
<1>4. /\ nvs \in [Uids -> Entry] /\ durable \in [Uids -> Entry]
      /\ generated \in Values /\ DeviceKey \in Uids
  BY <1>2, <1>3, SdkAssumption
  DEF SdkInv, SavedInv, TypeInv, KsTypeOK, ItsTypeOK, CallMatchesPc
<1>5. /\ HeaderOnly(generated) \in FileForms /\ WholeFile(generated) \in FileForms
      /\ WholeFile(generated) \in WholeFiles
      /\ Erased \notin WholeFiles /\ HeaderOnly(generated) \notin WholeFiles
      /\ \A e \in WholeFiles : e = HeaderOnly(generated) => FALSE
  BY <1>4, FilesDiffer DEF FileForms, WholeFiles
<1>6. CASE ItsProgress
  <2>1. ItsStep
    BY <1>6 DEF ItsProgress
  <2>2. its_pc # "idle" => its_call.uid = DeviceKey /\ its_call.value = generated
    BY <1>2, <1>3 DEF SdkInv, SavedInv, StoreCallsSet
  <2>3. ASSUME NEW e, PutBlobs(DeviceKey, e)
        PROVE  DeviceFile' = e /\ DurableFile' \in {DurableFile, e}
    BY <1>4, <2>3 DEF PutBlobs, DeviceFile, DurableFile
  <2>4. CASE SetHeader
    <3>1. its_pc = "opened" /\ DeviceFile = Erased /\ DurableFile = Erased
      BY <2>4 DEF SetHeader, FileGrows, SdkInv, Committed, DurableFile
    <3>2. [nvs[DeviceKey] EXCEPT !.header = SizeOf[generated]] = HeaderOnly(generated)
      BY <3>1 DEF DeviceFile, Erased, HeaderOnly
    <3>3. \/ its_pc' = "header_set" /\ PutBlobs(DeviceKey, HeaderOnly(generated))
          \/ its_pc' = "idle" /\ UNCHANGED <<nvs, durable>>
      BY <2>2, <2>4, <3>1, <3>2 DEF SetHeader, ItsGoto, ItsReturn
    <3>4. QED
      BY <1>1, <1>5, <2>3, <3>1, <3>3 DEF FileGrows, DeviceFile, DurableFile
  <2>5. CASE CommitHeader
    <3>1. its_pc = "header_set" /\ its_pc' = "header_committed" /\ nvs' = nvs
      BY <2>5 DEF CommitHeader, CommitBlobs, ItsGoto
    <3>2. DurableFile' = DeviceFile
      BY <2>2, <2>5, <3>1, DeviceCommits DEF CommitHeader
    <3>3. QED
      BY <1>1, <1>5, <3>1, <3>2 DEF FileGrows, DeviceFile
  <2>6. CASE SetData
    <3>1. /\ its_pc = "header_committed" /\ DeviceFile = HeaderOnly(generated)
          /\ DurableFile = HeaderOnly(generated)
      BY <2>6 DEF SetData, FileGrows, SdkInv, Committed, DurableFile
    <3>2. [nvs[DeviceKey] EXCEPT !.data = generated] = WholeFile(generated)
      BY <3>1 DEF DeviceFile, HeaderOnly, WholeFile
    <3>3. \/ its_pc' = "data_set" /\ PutBlobs(DeviceKey, WholeFile(generated))
          \/ its_pc' = "idle" /\ UNCHANGED <<nvs, durable>>
      BY <2>2, <2>6, <3>1, <3>2 DEF SetData, ItsGoto, ItsReturn
    <3>4. QED
      BY <1>1, <1>5, <2>3, <3>1, <3>3 DEF FileGrows, DeviceFile, DurableFile
  <2>7. CASE CommitData
    <3>1. its_pc = "data_set" /\ its_pc' = "idle" /\ nvs' = nvs
      BY <2>7 DEF CommitData, CommitBlobs, ItsReturn
    <3>2. DurableFile' = DeviceFile
      BY <2>2, <2>7, <3>1, DeviceCommits DEF CommitData
    <3>3. DeviceFile = WholeFile(generated)
      BY <1>2, <1>3, <3>1 DEF SdkInv, SavedInv, SetProgress, DeviceFile
    <3>4. QED
      BY <1>1, <1>5, <3>1, <3>2, <3>3 DEF FileGrows, DeviceFile
  <2>8. QED
    BY <1>3, <2>1, <2>4, <2>5, <2>6, <2>7 DEF ItsStep, EraseAll
<1>7. CASE StoreVerify
  <2>1. its_pc = "idle" /\ its_pc' \in {"idle", "erasing"}
        /\ UNCHANGED <<nvs, durable>>
    BY <1>7 DEF StoreVerify, RemoveOpen, ItsReturn, itsVars
  <2>2. QED
    BY <1>3, <2>1 DEF FileGrows, DeviceFile, DurableFile
<1>8. QED
  BY <1>2, <1>6, <1>7 DEF Storage, StoreCleanup

(* A power failure leaves the file as reads saw it or as it was permanent. *)
LEMMA PowerFailureGrows ==
    ASSUME SdkInv, FileGrows, PowerFailure
    PROVE  /\ FileGrows'
           /\ DurableFile \in WholeFiles => DurableFile' = DurableFile
           /\ DeviceFile \in WholeFiles /\ DurableFile = DeviceFile
                 => DeviceFile' = DeviceFile
<1>1. /\ its_pc' = "idle" /\ DeviceFile' = DurableFile'
      /\ DeviceFile' \in Surviving(DeviceKey)
  BY SdkAssumption DEF PowerFailure, Crash, ItsCrash, DeviceFile, DurableFile
<1>2. Surviving(DeviceKey) = [header : {DeviceFile.header, DurableFile.header},
                              data : {DeviceFile.data, DurableFile.data}]
  BY DEF SdkInv, StoresDeviceKey, Surviving, DeviceFile, DurableFile
<1>3. ASSUME NEW e, e = DeviceFile, e = DurableFile, e \in FileForms
      PROVE  DeviceFile' = e
  <2>1. e = [header |-> e.header, data |-> e.data]
    BY <1>3 DEF FileForms, WholeFiles, Erased, HeaderOnly, WholeFile
  <2>2. QED
    BY <1>1, <1>2, <1>3, <2>1
<1>4. CASE DeviceFile = DurableFile
  BY <1>1, <1>3, <1>4 DEF FileGrows
<1>5. CASE DeviceFile # DurableFile
  <2>1. its_pc \in {"header_set", "data_set"}
    BY <1>5
    DEF SdkInv, Committed, DurableFile, StoresDeviceKey, SavedInv, TypeInv, KsTypeOK,
        ItsTypeOK
  <2>2. ks_pc = "store_set"
    BY <2>1 DEF SdkInv, StoresDeviceKey, SavedInv, NoOperationNoCall
  <2>3. generated \in Values /\ ks_call.key = DeviceKey /\ ks_call.file = generated
    BY <2>2 DEF SdkInv, StoresDeviceKey, SavedInv, TypeInv, CallMatchesPc
  <2>4. /\ HeaderOnly(generated) \in FileForms /\ WholeFile(generated) \in FileForms
        /\ Erased \in FileForms
        /\ Erased \notin WholeFiles /\ HeaderOnly(generated) \notin WholeFiles
    BY <2>3, FilesDiffer DEF FileForms, WholeFiles
  <2>5. CASE its_pc = "header_set"
    <3>1. DeviceFile = HeaderOnly(generated) /\ DurableFile = Erased
      BY <1>5, <2>5 DEF FileGrows
    <3>2. DeviceFile' \in {Erased, HeaderOnly(generated)}
      BY <1>1, <1>2, <3>1 DEF Erased, HeaderOnly
    <3>3. QED
      BY <1>1, <1>5, <2>4, <3>1, <3>2 DEF FileGrows
  <2>6. CASE its_pc = "data_set"
    <3>1. DeviceFile = WholeFile(generated)
      BY <2>2, <2>3, <2>6 DEF SdkInv, SavedInv, SetProgress, DeviceFile
    <3>2. DurableFile = HeaderOnly(generated)
      BY <1>5, <2>6, <3>1 DEF FileGrows
    <3>3. DeviceFile' \in {HeaderOnly(generated), WholeFile(generated)}
      BY <1>1, <1>2, <3>1, <3>2 DEF WholeFile, HeaderOnly
    <3>4. QED
      BY <1>1, <1>5, <2>4, <3>2, <3>3 DEF FileGrows
  <2>7. QED
    BY <2>1, <2>5, <2>6
<1>6. QED
  BY <1>4, <1>5

(* The store of a new key begins only when there is no file.               *)
LEMMA GenerateKeyGrows ==
    ASSUME ReadsAndCommitsWork, SdkInv, FileGrows, NEW f \in Values, GenerateKey(f)
    PROVE  FileGrows' /\ UNCHANGED <<nvs, durable>>
<1>1. StoreBegin(DeviceKey, f) /\ its_pc = "idle" /\ ks_pc = "idle"
  BY NoStoreUnderWay DEF GenerateKey
<1>2. PICK present \in PresentInStorage(DeviceKey) :
         IF present
         THEN UNCHANGED itsVars
         ELSE SetOpen(DeviceKey, f)
  BY <1>1 DEF StoreBegin
<1>3. CASE present
  BY <1>1, <1>2, <1>3 DEF itsVars, FileGrows, DeviceFile, DurableFile
<1>4. CASE ~ present
  <2>1. Faults \cap {"open", "read"} = {}
    BY DEF ReadsAndCommitsWork
  <2>2. DeviceFile.header = 0
    <3>1. PICK info \in GetInfo(DeviceKey) : info.status = "DOES_NOT_EXIST"
      BY <1>2, <1>4 DEF PresentInStorage
    <3>2. QED
      BY <2>1, <3>1 DEF GetInfo, DeviceFile
  <2>3. DeviceFile = Erased
    BY <2>2, ItsAssumption DEF FileGrows, FileForms, WholeFiles, HeaderOnly, WholeFile
  <2>4. its_pc' \in {"opened", "idle"} /\ UNCHANGED <<nvs, durable>>
    BY <1>2, <1>4 DEF SetOpen, ItsReturn
  <2>5. QED
    BY <2>3, <2>4 DEF FileGrows, DeviceFile, DurableFile
<1>5. QED
  BY <1>3, <1>4

(* Whatever happens, the file keeps growing, and a whole one stays.        *)
FileStays ==
    /\ DurableFile \in WholeFiles => DurableFile' = DurableFile
    /\ DeviceFile \in WholeFiles /\ DurableFile = DeviceFile
          => DeviceFile' = DeviceFile

LEMMA QuietFile ==
    ASSUME FileGrows, UNCHANGED vars, generated' = generated \/ its_pc = "idle"
    PROVE  FileGrows' /\ FileStays
<1>1. /\ its_pc' = its_pc /\ DeviceFile' = DeviceFile
      /\ DurableFile' = DurableFile
  BY DEF vars, itsVars, DeviceFile, DurableFile
<1>2. QED
  BY <1>1 DEF FileGrows, FileStays

(* The identity is what the durable file holds, if that is whole.          *)
LEMMA FileOfIdentity ==
    ASSUME NEW e \in FileForms
    PROVE  LET key == IF EntryOf(e) \in Values THEN EntryOf(e) ELSE None IN
           /\ \A f \in Values : e = WholeFile(f) => key = f
           /\ e \notin WholeFiles => key = None
<1>1. \A f \in Values : EntryOf(WholeFile(f)) = f
  BY EntryCases
<1>2. EntryOf(Erased) \notin Values
      /\ \A f \in Values : EntryOf(HeaderOnly(f)) \notin Values
  BY EntryCases, AbsentIsErased, KeyFilesAreNotMarks
<1>3. QED
  BY <1>1, <1>2 DEF FileForms, WholeFiles

LEMMA WholeIsIdentity ==
    ASSUME FileGrows, NEW key \in Values, FileIs(key)
    PROVE  Identity = key /\ DurableFile \in WholeFiles
BY FileOfIdentity DEF FileGrows, FileIs, Identity, DurableFile, WholeFiles

(* Steps that show nothing and send nothing: the device may get its        *)
(* identity, and keeps the one it has.                                     *)
DeviceStutters == UNCHANGED <<Identity, shown, sent.sign, sent.pubkey>>

LEMMA SilentStep ==
    ASSUME IdentityInv, FileGrows', FileStays, UNCHANGED <<shown, sent>>,
           \/ upload'.message = upload.message
           \/ upload'.message.sign = None /\ upload'.message.pubkey = None
    PROVE  IdentityInv' /\ (Device!DeviceNext \/ DeviceStutters)
<1>1. DurableFile \in FileForms /\ DurableFile' \in FileForms
  BY DEF IdentityInv, FileGrows
<1>2. /\ \A f \in Values : DurableFile = WholeFile(f) => Identity = f
      /\ DurableFile \notin WholeFiles => Identity = None
      /\ \A f \in Values : DurableFile' = WholeFile(f) => Identity' = f
      /\ DurableFile' \notin WholeFiles => Identity' = None
  BY <1>1, FileOfIdentity DEF Identity, DurableFile
<1>3. SignedByDevice'
  <2>1. SUFFICES ASSUME NEW key \in Values, FileIs(key) PROVE FileIs(key)'
    BY DEF SignedByDevice, IdentityInv
  <2>2. QED
    BY <2>1 DEF FileStays, FileIs, WholeFiles, DurableFile
<1>4. IdentityInv'
  BY <1>3 DEF IdentityInv, ClaimsWhatWasShown
<1>5. CASE DurableFile \in WholeFiles
  <2>1. Identity' = Identity
    BY <1>5 DEF FileStays, Identity, DurableFile
  <2>2. QED
    BY <1>4, <2>1 DEF DeviceStutters
<1>6. CASE DurableFile \notin WholeFiles /\ DurableFile' \notin WholeFiles
  BY <1>2, <1>4, <1>6 DEF DeviceStutters
<1>7. CASE DurableFile \notin WholeFiles /\ DurableFile' \in WholeFiles
  <2>1. PICK f \in Values : DurableFile' = WholeFile(f)
    BY <1>7 DEF WholeFiles
  <2>2. Identity = None /\ Identity' = f
    BY <1>2, <1>7, <2>1
  <2>3. Device!Adopt(f)
    BY <2>2 DEF Device!Adopt, Device!Nobody, None
  <2>4. QED
    BY <1>4, <2>3 DEF Device!DeviceNext
<1>8. QED
  BY <1>5, <1>6, <1>7

LEMMA ExportAnnounces ==
    ASSUME SdkInv', IdentityInv, FileGrows', FileStays, UNCHANGED <<durable, sent, upload>>,
           NEW key, NEW next, Export(key, next)
    PROVE  IdentityInv' /\ (Device!DeviceNext \/ DeviceStutters)
<1>1. Identity' = Identity
  BY DEF Identity
<1>2. CASE key = None
  BY <1>2, SilentStep DEF Export
<1>3. CASE key # None
  <2>1. key \in Values /\ FileIs(key)' /\ shown' = shown \cup {key}
    BY <1>3 DEF Export, SdkInv, AdoptedIsSaved, Adopted
  <2>2. DurableFile' = WholeFile(key)
    BY <2>1 DEF FileIs, DurableFile
  <2>3. Identity' = key
    BY <2>1, <2>2, FileOfIdentity DEF FileGrows, Identity, DurableFile
  <2>4. Device!Announce
    BY <1>1, <2>1, <2>3, ItsAssumption DEF Device!Announce, Device!Nobody, None
  <2>5. SignedByDevice' /\ ClaimsWhatWasShown'
    <3>1. \A k \in Values : FileIs(k) => FileIs(k)'
      BY DEF FileStays, FileIs, WholeFiles, DurableFile
    <3>2. QED
      BY <2>1, <3>1 DEF IdentityInv, SignedByDevice, ClaimsWhatWasShown
  <2>6. QED
    BY <2>4, <2>5 DEF IdentityInv, Device!DeviceNext
<1>4. QED
  BY <1>2, <1>3

LEMMA ReportSigns ==
    ASSUME ReadsAndCommitsWork, SdkInv, IdentityInv, ReportSign
    PROVE  IdentityInv' /\ (Device!DeviceNext \/ DeviceStutters)
<1>1. /\ upload.pc = "sign" /\ UNCHANGED vars
      /\ UNCHANGED <<boot, generated, exported, sent, shown>>
  BY DEF ReportSign
<1>2. FileGrows' /\ FileStays
  BY <1>1, QuietFile DEF IdentityInv
<1>3. boot # "storing" /\ its_pc = "idle"
  BY <1>1, NoStoreUnderWay DEF SdkInv, ReportsWhenRunning
<1>4. PICK sign : /\ Signed(sign)
                  /\ sign # None => sign \in DeviceKeyFound
  BY DEF ReportSign, MayFail
<1>5. sign # None => sign \in Values /\ FileIs(sign)
  BY <1>3, <1>4, FoundIsSaved
<1>6. upload'.message.sign = sign /\ upload'.message.pubkey = exported
  BY <1>4 DEF Signed, SdkInv, ReportsWhenRunning, Messages
<1>7. SignedByDevice' /\ ClaimsWhatWasShown'
  <2>1. \A key \in Values : FileIs(key) => FileIs(key)'
    BY <1>1 DEF vars, itsVars, FileIs, DeviceFile
  <2>2. QED
    BY <1>1, <1>5, <1>6, <2>1
    DEF SignedByDevice, ClaimsWhatWasShown, SdkInv, ExportedWasShown
<1>8. Identity' = Identity
  BY <1>1 DEF vars, itsVars, Identity
<1>9. QED
  BY <1>1, <1>2, <1>7, <1>8 DEF IdentityInv, DeviceStutters

LEMMA ReportReports ==
    ASSUME SdkInv, IdentityInv, ReportSend
    PROVE  IdentityInv' /\ (Device!DeviceNext \/ DeviceStutters)
<1>1. /\ UNCHANGED vars /\ UNCHANGED <<generated, shown>>
      /\ sent' \in {sent, upload.message} /\ upload' = NoUpload
  BY DEF ReportSend
<1>2. FileGrows' /\ FileStays
  BY <1>1, QuietFile DEF IdentityInv
<1>3. /\ upload'.message.sign = None /\ upload'.message.pubkey = None
  BY <1>1 DEF NoUpload, NoMessage
<1>4. CASE sent' = sent
  BY <1>1, <1>2, <1>3, <1>4, SilentStep
<1>5. CASE sent' = upload.message
  <2>1. Identity' = Identity
    BY <1>1 DEF vars, itsVars, Identity
  <2>2. sent'.sign \in {None, Identity}
    BY <1>5, WholeIsIdentity DEF IdentityInv, SignedByDevice
  <2>3. sent'.pubkey \in {None} \cup shown
    BY <1>5 DEF IdentityInv, ClaimsWhatWasShown
  <2>4. Device!Report
    BY <1>1, <2>1, <2>2, <2>3 DEF Device!Report, Device!Nobody, None
  <2>5. IdentityInv'
    BY <1>1, <1>2, <1>3 DEF IdentityInv, SignedByDevice, ClaimsWhatWasShown
  <2>6. QED
    BY <2>4, <2>5 DEF Device!DeviceNext
<1>6. QED
  BY <1>1, <1>4, <1>5

LEMMA IdentityStep ==
    ASSUME ReadsAndCommitsWork, SdkInv, SdkInv', IdentityInv, SdkNext
    PROVE  IdentityInv' /\ (Device!DeviceNext \/ DeviceStutters)
<1>1. FileGrows
  BY DEF IdentityInv
<1>2. ASSUME UNCHANGED vars, generated' = generated \/ its_pc = "idle"
      PROVE  FileGrows' /\ FileStays
  BY <1>1, <1>2, QuietFile
<1>3. CASE PowerOn \/ GenerateFails \/ Evict
           \/ \E s \in AppStatuses : SetMqttStatus(s)
  <2>1. UNCHANGED vars /\ UNCHANGED <<generated, upload, sent, shown>>
    BY <1>3 DEF PowerOn, GenerateFails, Evict, SetMqttStatus
  <2>2. QED
    BY <1>2, <2>1, SilentStep
<1>4. CASE GenerateDone
  <2>1. UNCHANGED vars /\ UNCHANGED <<upload, sent, shown>> /\ its_pc = "idle"
    BY <1>4 DEF GenerateDone, SdkInv, SavedInv, NoOperationNoCall
  <2>2. QED
    BY <1>2, <2>1, SilentStep
<1>5. CASE ExportKey
  <2>1. UNCHANGED vars /\ UNCHANGED <<generated, upload, sent>>
    BY <1>5 DEF ExportKey
  <2>2. PICK key : Export(key, "generate")
    BY <1>5 DEF ExportKey
  <2>3. QED
    BY <1>2, <2>1, <2>2, ExportAnnounces DEF vars, itsVars
<1>6. CASE ExportAgain
  <2>1. UNCHANGED vars /\ UNCHANGED <<generated, upload, sent>>
    BY <1>6 DEF ExportAgain
  <2>2. PICK key : Export(key, "running")
    BY <1>6 DEF ExportAgain
  <2>3. QED
    BY <1>2, <2>1, <2>2, ExportAnnounces DEF vars, itsVars
<1>7. ASSUME NEW f \in Values, GenerateKey(f)
      PROVE  IdentityInv' /\ (Device!DeviceNext \/ DeviceStutters)
  <2>1. FileGrows' /\ FileStays
    BY <1>1, <1>7, GenerateKeyGrows DEF FileStays, DeviceFile, DurableFile
  <2>2. QED
    BY <1>7, <2>1, SilentStep DEF GenerateKey
<1>8. CASE Storage
  <2>1. FileGrows' /\ FileStays
    BY <1>1, <1>8, StorageGrows DEF FileStays
  <2>2. QED
    BY <1>8, <2>1, SilentStep DEF Storage, sdkVars
<1>9. CASE PowerFailure
  <2>1. FileGrows' /\ FileStays
    BY <1>1, <1>9, PowerFailureGrows DEF FileStays
  <2>2. QED
    BY <1>9, <2>1, SilentStep DEF PowerFailure, NoUpload, NoMessage
<1>10. ASSUME NEW kind \in Kinds, ReportBegin(kind)
       PROVE  IdentityInv' /\ (Device!DeviceNext \/ DeviceStutters)
  <2>1. UNCHANGED vars /\ UNCHANGED <<generated, sent, shown>>
    BY <1>10 DEF ReportBegin
  <2>2. \/ upload'.message = upload.message
        \/ upload'.message.sign = None /\ upload'.message.pubkey = None
    <3>1. [NoMessage EXCEPT !.kind = kind].sign = None
          /\ [NoMessage EXCEPT !.kind = kind].pubkey = None
      BY DEF NoMessage
    <3>2. upload' = upload \/ upload'.message = [NoMessage EXCEPT !.kind = kind]
      BY <1>10 DEF ReportBegin
    <3>3. QED
      BY <3>1, <3>2
  <2>3. QED
    BY <1>2, <2>1, <2>2, SilentStep
<1>11. QED
  BY <1>3, <1>4, <1>5, <1>6, <1>7, <1>8, <1>9, <1>10, ReportSigns, ReportReports
  DEF SdkNext, Boot, Report

(* ImplementsDeviceIdentity: through its starts, reports and power         *)
(* failures the device is a DeviceIdentity.  The flash gets an identity at *)
(* most once and keeps it, every export announces that one, and every      *)
(* report is signed by it and claims it, if it is signed and claims any    *)
(* (iotex_wsiotsdk_init, iotex_dev_access_data_upload_with_userdata).      *)
THEOREM DeviceHasOneIdentity ==
    ReadsAndCommitsWork => (SdkSpec => ImplementsDeviceIdentity)
<1> SUFFICES ASSUME ReadsAndCommitsWork PROVE SdkSpec => ImplementsDeviceIdentity
  OBVIOUS
<1>1. SdkInit => IdentityInv /\ Device!DeviceInit
  <2>1. SdkInit => Identity = None
    BY SdkAssumption, AbsentIsErased, KeyFilesAreNotMarks
    DEF SdkInit, Init, ItsInit, Identity
  <2>2. QED
    BY <2>1, IdentityInit
    DEF SdkInit, NoMessage, Device!DeviceInit, Device!Nobody, None
<1>2. SdkInv /\ SdkInv' /\ IdentityInv /\ [SdkNext]_allVars
        => IdentityInv' /\ [Device!DeviceNext]_(Device!deviceVars)
  <2>1. ASSUME SdkInv, SdkInv', IdentityInv, SdkNext
        PROVE  IdentityInv' /\ [Device!DeviceNext]_(Device!deviceVars)
    BY <2>1, IdentityStep DEF DeviceStutters, Device!deviceVars
  <2>2. ASSUME IdentityInv, UNCHANGED allVars
        PROVE  IdentityInv' /\ UNCHANGED Device!deviceVars
    <3>1. FileGrows' /\ FileStays
      BY <2>2, QuietFile DEF IdentityInv, allVars, sdkVars
    <3>2. /\ \A key \in Values : FileIs(key) => FileIs(key)'
          /\ Identity' = Identity
      BY <2>2 DEF allVars, vars, itsVars, FileIs, DeviceFile, Identity
    <3>3. QED
      BY <2>2, <3>1, <3>2
      DEF IdentityInv, SignedByDevice, ClaimsWhatWasShown, allVars, sdkVars,
          Device!deviceVars
  <2>3. QED
    BY <2>1, <2>2
<1>3. QED
  BY <1>1, <1>2, SdkInvariance, PTL DEF SdkSpec, ImplementsDeviceIdentity, Device!DeviceSpec

-----------------------------------------------------------------------------
(* Signing.  A public key is shown by a start that found the key in a slot *)
(* and still has its id; when the slot is taken away, the file is whole    *)
(* and gives the key back.                                                 *)

CanSignInv ==
    /\ boot \in {"off", "export", "generate", "storing"} => g_signkey = DeviceKey
    /\ boot # "running" => exported = None
    /\ boot = "off" => key_slot = None
    /\ boot = "storing" \/ key_slot # None => ready
    /\ exported # None => ready /\ g_signkey = DeviceKey
    /\ g_signkey \in {DeviceKey, None}
    /\ upload.pc # "idle" => boot # "off"

LEMMA CanSignInit == SdkInit => CanSignInv
BY DEF SdkInit, CanSignInv, NoUpload

LEMMA CanSignBoot ==
    ASSUME CanSignInv, Boot
    PROVE  CanSignInv'
<1> USE DEF CanSignInv
<1>1. CASE PowerOn
  BY <1>1 DEF PowerOn
<1>2. CASE ExportKey
  <2>1. PICK key \in MayFail("export", key_slot') : Export(key, "generate")
    BY <1>2 DEF ExportKey
  <2>2. key \in {None, key_slot'} /\ (key_slot' # None => ready)
    BY <1>2, <2>1 DEF ExportKey, MayFail, DeviceKeyFound
  <2>3. QED
    BY <1>2, <2>1, <2>2 DEF ExportKey, Export
<1>3. CASE GenerateFails
  BY <1>3 DEF GenerateFails
<1>4. CASE GenerateDone
  BY <1>4 DEF GenerateDone
<1>5. CASE ExportAgain
  <2>1. PICK key : Export(key, "running") /\ key \in {None, key_slot}
                   /\ (g_signkey = None => key = None)
    BY <1>5 DEF ExportAgain, MayFail
  <2>2. QED
    BY <1>5, <2>1 DEF ExportAgain, Export
<1>6. ASSUME NEW f \in Values, GenerateKey(f) PROVE CanSignInv'
  BY <1>6 DEF GenerateKey
<1>7. CASE Storage
  BY <1>7 DEF Storage, sdkVars
<1>8. QED
  BY <1>1, <1>2, <1>3, <1>4, <1>5, <1>6, <1>7 DEF Boot

LEMMA CanSignStep == CanSignInv /\ [SdkNext]_allVars => CanSignInv'
<1> SUFFICES ASSUME CanSignInv, [SdkNext]_allVars PROVE CanSignInv'
  OBVIOUS
<1> USE DEF CanSignInv
<1>1. CASE UNCHANGED allVars
  BY <1>1 DEF allVars, sdkVars
<1>2. ASSUME NEW kind \in Kinds, ReportBegin(kind) PROVE CanSignInv'
  BY <1>2 DEF ReportBegin
<1>3. CASE ReportSign
  BY <1>3 DEF ReportSign, DeviceKeyFound
<1>4. CASE ReportSend
  BY <1>4 DEF ReportSend
<1>5. CASE Evict
  BY <1>5 DEF Evict
<1>6. CASE PowerFailure
  BY <1>6 DEF PowerFailure, NoUpload
<1>7. ASSUME NEW s \in AppStatuses, SetMqttStatus(s) PROVE CanSignInv'
  BY <1>7 DEF SetMqttStatus
<1>8. QED
  BY <1>1, <1>2, <1>3, <1>4, <1>5, <1>6, <1>7, CanSignBoot DEF SdkNext, Report

(* ShownKeyCanSign: in a start that shows a public key, the key of every   *)
(* report is found, in its slot or in its file                             *)
(* (iotex_export_public_key, psa_get_and_lock_key_slot).                   *)
THEOREM ShownKeysCanSign ==
    ReadsAndCommitsWork => (SdkSpec => []ShownKeyCanSign)
<1> SUFFICES ASSUME ReadsAndCommitsWork PROVE SdkSpec => []ShownKeyCanSign
  OBVIOUS
<1>1. SdkInv /\ CanSignInv => ShownKeyCanSign
  <2>1. SUFFICES ASSUME SdkInv, CanSignInv, exported # None
                 PROVE  /\ ready /\ g_signkey = DeviceKey
                        /\ key_slot \in {None, exported}
                        /\ EntryOf(DeviceFile) = exported
    BY DEF ShownKeyCanSign, DeviceFile
  <2>2. exported \in Values /\ FileIs(exported)
    BY <2>1, NoStoreUnderWay DEF CanSignInv, SdkInv, ExportedWasShown
  <2>3. key_slot # None => key_slot \in Values /\ FileIs(key_slot)
    BY <2>1 DEF SdkInv, AdoptedIsSaved, Adopted
  <2>4. QED
    BY <2>1, <2>2, <2>3, AdoptedIsWhole DEF CanSignInv
<1>2. QED
  BY <1>1, SdkInvariance, CanSignInit, CanSignStep, PTL DEF SdkSpec

(* What goes out unsigned beside a public key is then the work of a        *)
(* loading or a signing that failed just then.                             *)
KeysLoadAndSign == Failures \cap {"load", "sign"} = {}

SignedMessage(message) == message.pubkey # None => message.sign # None
SignedIfShown == SignedMessage(sent)

SignedInv == SignedMessage(upload.message) /\ SignedMessage(sent)

LEMMA ShownKeyIsFound ==
    ASSUME ReadsAndCommitsWork, KeysLoadAndSign, SdkInv, CanSignInv,
           boot = "running", exported # None
    PROVE  None \notin DeviceKeyFound
<1>1. exported \in Values /\ FileIs(exported)
  BY NoStoreUnderWay DEF SdkInv, ExportedWasShown
<1>2. nvs[DeviceKey] = WholeFile(exported) /\ DeviceKey \in Keys
  BY <1>1, SdkAssumption DEF FileIs, DeviceFile, Keys
<1>3. psa_load_persistent_key(DeviceKey) = {[status |-> "SUCCESS", file |-> exported]}
  BY <1>1, <1>2, WholeFileLoads
<1>4. MayFail("load", exported) = {exported}
  BY DEF MayFail, KeysLoadAndSign
<1>5. CASE key_slot = None
  <2>1. \A found \in DeviceKeyFound : found \in MayFail("load", exported)
    BY <1>3, <1>5 DEF DeviceKeyFound, CanSignInv
  <2>2. QED
    BY <1>4, <2>1
<1>6. CASE key_slot # None
  BY <1>6 DEF DeviceKeyFound, CanSignInv
<1>7. QED
  BY <1>5, <1>6

LEMMA ReportIsSigned ==
    ASSUME ReadsAndCommitsWork, KeysLoadAndSign, SdkInv, CanSignInv, SignedInv,
           ReportSign
    PROVE  SignedInv'
<1>1. /\ UNCHANGED <<boot, ready, g_signkey, exported, sent>>
      /\ upload.pc = "sign" /\ boot = "running"
  BY DEF ReportSign, SdkInv, ReportsWhenRunning
<1>2. PICK sign :
        /\ Signed(sign)
        /\ \/ g_signkey = None /\ sign = None
           \/ g_signkey # None /\ key_slot' \in DeviceKeyFound
              /\ sign \in MayFail("sign", key_slot')
  BY DEF ReportSign
<1>3. upload'.message.sign = sign /\ upload'.message.pubkey = exported
  <2>1. upload.message \in Messages
    BY DEF SdkInv, ReportsWhenRunning
  <2>2. QED
    BY <1>2, <2>1 DEF Signed, Messages
<1>4. exported # None => sign # None
  <2>1. SUFFICES ASSUME exported # None PROVE sign # None
    OBVIOUS
  <2>2. None \notin DeviceKeyFound /\ g_signkey # None
    BY <1>1, <2>1, ShownKeyIsFound, SdkAssumption DEF CanSignInv
  <2>3. sign = key_slot' /\ key_slot' # None
    BY <1>2, <2>2 DEF MayFail, KeysLoadAndSign
  <2>4. QED
    BY <2>3
<1>5. QED
  BY <1>1, <1>3, <1>4 DEF SignedInv, SignedMessage

LEMMA SignedStep ==
    ASSUME ReadsAndCommitsWork, KeysLoadAndSign, SdkInv, CanSignInv, SignedInv,
           [SdkNext]_allVars
    PROVE  SignedInv'
<1> USE DEF SignedInv
<1>1. CASE UNCHANGED <<upload, sent>>
  BY <1>1
<1>2. ASSUME NEW kind \in Kinds, ReportBegin(kind) PROVE SignedInv'
  <2>1. upload' = upload \/ upload'.message = [NoMessage EXCEPT !.kind = kind]
    BY <1>2 DEF ReportBegin
  <2>2. [NoMessage EXCEPT !.kind = kind].pubkey = None
    BY DEF NoMessage
  <2>3. QED
    BY <1>2, <2>1, <2>2 DEF ReportBegin, SignedMessage
<1>3. CASE ReportSend
  BY <1>3 DEF ReportSend, SignedMessage, NoUpload, NoMessage
<1>4. CASE PowerFailure
  BY <1>4 DEF PowerFailure, SignedMessage, NoUpload, NoMessage
<1>5. CASE \/ Boot \/ Evict \/ UNCHANGED allVars
           \/ \E s \in AppStatuses : SetMqttStatus(s)
  <2>1. UNCHANGED <<upload, sent>>
    BY <1>5
    DEF Boot, PowerOn, ExportKey, GenerateKey, GenerateFails, GenerateDone,
        ExportAgain, Storage, Evict, SetMqttStatus, allVars, sdkVars
  <2>2. QED
    BY <1>1, <2>1
<1>6. QED
  BY <1>2, <1>3, <1>4, <1>5, ReportIsSigned DEF SdkNext, Report

(* iotex_dev_access_data_upload_with_userdata, which does not look at the  *)
(* status of psa_sign_message: when the key file can be loaded and signing *)
(* does not fail, a report that shows a public key is signed, whatever     *)
(* else fails and wherever the power went.                                 *)
THEOREM ShownReportsAreSigned ==
    ReadsAndCommitsWork /\ KeysLoadAndSign => (SdkSpec => []SignedIfShown)
<1> SUFFICES ASSUME ReadsAndCommitsWork, KeysLoadAndSign
             PROVE  SdkSpec => []SignedIfShown
  OBVIOUS
<1>1. SdkInv /\ CanSignInv /\ SignedInv /\ [SdkNext]_allVars => SignedInv'
  BY SignedStep
<1>2. SdkInit => SignedInv
  BY DEF SdkInit, SignedInv, SignedMessage, NoUpload, NoMessage
<1>3. SignedInv => SignedIfShown
  BY DEF SignedInv, SignedIfShown
<1>4. QED
  BY <1>1, <1>2, <1>3, SdkInvariance, CanSignInit, CanSignStep, PTL DEF SdkSpec

-----------------------------------------------------------------------------
(* The start.  Whatever fails, storage is used by a start that stores its  *)
(* key and by nothing else, and is then at one of the points of a store.   *)
StartInv ==
    /\ boot \in {"off", "export", "generate", "storing", "export_again", "running"}
    /\ boot # "storing" => ks_pc = "idle"
    /\ \/ ks_pc = "idle" /\ its_pc = "idle"
       \/ /\ ks_pc = "store_set"
          /\ its_pc \in {"idle", "opened", "header_set", "header_committed", "data_set"}
       \/ ks_pc = "store_cleanup" /\ its_pc \in {"idle", "erasing"}

LEMMA StepCounts ==
    /\ ItsStepsLeft["idle"] = 0 /\ ItsStepsLeft["data_set"] = 1
    /\ ItsStepsLeft["header_committed"] = 2 /\ ItsStepsLeft["header_set"] = 3
    /\ ItsStepsLeft["opened"] = 4 /\ ItsStepsLeft["erasing"] = 1
    /\ KsStepsLeft["idle"] = 0 /\ KsStepsLeft["store_cleanup"] = 1
    /\ KsStepsLeft["store_set"] = 3
    /\ BootStepsLeft["running"] = 0 /\ BootStepsLeft["export_again"] = 1
    /\ BootStepsLeft["storing"] = 2 /\ BootStepsLeft["generate"] = 10
    /\ BootStepsLeft["export"] = 11 /\ BootStepsLeft["off"] = 12
BY DEF ItsStepsLeft, KsStepsLeft, BootStepsLeft

LEMMA StorageMovesOn ==
    ASSUME StartInv, Storage
    PROVE  StartInv' /\ StepsLeft' < StepsLeft
<1>1. boot' = boot
  BY DEF Storage, sdkVars
<1>2. ks_pc # "idle"
  BY DEF StartInv, Storage, ItsProgress, ItsStep, SetHeader, CommitHeader, SetData,
         CommitData, EraseAll, StoreVerify, StoreCleanup
<1>3. boot = "storing"
  BY <1>2 DEF StartInv
<1>4. CASE ItsProgress
  <2>1. ks_pc' = ks_pc
    BY <1>4 DEF ItsProgress, ksVars
  <2>2. CASE SetHeader
    <3>1. its_pc = "opened" /\ its_pc' \in {"header_set", "idle"}
      BY <2>2 DEF SetHeader, ItsGoto, ItsReturn
    <3>2. QED
      BY <1>1, <1>3, <2>1, <3>1, StepCounts DEF StartInv, StepsLeft
  <2>3. CASE CommitHeader
    <3>1. its_pc = "header_set" /\ its_pc' = "header_committed"
      BY <2>3 DEF CommitHeader, ItsGoto
    <3>2. QED
      BY <1>1, <1>3, <2>1, <3>1, StepCounts DEF StartInv, StepsLeft
  <2>4. CASE SetData
    <3>1. its_pc = "header_committed" /\ its_pc' \in {"data_set", "idle"}
      BY <2>4 DEF SetData, ItsGoto, ItsReturn
    <3>2. QED
      BY <1>1, <1>3, <2>1, <3>1, StepCounts DEF StartInv, StepsLeft
  <2>5. CASE CommitData
    <3>1. its_pc = "data_set" /\ its_pc' = "idle"
      BY <2>5 DEF CommitData, ItsReturn
    <3>2. QED
      BY <1>1, <1>3, <2>1, <3>1, StepCounts DEF StartInv, StepsLeft
  <2>6. CASE EraseAll
    <3>1. its_pc = "erasing" /\ its_pc' = "idle"
      BY <2>6 DEF EraseAll, ItsReturn
    <3>2. QED
      BY <1>1, <1>3, <2>1, <3>1, StepCounts DEF StartInv, StepsLeft
  <2>7. QED
    BY <1>4, <2>2, <2>3, <2>4, <2>5, <2>6 DEF ItsProgress, ItsStep
<1>5. CASE StoreVerify
  <2>1. ks_pc = "store_set" /\ its_pc = "idle"
    BY <1>5 DEF StoreVerify
  <2>2. \/ ks_pc' = "idle" /\ its_pc' = "idle"
        \/ ks_pc' = "store_cleanup" /\ its_pc' \in {"idle", "erasing"}
    BY <1>5, <2>1 DEF StoreVerify, KsReturn, KsGoto, RemoveOpen, ItsReturn, itsVars
  <2>3. QED
    BY <1>1, <1>3, <2>1, <2>2, StepCounts DEF StartInv, StepsLeft
<1>6. CASE StoreCleanup
  <2>1. /\ ks_pc = "store_cleanup" /\ its_pc = "idle"
        /\ ks_pc' = "idle" /\ its_pc' = "idle"
    BY <1>6 DEF StoreCleanup, KsReturn, itsVars
  <2>2. QED
    BY <1>1, <1>3, <2>1, StepCounts DEF StartInv, StepsLeft
<1>7. QED
  BY <1>4, <1>5, <1>6 DEF Storage

LEMMA BootMovesOn ==
    ASSUME StartInv, Boot
    PROVE  StartInv' /\ StepsLeft' < StepsLeft
<1>1. ASSUME boot # "storing", UNCHANGED vars, boot' # "storing",
             boot' \in {"off", "export", "generate", "export_again", "running"},
             BootStepsLeft[boot'] < BootStepsLeft[boot]
      PROVE  StartInv' /\ StepsLeft' < StepsLeft
  <2>1. ks_pc = "idle" /\ its_pc = "idle" /\ ks_pc' = "idle" /\ its_pc' = "idle"
    BY <1>1 DEF StartInv, vars, itsVars, ksVars
  <2>2. QED
    BY <1>1, <2>1, StepCounts DEF StartInv, StepsLeft
<1>2. CASE PowerOn
  BY <1>1, <1>2, StepCounts DEF PowerOn
<1>3. CASE ExportKey
  <2>1. boot = "export" /\ boot' \in {"generate", "running"} /\ UNCHANGED vars
    BY <1>3 DEF ExportKey, Export
  <2>2. QED
    BY <1>1, <2>1, StepCounts
<1>4. CASE GenerateFails
  BY <1>1, <1>4, StepCounts DEF GenerateFails
<1>5. CASE GenerateDone
  <2>1. /\ boot = "storing" /\ ks_pc = "idle" /\ its_pc = "idle"
        /\ boot' = "export_again" /\ ks_pc' = "idle" /\ its_pc' = "idle"
    BY <1>5 DEF GenerateDone, StartInv, vars, itsVars, ksVars
  <2>2. QED
    BY <2>1, StepCounts DEF StartInv, StepsLeft
<1>6. CASE ExportAgain
  <2>1. boot = "export_again" /\ boot' = "running" /\ UNCHANGED vars
    BY <1>6 DEF ExportAgain, Export
  <2>2. QED
    BY <1>1, <2>1, StepCounts
<1>7. ASSUME NEW f \in Values, GenerateKey(f)
      PROVE  StartInv' /\ StepsLeft' < StepsLeft
  <2>1. /\ boot = "generate" /\ boot' = "storing" /\ ks_pc = "idle"
        /\ its_pc = "idle"
    BY <1>7 DEF GenerateKey, StartInv
  <2>2. \/ ks_pc' = "idle" /\ its_pc' = "idle"
        \/ ks_pc' = "store_set" /\ its_pc' \in {"idle", "opened"}
    BY <1>7, <2>1
    DEF GenerateKey, StoreBegin, KsReturn, KsGoto, SetOpen, ItsReturn, itsVars
  <2>3. QED
    BY <2>1, <2>2, StepCounts DEF StartInv, StepsLeft
<1>8. QED
  BY <1>2, <1>3, <1>4, <1>5, <1>6, <1>7, StorageMovesOn DEF Boot

LEMMA StartStep ==
    ASSUME StartInv, [SdkNext]_allVars
    PROVE  /\ StartInv'
           /\ [/\ Boot => StepsLeft' < StepsLeft
               /\ StepsLeft' > StepsLeft => boot' = "off"]_allVars
<1>1. /\ StepsLeft \in Nat
      /\ StartInv' => StepsLeft' \in Nat
  BY StepCounts DEF StartInv, StepsLeft
<1>2. CASE Boot
  BY <1>1, <1>2, BootMovesOn
<1>3. CASE PowerFailure
  <2>1. boot' = "off" /\ ks_pc' = "idle" /\ its_pc' = "idle" /\ boot # "off"
    BY <1>3 DEF PowerFailure, Crash, ItsCrash
  <2>2. ~ Boot
    BY <2>1, StepCounts, BootMovesOn, <1>1 DEF StartInv, StepsLeft
  <2>3. QED
    BY <2>1, <2>2 DEF StartInv
<1>4. ASSUME UNCHANGED <<boot, vars>>
      PROVE  StartInv' /\ StepsLeft' = StepsLeft
  BY <1>4 DEF StartInv, StepsLeft, vars, itsVars, ksVars
<1>5. CASE UNCHANGED allVars
  BY <1>4, <1>5 DEF allVars, sdkVars
<1>6. CASE \/ Report \/ Evict \/ \E s \in AppStatuses : SetMqttStatus(s)
  <2>1. UNCHANGED <<boot, vars>>
    BY <1>6 DEF Report, ReportBegin, ReportSign, ReportSend, Evict, SetMqttStatus
  <2>2. StartInv' /\ StepsLeft' = StepsLeft
    BY <1>4, <2>1
  <2>3. ~ Boot
    BY <1>1, <2>2, BootMovesOn
  <2>4. QED
    BY <1>1, <2>2, <2>3
<1>7. QED
  BY <1>2, <1>3, <1>5, <1>6 DEF SdkNext

(* StartMovesOn: whatever fails, each call of the start brings it nearer   *)
(* to its end, of which it is never more than twelve calls away, and only  *)
(* a power failure sets it back (iotex_wsiotsdk_init).                     *)
THEOREM StartsMoveOn == SdkSpec => StartMovesOn /\ [](StepsLeft \in 0 .. 12)
<1>1. SdkInit => StartInv
  BY DEF SdkInit, Init, ItsInit, StartInv
<1>2. StartInv /\ [SdkNext]_allVars => StartInv'
  BY StartStep
<1>3. StartInv /\ [SdkNext]_allVars
        => [/\ Boot => StepsLeft' < StepsLeft
            /\ StepsLeft' > StepsLeft => boot' = "off"]_allVars
  BY StartStep
<1>4. StartInv => StepsLeft \in 0 .. 12
  BY StepCounts DEF StartInv, StepsLeft
<1>5. QED
  BY <1>1, <1>2, <1>3, <1>4, PTL DEF SdkSpec, StartMovesOn

-----------------------------------------------------------------------------
(* Numbers of digits.                                                      *)

Digits == 0 .. Base - 1

LEMMA WeightIs ==
    /\ Weight[0] = 1
    /\ \A i \in 0 .. Width : Weight[i] \in Nat \ {0}
    /\ \A i \in 0 .. Width - 1 : Weight[i + 1] = Base * Weight[i]
<1>1. Base \in Nat \ {0, 1} /\ Width \in Nat \ {0}
  BY LowSAssumption
<1> DEFINE D == Nat \ {0}
           G == [i \in Nat |-> [x \in D |-> Base * x]]
<1>2. G \in [Nat -> [D -> D]]
  BY <1>1
<1>3. PICK f : IsRecursive(f, Width, D, 1, G)
  <2>1. Width \in Nat /\ 1 \in D
    BY <1>1
  <2> HIDE DEF D, G
  <2>2. QED
    BY <1>2, <2>1, RecursionExists
<1>4. \A i \in 1 .. Width : f[i] = Base * f[i - 1]
  <2> TAKE i \in 1 .. Width
  <2>1. i - 1 \in 0 .. Width /\ i \in Nat
    BY <1>1
  <2>2. f[i - 1] \in D
    BY <1>3, <2>1 DEF IsRecursive
  <2>3. QED
    BY <1>3, <2>1, <2>2 DEF IsRecursive
<1> HIDE DEF G
<1>5. f = [i \in 0 .. Width |-> IF i = 0 THEN 1 ELSE Base * f[i - 1]]
  <2>1. \A i \in 0 .. Width : f[i] = IF i = 0 THEN 1 ELSE Base * f[i - 1]
    BY <1>1, <1>3, <1>4 DEF IsRecursive
  <2>2. f \in [0 .. Width -> D]
    BY <1>3 DEF IsRecursive
  <2>3. QED
    BY <2>1, <2>2
<1>6. Weight = [i \in 0 .. Width |-> IF i = 0 THEN 1 ELSE Base * Weight[i - 1]]
  BY <1>5 DEF Weight
<1> DEFINE S == {i \in Nat : i \in 0 .. Width => Weight[i] \in Nat \ {0}}
<1>7. \A i \in 0 .. Width - 1 : /\ Weight[i + 1] = Base * Weight[i]
                                /\ i \in 0 .. Width /\ i + 1 \in 0 .. Width
  <2> TAKE i \in 0 .. Width - 1
  <2>1. i + 1 \in 0 .. Width /\ i + 1 # 0 /\ (i + 1) - 1 = i /\ i \in 0 .. Width
    BY <1>1
  <2>2. QED
    BY <1>6, <2>1
<1>8. Weight[0] = 1
  BY <1>1, <1>6
<1>9. \A i \in 0 .. Width : i \in S
  <2>1. 0 \in S
    BY <1>8
  <2>2. \A i \in 0 .. Width - 1 : i \in S => i + 1 \in S
    BY <1>1, <1>7
  <2>3. S \in SUBSET Nat /\ Width \in Nat
    BY <1>1
  <2> HIDE DEF S
  <2>4. QED
    BY <2>1, <2>2, <2>3, RangeInduction
<1>10. QED
  BY <1>1, <1>7, <1>8, <1>9

LEMMA PartsAre ==
    ASSUME NEW num \in [Positions -> Nat]
    PROVE  /\ Parts(num)[0] = 0
           /\ \A i \in 0 .. Width : Parts(num)[i] \in Nat
           /\ \A i \in Positions :
                 Parts(num)[i + 1] = Parts(num)[i] + num[i] * Weight[i]
<1>1. Width \in Nat \ {0}
  BY LowSAssumption
<1>2. \A i \in 0 .. Width : Weight[i] \in Nat
  BY WeightIs
<1> DEFINE add == [i \in Positions |-> num[i] * Weight[i]]
<1>3. add \in [Positions -> Nat]
  <2>1. \A i \in Positions : num[i] \in Nat /\ Weight[i] \in Nat
    BY <1>1, <1>2 DEF Positions
  <2>2. QED
    BY <2>1
<1>4. \A i \in Positions : add[i] = num[i] * Weight[i]
  OBVIOUS
<1> HIDE DEF add
<1> DEFINE G == [i \in Nat |-> [x \in Nat |->
                    IF i - 1 \in Positions THEN x + add[i - 1] ELSE 0]]
<1>5. G \in [Nat -> [Nat -> Nat]]
  BY <1>3
<1>6. PICK f : IsRecursive(f, Width, Nat, 0, G)
  <2>1. Width \in Nat /\ 0 \in Nat
    BY <1>1
  <2> HIDE DEF G
  <2>2. QED
    BY <1>5, <2>1, RecursionExists
<1>7. \A i \in 1 .. Width : f[i] = f[i - 1] + num[i - 1] * Weight[i - 1]
  <2> TAKE i \in 1 .. Width
  <2>1. i - 1 \in Positions /\ i \in Nat /\ i - 1 \in 0 .. Width
    BY <1>1 DEF Positions
  <2>2. f[i - 1] \in Nat
    BY <1>6, <2>1 DEF IsRecursive
  <2>3. f[i] = f[i - 1] + add[i - 1]
    BY <1>6, <2>1, <2>2 DEF IsRecursive
  <2>4. QED
    BY <1>4, <2>1, <2>3, Zenon
<1> HIDE DEF G
<1>8. f = [i \in 0 .. Width |->
              IF i = 0 THEN 0 ELSE f[i - 1] + num[i - 1] * Weight[i - 1]]
  <2>1. \A i \in 0 .. Width : i = 0 \/ i \in 1 .. Width
    BY <1>1
  <2>2. \A i \in 0 .. Width :
           f[i] = IF i = 0 THEN 0 ELSE f[i - 1] + num[i - 1] * Weight[i - 1]
    BY <1>6, <1>7, <2>1, Zenon DEF IsRecursive
  <2>3. f \in [0 .. Width -> Nat]
    BY <1>6 DEF IsRecursive
  <2>4. QED
    BY <2>2, <2>3
<1>9. Parts(num) = [i \in 0 .. Width |->
         IF i = 0 THEN 0 ELSE Parts(num)[i - 1] + num[i - 1] * Weight[i - 1]]
  BY <1>8 DEF Parts
<1> DEFINE P == Parts(num)
<1>10. \A i \in 0 .. Width :
         P[i] = IF i = 0 THEN 0 ELSE P[i - 1] + num[i - 1] * Weight[i - 1]
  BY <1>9
<1> HIDE DEF P
<1>11. P[0] = 0 /\ \A i \in Positions : P[i + 1] = P[i] + num[i] * Weight[i]
  <2>1. 0 \in 0 .. Width /\ \A i \in Positions :
           i + 1 \in 0 .. Width /\ i + 1 # 0 /\ (i + 1) - 1 = i
    BY <1>1 DEF Positions
  <2>2. QED
    BY <1>10, <2>1
<1> DEFINE S == {i \in Nat : P[i] \in Nat}
<1>12. \A i \in 0 .. Width : i \in S
  <2>1. 0 \in S
    BY <1>11
  <2>2. ASSUME NEW i \in 0 .. Width - 1, i \in S PROVE i + 1 \in S
    <3>1. i \in Positions /\ P[i] \in Nat /\ add[i] \in Nat /\ i + 1 \in Nat
      BY <1>3, <2>2 DEF Positions
    <3>2. P[i + 1] = P[i] + add[i]
      BY <1>4, <1>11, <3>1, Zenon
    <3>3. QED
      BY <3>1, <3>2
  <2>3. S \in SUBSET Nat /\ Width \in Nat
    BY <1>1
  <2> HIDE DEF S
  <2>4. QED
    BY <2>1, <2>2, <2>3, RangeInduction
<1>13. QED
  BY <1>11, <1>12 DEF P
LEMMA DigitsAreNaturals ==
    /\ Base \in Nat \ {0, 1} /\ Width \in Nat \ {0}
    /\ Digits \subseteq Nat
    /\ \A i \in Positions : i \in 0 .. Width /\ i + 1 \in 0 .. Width /\ i \in Nat
    /\ 0 \in 0 .. Width /\ Width \in 0 .. Width
    /\ \A i \in 0 .. Width - 1 : i \in Positions
BY LowSAssumption DEF Digits, Positions

(* What a number of digits is below a position.                            *)
LEMMA PartsFit ==
    ASSUME NEW num \in [Positions -> Digits]
    PROVE  \A i \in 0 .. Width : Parts(num)[i] \in 0 .. Weight[i] - 1
<1> DEFINE P == Parts(num)
           S == {i \in Nat : i \in 0 .. Width => P[i] \in 0 .. Weight[i] - 1}
<1>1. num \in [Positions -> Nat]
  BY DigitsAreNaturals
<1>2. /\ P[0] = 0
      /\ \A i \in Positions : P[i + 1] = P[i] + num[i] * Weight[i]
  BY <1>1, PartsAre
<1> HIDE DEF P
<1>3. 0 \in S
  BY <1>2, WeightIs
<1>4. ASSUME NEW i \in 0 .. Width - 1, i \in S PROVE i + 1 \in S
  <2>1. /\ i \in Positions /\ i + 1 \in Nat /\ i \in 0 .. Width
        /\ i + 1 \in 0 .. Width
    BY DigitsAreNaturals
  <2>2. PICK w \in Nat \ {0} : w = Weight[i]
    BY <2>1, WeightIs
  <2>3. PICK d \in Digits : d = num[i]
    BY <2>1
  <2>4. PICK p \in 0 .. w - 1 : p = P[i]
    BY <1>4, <2>1, <2>2
  <2>5. P[i + 1] = p + d * w
    BY <1>2, <2>1, <2>2, <2>3, <2>4, Zenon
  <2>6. Weight[i + 1] = Base * w
    BY <2>2, WeightIs
  <2>7. p + d * w \in 0 .. Base * w - 1
    <3>1. d * w \in Nat /\ d * w + w <= Base * w
      <4>1. PICK e \in Nat : Base = d + 1 + e
        <5>1. Base - (d + 1) \in Nat /\ Base = d + 1 + (Base - (d + 1))
          BY DigitsAreNaturals DEF Digits
        <5>2. QED
          BY <5>1
      <4>2. d \in Nat
        BY DigitsAreNaturals
      <4>3. (d + 1 + e) * w = d * w + w + e * w /\ d * w \in Nat /\ e * w \in Nat
        BY <4>2
      <4>4. QED
        BY <4>1, <4>3
    <3>2. PICK x \in Nat : x = d * w
      BY <3>1
    <3>3. PICK y \in Nat : y = Base * w
      BY DigitsAreNaturals
    <3>4. x + w <= y
      BY <3>1, <3>2, <3>3, Zenon
    <3>5. p + x \in 0 .. y - 1
      BY <3>4
    <3>6. QED
      BY <3>2, <3>3, <3>5, Zenon
  <2>8. QED
    BY <2>1, <2>5, <2>6, <2>7
<1>5. S \in SUBSET Nat /\ Width \in Nat
  BY DigitsAreNaturals
<1> HIDE DEF S
<1>6. \A i \in 0 .. Width : i \in S
  BY <1>3, <1>4, <1>5, RangeInduction
<1>7. QED
  BY <1>6 DEF S, P

LEMMA DivisionIsUnique ==
    ASSUME NEW h \in Nat \ {0}, NEW b \in Nat, NEW r \in 0 .. h - 1
    PROVE  (b * h + r) \div h = b /\ (b * h + r) % h = r
<1> DEFINE x == b * h + r
           q == x \div h
           m == x % h
<1>1. x \in Nat
  OBVIOUS
<1>2. q \in Int /\ m \in 0 .. h - 1 /\ x = h * q + m
  BY <1>1
<1> HIDE DEF q, m
<1>3. h * (q - b) = r - m
  BY <1>2
<1>4. q - b < 1
  <2>1. SUFFICES ASSUME q - b >= 1 PROVE FALSE
    BY <1>2
  <2>2. h * (q - b) >= h
    BY <1>2, <2>1
  <2>3. QED
    BY <1>2, <1>3, <2>2
<1>5. q - b > -1
  <2>1. SUFFICES ASSUME q - b <= -1 PROVE FALSE
    BY <1>2
  <2>2. h * (q - b) <= -h
    BY <1>2, <2>1
  <2>3. QED
    BY <1>2, <1>3, <2>2
<1>6. q = b
  BY <1>2, <1>4, <1>5
<1>7. m = r
  BY <1>2, <1>6
<1>8. QED
  BY <1>6, <1>7 DEF q, m

LEMMA Divided ==
    ASSUME NEW x \in Nat, NEW h \in Nat \ {0}
    PROVE  /\ x \div h \in Nat /\ x % h \in 0 .. h - 1
           /\ x = (x \div h) * h + (x % h)
OBVIOUS

(* NumOf splits a number that fits into its digits.                        *)
LEMMA NumOfIsItsNumber ==
    ASSUME NEW v \in 0 .. Weight[Width] - 1
    PROVE  NumOf(v).num \in [Positions -> Digits] /\ ValueOf(NumOf(v).num) = v
<1> DEFINE num == NumOf(v).num
           P == Parts(num)
<1>1. v \in Nat /\ Base \in Nat \ {0}
  BY WeightIs, DigitsAreNaturals
<1>2. \A i \in Positions : num[i] = (v \div Weight[i]) % Base
  BY DEF NumOf
<1>3. num \in [Positions -> Digits]
  <2>1. ASSUME NEW i \in Positions
        PROVE  (v \div Weight[i]) % Base \in Digits
    <3>1. PICK w \in Nat \ {0} : w = Weight[i]
      BY WeightIs, DigitsAreNaturals
    <3>2. v \div w \in Nat
      BY <1>1, <3>1, Divided
    <3>3. (v \div w) % Base \in 0 .. Base - 1
      BY <1>1, <3>2, Divided
    <3>4. QED
      BY <3>1, <3>3 DEF Digits
  <2>2. num = [i \in Positions |-> (v \div Weight[i]) % Base]
    BY DEF NumOf
  <2>3. QED
    BY <2>1, <2>2
<1> HIDE DEF num
<1>4. num \in [Positions -> Nat]
  BY <1>3, DigitsAreNaturals
<1>5. P[0] = 0 /\ \A i \in Positions : P[i + 1] = P[i] + num[i] * Weight[i]
  BY <1>4, PartsAre
<1> HIDE DEF P
<1> DEFINE S == {i \in Nat : i \in 0 .. Width => P[i] = v % Weight[i]}
<1>6. 0 \in S
  BY <1>1, <1>5, WeightIs
<1>7. ASSUME NEW i \in 0 .. Width - 1, i \in S PROVE i + 1 \in S
  <2>1. i \in Positions /\ i \in 0 .. Width /\ i + 1 \in 0 .. Width /\ i + 1 \in Nat
    BY DigitsAreNaturals
  <2>2. PICK w \in Nat \ {0} : w = Weight[i]
    BY <2>1, WeightIs
  <2>3. Weight[i + 1] = Base * w
    BY <2>2, WeightIs
  <2>4. PICK q \in Nat : q = v \div w
    BY <1>1, Divided
  <2>5. PICK r \in 0 .. w - 1 : r = v % w
    BY <1>1, Divided
  <2>6. v = q * w + r
    BY <1>1, <2>4, <2>5, Divided, Zenon
  <2>7. PICK b \in Nat : b = q \div Base
    BY <1>1, Divided
  <2>8. PICK d \in 0 .. Base - 1 : d = q % Base
    BY <1>1, Divided
  <2>9. q = b * Base + d
    BY <1>1, <2>7, <2>8, Divided, Zenon
  <2>10. PICK base \in Nat \ {0} : base = Base
    BY <1>1
  <2>11. v = b * (base * w) + (d * w + r)
    BY <2>6, <2>8, <2>9, <2>10
  <2>12. base * w \in Nat \ {0} /\ d * w + r \in 0 .. base * w - 1
    <3>1. PICK e \in Nat : base = d + 1 + e
      <4>1. base - (d + 1) \in Nat /\ base = d + 1 + (base - (d + 1))
        BY <2>8, <2>10
      <4>2. QED
        BY <4>1
    <3>2. d \in Nat
      BY <2>8, <2>10
    <3>3. (d + 1 + e) * w = d * w + w + e * w /\ d * w \in Nat /\ e * w \in Nat
      BY <3>2
    <3>4. QED
      BY <3>1, <3>3
  <2>13. v % (base * w) = d * w + r
    BY <2>11, <2>12, DivisionIsUnique
  <2>14. P[i + 1] = r + d * w
    BY <1>2, <1>5, <1>7, <2>1, <2>2, <2>4, <2>5, <2>8, Zenon
  <2>15. r + d * w = d * w + r
    BY <2>8, <2>10
  <2>16. P[i + 1] = v % Weight[i + 1]
    BY <2>3, <2>10, <2>13, <2>14, <2>15, Zenon
  <2>17. QED
    BY <2>1, <2>16
<1>8. S \in SUBSET Nat /\ Width \in Nat
  BY DigitsAreNaturals
<1> HIDE DEF S
<1>9. Width \in S
  BY <1>6, <1>7, <1>8, RangeInduction, DigitsAreNaturals
<1>10. v % Weight[Width] = v
  <2>1. PICK w \in Nat \ {0} : w = Weight[Width]
    BY WeightIs, DigitsAreNaturals
  <2>2. 0 * w + v = v /\ v \in 0 .. w - 1 /\ 0 \in Nat
    BY <2>1
  <2>3. (0 * w + v) % w = v
    BY <2>2, DivisionIsUnique
  <2>4. QED
    BY <2>1, <2>2, <2>3, Zenon
<1>11. QED
  BY <1>3, <1>9, <1>10, DigitsAreNaturals DEF S, P, num, ValueOf
(* The digits below a position decide nothing against a digit above them.  *)
LEMMA TopDigitDecides ==
    ASSUME NEW x \in [Positions -> Digits], NEW y \in [Positions -> Digits],
           NEW top \in Positions, x[top] > y[top],
           \A j \in Positions : j > top => x[j] = y[j]
    PROVE  ValueOf(x) > ValueOf(y)
<1> DEFINE X == Parts(x)
           Y == Parts(y)
<1>1. x \in [Positions -> Nat] /\ y \in [Positions -> Nat]
  BY DigitsAreNaturals
<1>2. /\ \A i \in 0 .. Width : X[i] \in Nat /\ Y[i] \in Nat
      /\ \A i \in Positions : /\ X[i + 1] = X[i] + x[i] * Weight[i]
                              /\ Y[i + 1] = Y[i] + y[i] * Weight[i]
  BY <1>1, PartsAre
<1>3. \A i \in 0 .. Width : Y[i] \in 0 .. Weight[i] - 1
  BY PartsFit
<1> HIDE DEF X, Y
<1>4. X[top + 1] > Y[top + 1]
  <2>1. top \in 0 .. Width
    BY DigitsAreNaturals
  <2>2. PICK w \in Nat \ {0} : w = Weight[top]
    BY <2>1, WeightIs
  <2>3. PICK a \in Nat, b \in Nat : a = x[top] /\ b = y[top]
    BY <1>1
  <2>4. PICK p \in Nat, q \in Nat : p = X[top] /\ q = Y[top]
    BY <1>2, <2>1
  <2>5. X[top + 1] = p + a * w /\ Y[top + 1] = q + b * w /\ q < w
    BY <1>2, <1>3, <2>1, <2>2, <2>3, <2>4
  <2>6. PICK e \in Nat : a = b + 1 + e
    <3>1. a - (b + 1) \in Nat /\ a = b + 1 + (a - (b + 1))
      BY <2>3
    <3>2. QED
      BY <3>1
  <2>7. PICK c \in Nat, d \in Nat : c = b * w /\ d = e * w
    OBVIOUS
  <2>8. a * w = c + w + d
    BY <2>6, <2>7
  <2>9. p + (c + w + d) > q + c
    BY <2>5
  <2>10. QED
    BY <2>5, <2>7, <2>8, <2>9
<1> DEFINE S == {i \in Nat : i \in top + 1 .. Width => X[i] > Y[i]}
<1>5. \A i \in 0 .. Width : i \in S
  <2>1. 0 \in S
    BY DigitsAreNaturals
  <2>2. ASSUME NEW i \in 0 .. Width - 1, i \in S PROVE i + 1 \in S
    <3>1. i \in Positions /\ i \in 0 .. Width /\ i + 1 \in Nat /\ top \in Nat
      BY DigitsAreNaturals
    <3>2. CASE i = top
      BY <1>4, <3>1, <3>2
    <3>3. CASE i < top
      BY <3>1, <3>3
    <3>4. CASE i > top
      <4>1. X[i] > Y[i]
        BY <2>2, <3>1, <3>4
      <4>2. PICK z \in Nat : z = x[i] * Weight[i]
        <5>1. x[i] \in Nat /\ Weight[i] \in Nat
          BY <1>1, <3>1, WeightIs
        <5>2. QED
          BY <5>1
      <4>3. X[i + 1] = X[i] + z /\ Y[i + 1] = Y[i] + z
        BY <1>2, <3>1, <3>4, <4>2, Zenon
      <4>4. X[i + 1] > Y[i + 1]
        BY <1>2, <3>1, <4>1, <4>3
      <4>5. QED
        BY <3>1, <4>4
    <3>5. QED
      BY <3>1, <3>2, <3>3, <3>4
  <2>3. S \in SUBSET Nat /\ Width \in Nat
    BY DigitsAreNaturals
  <2> HIDE DEF S
  <2>4. QED
    BY <2>1, <2>2, <2>3, RangeInduction
<1>6. Width \in top + 1 .. Width /\ Width \in 0 .. Width
  BY DigitsAreNaturals DEF Positions
<1>7. X[Width] > Y[Width]
  BY <1>5, <1>6
<1>8. QED
  BY <1>7 DEF ValueOf, X, Y

(* Comp compares the numbers that two arrays of Width digits stand for.    *)
LEMMA CompCompares ==
    ASSUME NEW x \in [Positions -> Digits], NEW y \in [Positions -> Digits]
    PROVE  Comp(InitBinary(x), InitBinary(y)) < 0 <=> ValueOf(x) < ValueOf(y)
<1> DEFINE differ == {i \in 0 .. Width - 1 : x[i] # y[i]}
           top == CHOOSE i \in differ : \A j \in differ : j <= i
<1>1. Comp(InitBinary(x), InitBinary(y)) =
         IF differ = {} THEN 0 ELSE IF x[top] > y[top] THEN 1 ELSE -1
  BY DEF Comp, InitBinary
<1>2. /\ \A i \in Positions : x[i] \in Nat /\ y[i] \in Nat
      /\ ValueOf(x) \in Nat /\ ValueOf(y) \in Nat
  <2>1. x \in [Positions -> Nat] /\ y \in [Positions -> Nat]
    BY DigitsAreNaturals
  <2>2. QED
    BY <2>1, PartsAre, DigitsAreNaturals DEF ValueOf
<1>3. CASE differ = {}
  <2>1. \A i \in Positions : x[i] = y[i]
    BY <1>3 DEF Positions
  <2>2. x = y
    BY <2>1
  <2>3. ~(0 < 0) /\ ~(ValueOf(x) < ValueOf(y))
    BY <1>2, <2>2
  <2>4. QED
    BY <1>1, <1>3, <2>3
<1>4. CASE differ # {}
  <2>1. \E i \in differ : \A j \in differ : j <= i
    <3>1. Width - 1 \in Nat /\ differ \in SUBSET (0 .. Width - 1)
      BY DigitsAreNaturals
    <3> HIDE DEF differ
    <3>2. QED
      BY <1>4, <3>1, GreatestExists
  <2>2. top \in differ /\ \A j \in differ : j <= top
    BY <2>1
  <2> HIDE DEF top
  <2>3. /\ top \in Positions /\ x[top] # y[top]
        /\ \A j \in Positions : j > top => x[j] = y[j] /\ y[j] = x[j]
    BY <2>2 DEF Positions
  <2>4. x[top] \in Nat /\ y[top] \in Nat
    BY <1>2, <2>3
  <2>5. CASE x[top] > y[top]
    <3>1. ValueOf(x) > ValueOf(y)
      BY <2>3, <2>5, TopDigitDecides
    <3>2. QED
      BY <1>1, <1>2, <1>4, <2>5, <3>1
  <2>6. CASE y[top] > x[top]
    <3>1. ValueOf(y) > ValueOf(x)
      BY <2>3, <2>6, TopDigitDecides
    <3>2. QED
      BY <1>1, <1>2, <1>4, <2>4, <2>6, <3>1
  <2>7. QED
    BY <2>3, <2>4, <2>5, <2>6
<1>5. QED
  BY <1>3, <1>4
Bits == {0, 1}

(* What a digit of the difference borrows, and that it then is a digit.    *)
LEMMA BorrowsAre ==
    ASSUME NEW x \in [Positions -> Digits], NEW y \in [Positions -> Digits],
           NEW b, b = Borrows(InitBinary(x), InitBinary(y))
    PROVE  /\ b[0] = 0 /\ \A i \in 0 .. Width : b[i] \in Bits
           /\ \A i \in Positions :
                 x[i] - y[i] - b[i] + Base * b[i + 1] \in Digits
<1> DEFINE Next1(i, c) == IF x[i] - y[i] - c < 0 THEN 1 ELSE 0
           G == [i \in Nat |-> [c \in Bits |-> Next1(i - 1, c)]]
<1>1. G \in [Nat -> [Bits -> Bits]]
  BY DEF Bits
<1> HIDE DEF G
<1>2. PICK f : IsRecursive(f, Width, Bits, 0, G)
  <2>1. Width \in Nat /\ 0 \in Bits
    BY DigitsAreNaturals DEF Bits
  <2>2. QED
    BY <1>1, <2>1, RecursionExists
<1>3. f \in [0 .. Width -> Bits] /\ f[0] = 0
  BY <1>2 DEF IsRecursive
<1>4. ASSUME NEW i \in 1 .. Width PROVE f[i] = Next1(i - 1, f[i - 1])
  <2>1. i \in Nat /\ i - 1 \in 0 .. Width
    BY DigitsAreNaturals
  <2>2. f[i - 1] \in Bits /\ f[i] = G[i][f[i - 1]]
    BY <1>2, <2>1 DEF IsRecursive
  <2>3. QED
    BY <2>1, <2>2 DEF G
<1>5. f = [i \in 0 .. Width |-> IF i = 0 THEN 0 ELSE Next1(i - 1, f[i - 1])]
  <2>1. \A i \in 0 .. Width : i = 0 \/ i \in 1 .. Width
    BY DigitsAreNaturals
  <2>2. \A i \in 0 .. Width : f[i] = IF i = 0 THEN 0 ELSE Next1(i - 1, f[i - 1])
    BY <1>3, <1>4, <2>1, Zenon
  <2>3. QED
    BY <1>3, <2>2
<1>6. b = [i \in 0 .. Width |-> IF i = 0 THEN 0 ELSE Next1(i - 1, b[i - 1])]
  BY <1>5 DEF Borrows, InitBinary
<1>7. /\ b[0] = 0
      /\ \A i \in Positions : b[i + 1] = Next1(i, b[i])
  <2>1. 0 \in 0 .. Width /\ \A i \in Positions :
           i + 1 \in 0 .. Width /\ i + 1 # 0 /\ (i + 1) - 1 = i
    BY DigitsAreNaturals
  <2>2. QED
    BY <1>6, <2>1
<1>8. \A i \in 0 .. Width : b[i] \in Bits
  <2> DEFINE S == {i \in Nat : b[i] \in Bits}
  <2>1. 0 \in S
    BY <1>7 DEF Bits
  <2>2. \A i \in 0 .. Width - 1 : i \in S => i + 1 \in S
    BY <1>7, DigitsAreNaturals DEF Bits
  <2>3. S \in SUBSET Nat /\ Width \in Nat
    BY DigitsAreNaturals
  <2> HIDE DEF S
  <2>4. \A i \in 0 .. Width : i \in S
    BY <2>1, <2>2, <2>3, RangeInduction
  <2>5. QED
    BY <2>4 DEF S
<1>9. ASSUME NEW i \in Positions
      PROVE  x[i] - y[i] - b[i] + Base * b[i + 1] \in Digits
  <2>1. x[i] \in 0 .. Base - 1 /\ y[i] \in 0 .. Base - 1 /\ Base \in Nat
    BY DigitsAreNaturals DEF Digits
  <2>2. b[i] \in {0, 1} /\ b[i + 1] = Next1(i, b[i])
    BY <1>7, <1>8, DigitsAreNaturals DEF Bits
  <2>3. QED
    BY <2>1, <2>2 DEF Digits
<1>10. QED
  BY <1>7, <1>8, <1>9

(* Sub subtracts, if the difference is a natural.                          *)
LEMMA SubSubtracts ==
    ASSUME NEW x \in [Positions -> Digits], NEW y \in [Positions -> Digits],
           ValueOf(x) >= ValueOf(y),
           NEW z, z = printBuf(Sub(InitBinary(x), InitBinary(y)))
    PROVE  z \in [Positions -> Digits] /\ ValueOf(z) = ValueOf(x) - ValueOf(y)
<1> DEFINE b == Borrows(InitBinary(x), InitBinary(y))
<1>1. z = [i \in Positions |-> x[i] - y[i] - b[i] + Base * b[i + 1]]
  BY DEF printBuf, Sub, InitBinary
<1>2. /\ b[0] = 0 /\ \A i \in 0 .. Width : b[i] \in Bits
      /\ \A i \in Positions : x[i] - y[i] - b[i] + Base * b[i + 1] \in Digits
  BY BorrowsAre
<1> HIDE DEF b
<1>3. z \in [Positions -> Digits]
      /\ \A i \in Positions : z[i] = x[i] - y[i] - b[i] + Base * b[i + 1]
  BY <1>1, <1>2
<1>4. /\ x \in [Positions -> Nat] /\ y \in [Positions -> Nat]
      /\ z \in [Positions -> Nat]
  BY <1>3, DigitsAreNaturals
<1> DEFINE X == Parts(x)
           Y == Parts(y)
           Z == Parts(z)
<1>5. /\ X[0] = 0 /\ Y[0] = 0 /\ Z[0] = 0
      /\ \A i \in 0 .. Width : X[i] \in Nat /\ Y[i] \in Nat /\ Z[i] \in Nat
      /\ \A i \in Positions : /\ X[i + 1] = X[i] + x[i] * Weight[i]
                              /\ Y[i + 1] = Y[i] + y[i] * Weight[i]
                              /\ Z[i + 1] = Z[i] + z[i] * Weight[i]
  BY <1>4, PartsAre
<1>6. Z[Width] \in 0 .. Weight[Width] - 1
  BY <1>3, PartsFit, DigitsAreNaturals
<1> HIDE DEF X, Y, Z
<1> DEFINE S == {i \in Nat : i \in 0 .. Width =>
                                Z[i] = X[i] - Y[i] + b[i] * Weight[i]}
<1>7. Width \in S
  <2>1. 0 \in S
    BY <1>2, <1>5, WeightIs
  <2>2. ASSUME NEW i \in 0 .. Width - 1, i \in S PROVE i + 1 \in S
    <3>1. /\ i \in Positions /\ i \in 0 .. Width /\ i + 1 \in 0 .. Width
          /\ i + 1 \in Nat
      BY DigitsAreNaturals
    <3>2. PICK w \in Nat \ {0} : w = Weight[i]
      BY <3>1, WeightIs
    <3>3. PICK p \in Nat, q \in Nat, r \in Nat : p = X[i] /\ q = Y[i] /\ r = Z[i]
      BY <1>5, <3>1
    <3>4. PICK d \in Nat, e \in Nat, g \in Nat : d = x[i] /\ e = y[i] /\ g = z[i]
      BY <1>4, <3>1
    <3>5. PICK c \in Bits, n \in Bits : c = b[i] /\ n = b[i + 1]
      BY <1>2, <3>1
    <3>6. PICK base \in Nat : base = Base
      BY DigitsAreNaturals
    <3>7. r = p - q + c * w
      BY <2>2, <3>1, <3>2, <3>3, <3>5
    <3>8. g = d - e - c + base * n
      BY <1>3, <3>1, <3>4, <3>5, <3>6
    <3>9. g * w = d * w - e * w - c * w + n * (base * w)
      BY <3>8 DEF Bits
    <3>10. r + g * w = (p + d * w) - (q + e * w) + n * (base * w)
      <4>1. PICK u \in Nat, v \in Nat, s1 \in Nat, t1 \in Nat, m \in Nat :
               u = d * w /\ v = e * w /\ s1 = c * w /\ t1 = g * w
               /\ m = n * (base * w)
        BY DEF Bits
      <4>2. t1 = u - v - s1 + m /\ r = p - q + s1
        BY <3>7, <3>9, <4>1, Zenon
      <4>3. r + t1 = (p + u) - (q + v) + m
        BY <4>2
      <4>4. QED
        BY <4>1, <4>3, Zenon
    <3>11. /\ Z[i + 1] = r + g * w /\ X[i + 1] = p + d * w
           /\ Y[i + 1] = q + e * w /\ Weight[i + 1] = base * w
      BY <1>5, <3>1, <3>2, <3>3, <3>4, <3>6, WeightIs, Zenon
    <3>12. Z[i + 1] = X[i + 1] - Y[i + 1] + b[i + 1] * Weight[i + 1]
      BY <3>5, <3>10, <3>11, Zenon
    <3>13. QED
      BY <3>1, <3>12
  <2>3. S \in SUBSET Nat /\ Width \in Nat
    BY DigitsAreNaturals
  <2> HIDE DEF S
  <2>4. QED
    BY <2>1, <2>2, <2>3, RangeInduction, DigitsAreNaturals
<1>8. Z[Width] = X[Width] - Y[Width]
  <2>1. PICK w \in Nat \ {0} : w = Weight[Width]
    BY WeightIs, DigitsAreNaturals
  <2>2. PICK p \in Nat, q \in Nat : p = X[Width] /\ q = Y[Width] /\ p >= q
    BY <1>5, DigitsAreNaturals DEF ValueOf, X, Y
  <2>3. PICK c \in {0, 1} : c = b[Width]
    BY <1>2, DigitsAreNaturals DEF Bits
  <2>4. Z[Width] = p - q + c * w /\ Z[Width] < w
    BY <1>6, <1>7, <2>1, <2>2, <2>3, DigitsAreNaturals
  <2>5. c = 0
    BY <2>2, <2>4
  <2>6. QED
    BY <2>2, <2>4, <2>5
<1>9. QED
  BY <1>3, <1>8 DEF ValueOf, X, Y, Z

(* LowsCalc gives the lower of s and N - s, as Width digits.               *)
LEMMA LowsCalcIsLower ==
    ASSUME NEW r \in 0 .. N - 1, NEW low, low = LowsCalc(NumOf(r).num)
    PROVE  /\ low \in [Positions -> Digits]
           /\ ValueOf(low) = IF r <= N - r THEN r ELSE N - r
<1>1. PICK h \in Nat : h = (N - 1) \div 2 /\ N = 2 * h + 1
  BY LowSAssumption
<1>2. PICK w \in Nat \ {0} : w = Weight[Width]
  BY WeightIs, DigitsAreNaturals
<1>3. N \in 3 .. w - 1
  BY <1>2, LowSAssumption
<1>4. r \in 0 .. w - 1 /\ h \in 0 .. w - 1 /\ N \in 0 .. w - 1
  BY <1>1, <1>3
<1> DEFINE x == NumOf(r).num
           half == NumOf(h).num
           order == NumOf(N).num
<1>5. /\ x \in [Positions -> Digits] /\ ValueOf(x) = r
      /\ half \in [Positions -> Digits] /\ ValueOf(half) = h
      /\ order \in [Positions -> Digits] /\ ValueOf(order) = N
  BY <1>2, <1>4, NumOfIsItsNumber
<1>6. Lower_S = InitBinary(half) /\ Max_s = InitBinary(order)
  BY <1>1 DEF Lower_S, Max_s, InitBinary, NumOf
<1> HIDE DEF x, half, order
<1>7. low = IF Comp(InitBinary(half), InitBinary(x)) < 0
            THEN printBuf(Sub(InitBinary(order), InitBinary(x))) ELSE x
  BY <1>6 DEF LowsCalc, x
<1>8. Comp(InitBinary(half), InitBinary(x)) < 0 <=> h < r
  BY <1>5, CompCompares
<1>9. CASE h < r
  <2>1. low = printBuf(Sub(InitBinary(order), InitBinary(x)))
    BY <1>7, <1>8, <1>9
  <2>2. ValueOf(order) >= ValueOf(x)
    BY <1>3, <1>4, <1>5
  <2>3. low \in [Positions -> Digits] /\ ValueOf(low) = N - r
    BY <1>5, <2>1, <2>2, SubSubtracts
  <2>4. ~(r <= N - r)
    BY <1>1, <1>4, <1>9
  <2>5. QED
    BY <2>3, <2>4
<1>10. CASE ~(h < r)
  <2>1. low = x
    BY <1>7, <1>8, <1>10
  <2>2. r <= N - r
    BY <1>1, <1>4, <1>10
  <2>3. QED
    BY <1>5, <2>1, <2>2
<1>11. QED
  BY <1>9, <1>10


-----------------------------------------------------------------------------
(* Types.                                                                  *)

(* What an export or a signature may find is a key.                        *)
LEMMA FoundIsKey ==
    ASSUME TypeInv, key_slot \in Values \cup {None}, NEW key \in DeviceKeyFound
    PROVE  key \in Values \cup {None}
<1>1. CASE ~ ready \/ key_slot # None
  BY <1>1 DEF DeviceKeyFound
<1>2. CASE ready /\ key_slot = None
  <2>1. PICK r \in psa_load_persistent_key(DeviceKey) : key \in MayFail("load", r.file)
    BY <1>2 DEF DeviceKeyFound
  <2>2. nvs[DeviceKey].data \in Values \cup {None}
    BY SdkAssumption DEF TypeInv, KsTypeOK, ItsTypeOK, Entry
  <2>3. \A n : \A got \in ItsGet(DeviceKey, n) :
           got.data \in Values \cup {None, Blank}
    BY <2>2 DEF ItsGet
  <2>4. \A n : \A l \in psa_crypto_storage_load(DeviceKey, n) :
           l.file \in Values \cup {None}
    BY <2>3 DEF psa_crypto_storage_load
  <2>5. PICK info \in GetInfo(DeviceKey) :
           r \in IF info.status = "SUCCESS"
                 THEN psa_crypto_storage_load(DeviceKey, info.size)
                 ELSE {[status |-> info.status, file |-> None]}
    BY <2>1 DEF psa_load_persistent_key
  <2>6. r.file \in Values \cup {None}
    BY <2>4, <2>5
  <2>7. key = r.file \/ key = None
    BY <2>1 DEF MayFail
  <2>8. QED
    BY <2>6, <2>7
<1>3. QED
  BY <1>1, <1>2

(* The type invariant without the storage, which KeyStorageProofs has, and *)
(* the number in the buffer of a signature.                                *)
KeysAreKeys ==
    /\ key_slot \in Values \cup {None}
    /\ generated \in Values \cup {None}
    /\ exported \in Values \cup {None}
    /\ shown \subseteq Values

DeviceTypeOK ==
    /\ boot \in {"off", "export", "generate", "storing", "export_again",
                 "running"}
    /\ ready \in BOOLEAN
    /\ g_signkey \in {DeviceKey, None}
    /\ status \in {Disconnected, Connected, BindStatusOk}
    /\ ret \in {"none", "SUCCESS", "BAD_STATUS"}

ReportTypeOK ==
    /\ upload \in [pc : {"idle", "sign", "send"}, message : Messages]
    /\ sent \in Messages

(* A number and what LowsCalc makes of it, or nothing yet.                 *)
SignBufs ==
    {NoNumber} \cup {[drawn |-> r, bytes |-> LowsCalc(NumOf(r).num)] : r \in 0 .. N - 1}

SignBufOK ==
    /\ sign_buf \in SignBufs
    /\ upload.pc = "send" /\ upload.message.kind = "confirm" =>
          \E r \in 0 .. N - 1 :
             sign_buf = [drawn |-> r, bytes |-> LowsCalc(NumOf(r).num)]

SdkTypeInv ==
    TypeInv /\ KeysAreKeys /\ DeviceTypeOK /\ ReportTypeOK /\ SignBufOK

LEMMA KeysStep ==
    ASSUME SdkTypeInv, [SdkNext]_allVars
    PROVE  KeysAreKeys'
<1> USE DEF SdkTypeInv, KeysAreKeys
<1>1. CASE UNCHANGED <<key_slot, generated, exported, shown>>
  BY <1>1
<1>2. ASSUME NEW key \in Values \cup {None}, NEW next, Export(key, next),
             key_slot' \in Values \cup {None}, UNCHANGED generated
      PROVE  KeysAreKeys'
  BY <1>2 DEF Export
<1>3. CASE ExportKey
  <2>1. key_slot' \in Values \cup {None}
    BY <1>3, FoundIsKey DEF ExportKey
  <2>2. PICK key \in MayFail("export", key_slot') : Export(key, "generate")
    BY <1>3 DEF ExportKey
  <2>3. key \in Values \cup {None}
    BY <2>1, <2>2 DEF MayFail
  <2>4. QED
    BY <1>2, <1>3, <2>1, <2>2, <2>3 DEF ExportKey
<1>4. CASE ExportAgain
  <2>1. PICK key \in {None, key_slot} : Export(key, "running")
    BY <1>4 DEF ExportAgain, MayFail
  <2>2. QED
    BY <1>2, <1>4, <2>1 DEF ExportAgain
<1>5. CASE ReportSign
  <2>1. key_slot' \in Values \cup {None}
    BY <1>5, FoundIsKey DEF ReportSign
  <2>2. QED
    BY <1>5, <2>1 DEF ReportSign
<1>6. CASE \E f \in Values : GenerateKey(f)
  BY <1>6 DEF GenerateKey
<1>7. CASE GenerateDone
  BY <1>7 DEF GenerateDone
<1>8. CASE Evict \/ PowerFailure
  BY <1>8 DEF Evict, PowerFailure
<1>9. QED
  BY <1>1, <1>3, <1>4, <1>5, <1>6, <1>7, <1>8
  DEF SdkNext, Boot, Report, Storage, PowerOn, GenerateFails, ReportBegin,
      ReportSend, SetMqttStatus, allVars, sdkVars

LEMMA DeviceStep ==
    ASSUME SdkTypeInv, [SdkNext]_allVars
    PROVE  DeviceTypeOK'
<1> USE DEF SdkTypeInv, DeviceTypeOK
<1>1. CASE UNCHANGED allVars \/ Storage
  BY <1>1 DEF Storage, allVars, sdkVars
<1>2. CASE PowerOn \/ GenerateFails \/ GenerateDone
  BY <1>2 DEF PowerOn, GenerateFails, GenerateDone
<1>3. CASE ExportKey \/ ExportAgain
  BY <1>3 DEF ExportKey, ExportAgain, Export
<1>4. CASE \E f \in Values : GenerateKey(f)
  BY <1>4 DEF GenerateKey
<1>5. CASE Report \/ Evict
  BY <1>5 DEF Report, ReportBegin, ReportSign, ReportSend, Evict
<1>6. CASE PowerFailure \/ \E m \in AppStatuses : SetMqttStatus(m)
  BY <1>6, SdkAssumption DEF PowerFailure, SetMqttStatus
<1>7. QED
  BY <1>1, <1>2, <1>3, <1>4, <1>5, <1>6 DEF SdkNext, Boot

LEMMA NumbersAreSignBufs ==
    ASSUME upload.message \in Messages, NEW sign, NEW b \in Numbers(sign)
    PROVE  /\ b \in SignBufs
           /\ upload.message.kind = "confirm" =>
                 \E r \in 0 .. N - 1 :
                    b = [drawn |-> r, bytes |-> LowsCalc(NumOf(r).num)]
<1>1. N \in Nat /\ N >= 3
  BY LowSAssumption, WeightIs
<1>2. Drawn(sign) \subseteq 0 .. N - 1
  BY <1>1, SdkAssumption DEF Drawn
<1>3. CASE upload.message.kind = "confirm"
  <2>1. PICK r \in Drawn(sign) : b = [drawn |-> r, bytes |-> LowsCalc(NumOf(r).num)]
    BY <1>3 DEF Numbers
  <2>2. r \in 0 .. N - 1
    BY <1>2
  <2>3. QED
    BY <2>1, <2>2 DEF SignBufs
<1>4. CASE upload.message.kind # "confirm"
  BY <1>4 DEF Numbers, SignBufs
<1>5. QED
  BY <1>3, <1>4

LEMMA SignedIsTyped ==
    ASSUME SdkTypeInv, NEW sign \in Values \cup {None}, Signed(sign)
    PROVE  /\ upload' \in [pc : {"idle", "sign", "send"}, message : Messages]
           /\ SignBufOK'
<1>1. upload.message \in Messages /\ exported \in Values \cup {None}
  BY DEF SdkTypeInv, ReportTypeOK, KeysAreKeys
<1>2. /\ upload'.message = [kind |-> upload.message.kind, sign |-> sign,
                            pubkey |-> exported]
      /\ upload' = [pc |-> "send", message |-> upload'.message]
      /\ sign_buf' \in Numbers(sign)
  BY <1>1 DEF Signed, Messages
<1>3. upload'.message \in Messages
  BY <1>1, <1>2 DEF Messages
<1>4. SignBufOK'
  BY <1>1, <1>2, NumbersAreSignBufs DEF SignBufOK
<1>5. QED
  BY <1>2, <1>3, <1>4

LEMMA IdleIsTyped ==
    /\ NoUpload \in [pc : {"idle", "sign", "send"}, message : Messages]
    /\ NoUpload.pc # "send"
    /\ NoMessage \in Messages
    /\ NoNumber \in SignBufs
  BY DEF NoUpload, NoMessage, Messages, SignBufs

LEMMA ReportStep ==
    ASSUME SdkTypeInv, [SdkNext]_allVars
    PROVE  ReportTypeOK' /\ SignBufOK'
<1>1. CASE UNCHANGED <<upload, sent, sign_buf>>
  BY <1>1 DEF SdkTypeInv, ReportTypeOK, SignBufOK
<1>2. CASE \E kind \in Kinds : ReportBegin(kind)
  <2>1. PICK kind \in Kinds : ReportBegin(kind)
    BY <1>2
  <2>2. CASE UNCHANGED upload
    BY <1>1, <2>1, <2>2 DEF ReportBegin
  <2>3. CASE upload' = [pc |-> IF kind = "query" THEN "send" ELSE "sign",
                        message |-> [NoMessage EXCEPT !.kind = kind]]
    <3>1. upload'.message = [kind |-> kind, sign |-> None, pubkey |-> None]
      BY <2>3 DEF NoMessage
    <3>2. /\ upload' \in [pc : {"idle", "sign", "send"}, message : Messages]
          /\ upload'.pc = "send" => upload'.message.kind # "confirm"
      BY <2>3, <3>1 DEF Messages
    <3>3. sent' = sent /\ sign_buf' = sign_buf
      BY <2>1 DEF ReportBegin
    <3>4. QED
      BY <3>2, <3>3 DEF SdkTypeInv, ReportTypeOK, SignBufOK
  <2>4. QED
    BY <2>1, <2>2, <2>3 DEF ReportBegin
<1>3. CASE ReportSign
  <2>1. PICK sign \in Values \cup {None} : Signed(sign)
    <3>1. CASE g_signkey = None
      BY <1>3, <3>1 DEF ReportSign
    <3>2. CASE g_signkey # None
      <4>1. key_slot' \in Values \cup {None}
        BY <1>3, <3>2, FoundIsKey DEF ReportSign, SdkTypeInv, KeysAreKeys
      <4>2. PICK sign \in MayFail("sign", key_slot') : Signed(sign)
        BY <1>3, <3>2 DEF ReportSign
      <4>3. sign \in Values \cup {None}
        BY <4>1, <4>2 DEF MayFail
      <4>4. QED
        BY <4>2, <4>3
    <3>3. QED
      BY <3>1, <3>2
  <2>2. sent' = sent
    BY <1>3 DEF ReportSign
  <2>3. QED
    BY <2>1, <2>2, SignedIsTyped DEF SdkTypeInv, ReportTypeOK
<1>4. CASE ReportSend \/ PowerFailure
  <2>1. upload' = NoUpload /\ sign_buf' = NoNumber /\ sent' \in {sent, upload.message}
    BY <1>4 DEF ReportSend, PowerFailure
  <2>2. sent \in Messages /\ upload.message \in Messages
    BY DEF SdkTypeInv, ReportTypeOK
  <2>3. QED
    BY <2>1, <2>2, IdleIsTyped DEF ReportTypeOK, SignBufOK
<1>5. QED
  BY <1>1, <1>2, <1>3, <1>4
  DEF SdkNext, Boot, Report, Storage, PowerOn, ExportKey, GenerateKey,
      GenerateFails, GenerateDone, ExportAgain, SetMqttStatus, Evict, allVars,
      sdkVars

LEMMA SdkTypeInit == SdkInit => SdkTypeInv
<1> SUFFICES ASSUME SdkInit PROVE SdkTypeInv
  OBVIOUS
<1>1. TypeInv
  BY TypeInit DEF SdkInit
<1>2. KeysAreKeys /\ DeviceTypeOK
  BY DEF SdkInit, KeysAreKeys, DeviceTypeOK
<1>3. ReportTypeOK /\ SignBufOK
  BY IdleIsTyped DEF SdkInit, ReportTypeOK, SignBufOK
<1>4. QED
  BY <1>1, <1>2, <1>3 DEF SdkTypeInv

LEMMA SdkTypeInvariance == SdkSpec => []SdkTypeInv
<1>1. SdkTypeInv /\ [SdkNext]_allVars => SdkTypeInv'
  <2> SUFFICES ASSUME SdkTypeInv, [SdkNext]_allVars PROVE SdkTypeInv'
    OBVIOUS
  <2>1. TypeInv'
    BY SdkStepIsStorageStep, TypeStep DEF SdkTypeInv
  <2>2. QED
    BY <2>1, KeysStep, DeviceStep, ReportStep DEF SdkTypeInv
<1>2. QED
  BY <1>1, SdkTypeInit, PTL DEF SdkSpec

LEMMA SignBufsAreTyped ==
    ASSUME NEW b \in SignBufs
    PROVE  /\ b.drawn \in 0 .. N - 1
           /\ b.bytes \in [Positions -> 0 .. Base - 1]
<1>1. Digits = 0 .. Base - 1
  BY DEF Digits
<1>2. N \in Nat /\ N >= 3 /\ 0 \in 0 .. N - 1 /\ 0 \in 0 .. Weight[Width] - 1
  BY LowSAssumption, WeightIs
<1>3. CASE b = NoNumber
  <2>1. NumOf(0).num \in [Positions -> Digits]
    BY <1>2, NumOfIsItsNumber
  <2>2. QED
    BY <1>1, <1>2, <1>3, <2>1 DEF NoNumber
<1>4. ASSUME NEW r \in 0 .. N - 1,
             b = [drawn |-> r, bytes |-> LowsCalc(NumOf(r).num)]
      PROVE  b.drawn \in 0 .. N - 1 /\ b.bytes \in [Positions -> Digits]
  <2>1. LowsCalc(NumOf(r).num) \in [Positions -> Digits]
    BY LowsCalcIsLower
  <2>2. QED
    BY <1>4, <2>1
<1>5. QED
  BY <1>1, <1>3, <1>4 DEF SignBufs

(* wsiotsdk.c and iotex_dev_access.c: whatever of the SDK's calls and of   *)
(* the driver's fails, and wherever the power goes, every variable of the  *)
(* device keeps its type.  The keys it holds come from files read back,    *)
(* and the bytes of a signature from arithmetic on arrays of digits.       *)
THEOREM SdkTypesHold == SdkSpec => []SdkTypeOK
<1>1. SdkTypeInv => SdkTypeOK
  <2> SUFFICES ASSUME SdkTypeInv PROVE SdkTypeOK
    OBVIOUS
  <2>1. KsTypeOK
    BY DEF SdkTypeInv, TypeInv
  <2>2. /\ sign_buf.drawn \in 0 .. N - 1
        /\ sign_buf.bytes \in [Positions -> 0 .. Base - 1]
    BY SignBufsAreTyped DEF SdkTypeInv, SignBufOK
  <2>3. QED
    BY <2>1, <2>2
    DEF SdkTypeInv, SdkTypeOK, KeysAreKeys, DeviceTypeOK, ReportTypeOK
<1>2. QED
  BY <1>1, SdkTypeInvariance, PTL

(* LowsCalc, called in place by iotex_dev_access_dev_register_confirm: for *)
(* any base, width and odd order, 16, 64 and the order of the curve among  *)
(* them, the s of a confirmation about to leave is the lower of s and      *)
(* N - s, and the marks in a buffer that was not signed are treated alike. *)
THEOREM SignaturesAreLow == SdkSpec => []LowSignature
<1>1. SdkTypeInv => LowSignature
  <2> SUFFICES ASSUME SdkTypeInv, upload.pc = "send",
                      upload.message.kind = "confirm"
               PROVE  ValueOf(sign_buf.bytes) =
                         IF sign_buf.drawn <= N - sign_buf.drawn
                         THEN sign_buf.drawn ELSE N - sign_buf.drawn
    BY DEF LowSignature
  <2>1. PICK r \in 0 .. N - 1 :
           sign_buf = [drawn |-> r, bytes |-> LowsCalc(NumOf(r).num)]
    BY DEF SdkTypeInv, SignBufOK
  <2>2. \A low : low = LowsCalc(NumOf(r).num) =>
           ValueOf(low) = IF r <= N - r THEN r ELSE N - r
    BY LowsCalcIsLower
  <2>3. sign_buf.drawn = r /\ sign_buf.bytes = LowsCalc(NumOf(r).num)
    BY <2>1
  <2>4. QED
    BY <2>2, <2>3
<1>2. QED
  BY <1>1, SdkTypeInvariance, PTL
=============================================================================
