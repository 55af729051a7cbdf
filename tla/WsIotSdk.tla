------------------------------ MODULE WsIotSdk ------------------------------
(***************************************************************************)
(* A device that runs the SDK (src/wsiotsdk.c and                          *)
(* src/application/devnet/iotex_dev_access.c) on the key storage of        *)
(* KeyStorage: at every start it adopts or creates its key, and then       *)
(* reports data, while the MQTT client's task changes the status and the   *)
(* power may fail at any moment.  The slot table, which KeySlots models,   *)
(* is here the one slot that holds the device key, if any does.            *)
(***************************************************************************)
EXTENDS KeyStorage, LowS

CONSTANTS
    DeviceKey,      \* the key id 1 of wsiotsdk.c
    Failures,       \* which calls may fail, see FailureKinds
    Marks,          \* the number that a buffer full of '!' stands for
    AppStatuses     \* what the application tells set_mqtt_status

FailureKinds ==
    { "init",       \* psa_crypto_init: no entropy
      "load",       \* loading a key file that is whole: no memory
      "export",     \* psa_export_public_key of a key in a slot
      "generate",   \* psa_generate_key before it writes anything
      "sign",       \* psa_sign_message with a key in a slot
      "publish" }   \* the application's publish function

Disconnected == "DISCONNECTED"      \* enum IOTEX_MQTT_STATUS
Connected == "CONNECTED"
BindStatusOk == "BIND_STATUS_OK"

ASSUME SdkAssumption ==
    /\ DeviceKey \in Uids
    /\ DeviceKey # None
    /\ Failures \subseteq FailureKinds
    /\ Marks \in 0 .. N - 1
    /\ AppStatuses \subseteq {Disconnected, Connected, BindStatusOk}

VARIABLES
    boot,       \* where the main task is in iotex_wsiotsdk_init
    ready,      \* global_data.initialized of psa_crypto.c
    key_slot,   \* the device key in the slot table, or None
    generated,  \* the key psa_generate_key is making
    g_signkey,  \* DeviceKey, or None for the null key id
    exported,   \* the public key the device shows; None: all zero
    status,     \* dev_ctx->mqtt_ctx.status
    upload,     \* the report under way
    sign_buf,   \* its number s, as drawn and as in the buffer to be sent
    ret,        \* what the last report returned
    sent,       \* history: the last message given to the broker
    shown       \* history: the public keys shown since the device was made

sdkVars == <<boot, ready, key_slot, generated, g_signkey, exported, status,
             upload, sign_buf, ret, sent, shown>>
allVars == <<vars, sdkVars>>

Kinds == {"query", "confirm", "data"}
NoMessage == [kind |-> "none", sign |-> None, pubkey |-> None]
NoUpload == [pc |-> "idle", message |-> NoMessage]
Messages == [kind : Kinds \cup {"none"}, sign : Values \cup {None},
             pubkey : Values \cup {None}]

(* The zeros that the buffer holds until psa_sign_message is called.  The  *)
(* number is followed for confirmations only, whose s is normalised.       *)
NoNumber == [drawn |-> 0, bytes |-> NumOf(0).num]

SdkTypeOK ==
    /\ KsTypeOK
    /\ boot \in {"off", "export", "generate", "storing", "export_again",
                 "running"}
    /\ ready \in BOOLEAN
    /\ key_slot \in Values \cup {None}
    /\ generated \in Values \cup {None}
    /\ g_signkey \in {DeviceKey, None}
    /\ exported \in Values \cup {None}
    /\ status \in {Disconnected, Connected, BindStatusOk}
    /\ upload \in [pc : {"idle", "sign", "send"}, message : Messages]
    /\ sign_buf.drawn \in 0 .. N - 1
    /\ sign_buf.bytes \in [Positions -> 0 .. Base - 1]
    /\ ret \in {"none", "SUCCESS", "BAD_STATUS"}
    /\ sent \in Messages
    /\ shown \subseteq Values

SdkInit ==
    /\ Init
    /\ boot = "off"
    /\ ready = FALSE
    /\ key_slot = None
    /\ generated = None
    /\ g_signkey = DeviceKey
    /\ exported = None
    /\ status = Disconnected
    /\ upload = NoUpload
    /\ sign_buf = NoNumber
    /\ ret = "none"
    /\ sent = NoMessage
    /\ shown = {}

MayFail(kind, value) == {None : f \in Failures \cap {kind}} \cup {value}

(* psa_get_and_lock_key_slot for the device key: from the slot that holds  *)
(* it or from its file.                                                    *)
DeviceKeyFound ==
    IF ~ ready THEN {None}
    ELSE IF key_slot # None THEN {key_slot}
    ELSE UNION {MayFail("load", r.file) : r \in psa_load_persistent_key(DeviceKey)}

-----------------------------------------------------------------------------
(* iotex_wsiotsdk_init and iotex_export_public_key; no status stops them.  *)

PowerOn ==
    /\ boot = "off"
    /\ ready' \in {TRUE} \cup {FALSE : f \in Failures \cap {"init"}}
    /\ boot' = "export"
    /\ UNCHANGED <<key_slot, generated, g_signkey, exported, status, upload,
                   sign_buf, ret, sent, shown>>
    /\ UNCHANGED vars

Export(key, next) ==
    /\ exported' = key
    /\ boot' = IF key = None THEN next ELSE "running"
    /\ shown' = shown \cup ({key} \ {None})

ExportKey ==
    /\ boot = "export"
    /\ key_slot' \in DeviceKeyFound
    /\ \E key \in MayFail("export", key_slot') : Export(key, "generate")
    /\ UNCHANGED <<ready, generated, g_signkey, status, upload, sign_buf, ret,
                   sent>>
    /\ UNCHANGED vars

GenerateKey(f) ==
    /\ boot = "generate"
    /\ ready
    /\ StoreBegin(DeviceKey, f)
    /\ generated' = f
    /\ boot' = "storing"
    /\ UNCHANGED <<ready, key_slot, g_signkey, exported, status, upload, sign_buf,
                   ret, sent, shown>>

(* psa_generate_key clears the key id it was given before all else.        *)
GenerateFails ==
    /\ boot = "generate"
    /\ ~ ready \/ "generate" \in Failures
    /\ g_signkey' = None
    /\ boot' = "export_again"
    /\ UNCHANGED <<ready, key_slot, generated, exported, status, upload, sign_buf,
                   ret, sent, shown>>
    /\ UNCHANGED vars

GenerateDone_StatusIgnored ==   \* mutant: a failed save keeps the new key
    /\ boot = "storing"
    /\ ks_pc = "idle"
    /\ boot' = "export_again"
    /\ key_slot' = generated
    /\ generated' = None
    /\ UNCHANGED <<ready, g_signkey, exported, status, upload, sign_buf, ret, sent,
                   shown>>
    /\ UNCHANGED vars

GenerateDone_Retries ==   \* mutant: waits for a save that succeeds
    /\ boot = "storing"
    /\ ks_pc = "idle"
    /\ ks_ret = "SUCCESS"
    /\ boot' = "export_again"
    /\ key_slot' = generated
    /\ generated' = None
    /\ UNCHANGED <<ready, g_signkey, exported, status, upload, sign_buf, ret, sent,
                   shown>>
    /\ UNCHANGED vars

GenerateDone ==
    /\ boot = "storing"
    /\ ks_pc = "idle"
    /\ boot' = "export_again"
    /\ IF ks_ret = "SUCCESS"
       THEN key_slot' = generated /\ UNCHANGED g_signkey
       ELSE g_signkey' = None /\ UNCHANGED key_slot
    /\ generated' = None
    /\ UNCHANGED <<ready, exported, status, upload, sign_buf, ret, sent, shown>>
    /\ UNCHANGED vars

ExportAgain_Retries ==   \* mutant: without a key to show, one more attempt
    /\ boot = "export_again"
    /\ \E key \in IF g_signkey = None THEN {None}
                                      ELSE MayFail("export", key_slot) :
          Export(key, "generate")
    /\ UNCHANGED <<ready, key_slot, generated, g_signkey, status, upload, sign_buf,
                   ret, sent>>
    /\ UNCHANGED vars

ExportAgain ==
    /\ boot = "export_again"
    /\ \E key \in IF g_signkey = None THEN {None}
                                      ELSE MayFail("export", key_slot) :
          Export(key, "running")
    /\ UNCHANGED <<ready, key_slot, generated, g_signkey, status, upload, sign_buf,
                   ret, sent>>
    /\ UNCHANGED vars

-----------------------------------------------------------------------------
(* Reports: iotex_dev_access_query_dev_register_status,                    *)
(* iotex_dev_access_dev_register_confirm and                               *)
(* iotex_dev_access_data_upload_with_userdata.  The status is looked at    *)
(* once; the status of psa_sign_message is not looked at.                  *)

Needed(kind) == IF kind = "data" THEN BindStatusOk ELSE Connected

ReportBegin(kind) ==
    /\ boot = "running"
    /\ upload = NoUpload
    /\ IF status = Needed(kind)
       THEN /\ upload' = [pc |-> IF kind = "query" THEN "send" ELSE "sign",
                          message |-> [NoMessage EXCEPT !.kind = kind]]
            /\ ret' = "none"
       ELSE ret' = "BAD_STATUS" /\ UNCHANGED upload
    /\ UNCHANGED <<boot, ready, key_slot, generated, g_signkey, exported,
                   status, sign_buf, sent, shown>>
    /\ UNCHANGED vars

(* What psa_sign_message leaves in the buffer for s: on every failure, the *)
(* lookup of the key included, it fills the whole buffer with marks.       *)
Drawn(sign) == IF sign = None THEN {Marks} ELSE 1 .. N - 1

(* A confirmation goes through LowsCalc, signed or not.                    *)
Numbers(sign) ==
    IF upload.message.kind = "confirm"
    THEN {[drawn |-> s, bytes |-> LowsCalc(NumOf(s).num)] : s \in Drawn(sign)}
    ELSE {NoNumber}

Signed(sign) ==
    /\ upload' = [pc |-> "send",
                  message |-> [upload.message EXCEPT !.sign = sign,
                                                     !.pubkey = exported]]
    /\ sign_buf' \in Numbers(sign)

ReportSign ==
    /\ upload.pc = "sign"
    /\ IF g_signkey = None
       THEN Signed(None) /\ UNCHANGED key_slot
       ELSE /\ key_slot' \in DeviceKeyFound
            /\ \E sign \in MayFail("sign", key_slot') : Signed(sign)
    /\ UNCHANGED <<boot, ready, generated, g_signkey, exported, status, ret,
                   sent, shown>>
    /\ UNCHANGED vars

ReportSend ==
    /\ upload.pc = "send"
    /\ \/ sent' = upload.message
       \/ "publish" \in Failures /\ UNCHANGED sent
    /\ upload' = NoUpload
    /\ sign_buf' = NoNumber
    /\ ret' = "SUCCESS"
    /\ UNCHANGED <<boot, ready, key_slot, generated, g_signkey, exported,
                   status, shown>>
    /\ UNCHANGED vars

(* iotex_dev_access_set_mqtt_status, from the task of the MQTT client.     *)
SetMqttStatus(s) ==
    /\ boot = "running"
    /\ status' = s
    /\ UNCHANGED <<boot, ready, key_slot, generated, g_signkey, exported,
                   upload, sign_buf, ret, sent, shown>>
    /\ UNCHANGED vars

(* The application uses persistent keys of its own and the device key      *)
(* loses its slot; no call of the SDK holds it between two reports.        *)
Evict ==
    /\ boot = "running"
    /\ key_slot # None
    /\ key_slot' = None
    /\ UNCHANGED <<boot, ready, generated, g_signkey, exported, status, upload,
                   sign_buf, ret, sent, shown>>
    /\ UNCHANGED vars

-----------------------------------------------------------------------------
(* Everything but the flash is lost; the history stays.                    *)
PowerFailure ==
    /\ boot # "off"
    /\ Crash
    /\ boot' = "off"
    /\ ready' = FALSE
    /\ key_slot' = None
    /\ generated' = None
    /\ g_signkey' = DeviceKey
    /\ exported' = None
    /\ status' = Disconnected
    /\ upload' = NoUpload
    /\ sign_buf' = NoNumber
    /\ ret' = "none"
    /\ UNCHANGED <<sent, shown>>

Storage == (ItsProgress \/ StoreVerify \/ StoreCleanup) /\ UNCHANGED sdkVars

Boot ==
    \/ PowerOn \/ ExportKey \/ GenerateFails \/ GenerateDone \/ ExportAgain
    \/ \E f \in Values : GenerateKey(f)
    \/ Storage

Report == (\E kind \in Kinds : ReportBegin(kind)) \/ ReportSign \/ ReportSend

SdkNext ==
    \/ Boot \/ Report \/ Evict \/ PowerFailure
    \/ \E s \in AppStatuses : SetMqttStatus(s)

SdkSpec == SdkInit /\ [][SdkNext]_allVars

(* The main task is scheduled while the power is on.                       *)
FairSdkSpec == SdkSpec /\ WF_allVars(Boot)

-----------------------------------------------------------------------------
(* A device never changes its identity: whatever failed, and wherever the  *)
(* power went, every start that shows a public key shows the same one      *)
(* (iotex_export_public_key).                                              *)
IdentityStable == \A k1, k2 \in shown : k1 = k2

(* The key a device shows is the one its flash would give it back after a  *)
(* power failure now: it is never shown before it is saved.                *)
ShownKeyIsSaved == \A key \in shown : EntryOf(durable[DeviceKey]) = key

(* A report that carries a signature and a public key carries the          *)
(* signature of that key, although the two come from different places, a   *)
(* slot or the flash and the copy made at start.                           *)
SignatureFitsKey ==
    sent.sign # None /\ sent.pubkey # None => sent.sign = sent.pubkey

(* The s of a confirmation that is about to leave is the lower of the two  *)
(* that verify, s and N - s, for every s including those at half of the    *)
(* order and those with zeros at the top; the marks in a buffer that was   *)
(* not signed are taken for a number and treated alike (LowsCalc, called   *)
(* in place by dev_register_confirm).                                      *)
LowSignature ==
    upload.pc = "send" /\ upload.message.kind = "confirm" =>
        LET s == sign_buf.drawn IN
        ValueOf(sign_buf.bytes) = IF s <= N - s THEN s ELSE N - s

(* Whatever fails, a start comes to its end, or the power fails first.     *)
StartCompletes == boot = "export" ~> boot \in {"running", "off"}

(* A bound for that end: each call of the start, those of the storage      *)
(* included, brings it nearer, and nothing but a power failure takes it    *)
(* back (iotex_wsiotsdk_init makes two attempts and no third).             *)
ItsStepsLeft == [idle |-> 0, data_set |-> 1, header_committed |-> 2,
                 header_set |-> 3, opened |-> 4, erasing |-> 1]
KsStepsLeft == [idle |-> 0, store_cleanup |-> 1, store_set |-> 3]
BootStepsLeft == [running |-> 0, export_again |-> 1, storing |-> 2,
                  generate |-> 10, export |-> 11, off |-> 12]
StepsLeft == BootStepsLeft[boot] + KsStepsLeft[ks_pc] + ItsStepsLeft[its_pc]

StartMovesOn ==
    [][/\ Boot => StepsLeft' < StepsLeft
       /\ StepsLeft' > StepsLeft => boot' = "off"]_allVars

(* A start that shows a public key can sign with it: psa_sign_message      *)
(* finds the key in the slot, or whole in its file when the slot was taken *)
(* away, so that only a loading or a signing that fails just then can      *)
(* leave the signature beside a public key empty                           *)
(* (iotex_dev_access_data_upload_with_userdata looks at no status).        *)
ShownKeyCanSign ==
    exported # None => /\ ready
                       /\ g_signkey = DeviceKey
                       /\ key_slot \in {None, exported}
                       /\ EntryOf(nvs[DeviceKey]) = exported

-----------------------------------------------------------------------------
(* What the flash would say of the device's key after a power failure now. *)
Identity ==
    LET file == EntryOf(durable[DeviceKey]) IN
    IF file \in Values THEN file ELSE None

Device ==
    INSTANCE DeviceIdentity WITH
        Identities <- Values,
        identity <- Identity,
        announced <- shown,
        signer <- sent.sign,
        claimed <- sent.pubkey

(* The device over its key storage keeps what DeviceIdentity promises: no  *)
(* step and no power failure takes an identity away again or replaces it,  *)
(* and it announces and signs with no other.                               *)
ImplementsDeviceIdentity == Device!DeviceSpec

-----------------------------------------------------------------------------
(* Every report that should be signed verifies, as the receiving side      *)
(* asserts (doc/WASM_Development_Notes(RUST).md, handle).                  *)
ReportsVerify ==
    sent.kind \in {"confirm", "data"} =>
        sent.sign # None /\ sent.sign = sent.pubkey
=============================================================================
