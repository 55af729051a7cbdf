---------------------------- MODULE KeyDerivation ----------------------------
(***************************************************************************)
(* One key derivation operation of the PSA core (psa_crypto.c): HKDF, its  *)
(* extract and expand halves, and the TLS 1.2 functions.  The application  *)
(* passes inputs one by one and then reads the output in pieces of any     *)
(* length, as bytes or as keys.  An input is named by its step and its     *)
(* length, and a block of output by what went into its HMAC.               *)
(***************************************************************************)
EXTENDS Integers, Sequences, FiniteSets

CONSTANTS
    HashLength,     \* bytes of a hash, and so of a block of output
    LastBlock,      \* the last value of block_number, 0xff
    Lengths,        \* lengths of inputs
    PskMaxSize,     \* PSA_TLS12_PSK_TO_MS_PSK_MAX_SIZE
    ReadLengths     \* lengths of outputs

ASSUME KdfAssumption ==
    /\ HashLength \in Nat \ {0}
    /\ LastBlock \in Nat \ {0}
    /\ Lengths \subseteq Nat
    /\ ReadLengths \subseteq Nat

VARIABLES
    op,         \* the operation object
    call,       \* the output call under way
    held,       \* blocks of memory allocated for inputs and not freed
    given,      \* history: the inputs accepted since the operation was clear
    out,        \* history: the bytes given out since then
    allowed,    \* history: how many bytes the application may get in all
    failed,     \* history: an output call has failed since the setup
    made        \* history: the kinds of secret of the keys made since then

vars == <<op, call, held, given, out, allowed, failed, made>>

-----------------------------------------------------------------------------
Hkdfs == {"HKDF", "HKDF_EXTRACT", "HKDF_EXPAND"}
Tls12s == {"TLS12_PRF", "TLS12_PSK_TO_MS"}
NoAlg == "none"
Steps == {"SECRET", "OTHER_SECRET", "LABEL", "SALT", "INFO", "SEED"}

(* The contents of an input; those of no bytes are the same for all steps. *)
Value(step, n) == IF n = 0 THEN <<>> ELSE <<[step |-> step, length |-> n]>>

(* chain holds the numbers of the blocks that a block was computed over,   *)
(* its own included.                                                       *)
NoBlock == [key |-> <<>>, text |-> <<>>, chain |-> <<>>]

(* The fields of psa_hkdf_key_derivation_t and of                          *)
(* psa_tls12_prf_key_derivation_t, of which an operation has one.  key is  *)
(* prk or secret; left is left_in_block, hash_length - offset_in_block.    *)
Blank ==
    [alg |-> NoAlg, agreement |-> FALSE, can_output_key |-> FALSE,
     capacity |-> 0, state |-> "INIT", salt |-> <<>>, info |-> <<>>,
     info_set |-> FALSE, seed |-> <<>>, other_secret |-> <<>>,
     label |-> <<>>, key |-> <<>>, block_number |-> 0, left |-> 0,
     block |-> NoBlock]

Idle == [pc |-> "idle", want |-> 0, for_key |-> FALSE, bytes |-> <<>>]

(* from_key: the secret was a key or a shared secret; offered: a key was   *)
(* passed as the secret of an operation that was not set up.               *)
NothingGiven == [lengths |-> [step \in Steps |-> -1], from_key |-> FALSE,
                 offered |-> FALSE]

Init ==
    /\ op = Blank
    /\ call = Idle
    /\ held = 0
    /\ given = NothingGiven
    /\ out = <<>>
    /\ allowed = 0
    /\ failed = FALSE
    /\ made = {}

(* psa_key_derivation_setup.  Refused algorithms change nothing.  Of an    *)
(* unused operation only the context is cleared.                           *)
BlocksOf(alg) == IF alg = "HKDF_EXTRACT" THEN 1 ELSE LastBlock
MaxCapacity_OneMore(alg) ==   \* mutant: the blocks are counted from 0
    (BlocksOf(alg) + 1) * HashLength
MaxCapacity(alg) == BlocksOf(alg) * HashLength

Setup(alg, agreement) ==
    /\ op.alg = NoAlg
    /\ op' = [Blank EXCEPT !.alg = alg, !.agreement = agreement,
                           !.capacity = MaxCapacity(alg),
                           !.can_output_key = op.can_output_key]
    /\ allowed' = MaxCapacity(alg)
    /\ UNCHANGED <<call, held, given, out, failed, made>>

(* The pointers that psa_key_derivation_abort frees, by algorithm.         *)
Owned(alg) == IF alg \in Hkdfs THEN {"info"}
                               ELSE {"key", "seed", "label", "other_secret"}
Pointers(o) == {f \in Owned(o.alg) : o[f] # <<>>}
Freed(o) == Cardinality(Pointers(o))

Abort ==
    /\ op' = Blank
    /\ held' = held - Freed(op)
    /\ given' = NothingGiven
    /\ out' = <<>>
    /\ allowed' = 0
    /\ failed' = FALSE
    /\ made' = {}
    /\ UNCHANGED call

-----------------------------------------------------------------------------
(* Inputs.  Each operator is the operation after an input that is accepted *)
(* in its state, or nothing.                                               *)

When(accepted, o) == {o : x \in {TRUE} \cap {accepted}}

HkdfSalt(o, n) ==
    When(o.alg # "HKDF_EXPAND" /\ o.state = "INIT",
         [o EXCEPT !.salt = Value("SALT", n), !.state = "STARTED"])

HkdfSecret(o, n) ==
    LET secret == Value("SECRET", n)
        expand == o.alg = "HKDF_EXPAND"
        extract == o.alg = "HKDF_EXTRACT"
        prk == IF expand THEN secret ELSE <<o.salt, secret>>
    IN  When(IF expand THEN o.state = "INIT" /\ n = HashLength
             ELSE o.state = "STARTED" \/ (o.state = "INIT" /\ ~extract),
             [o EXCEPT !.key = prk, !.state = "KEYED", !.block_number = 0,
                       !.left = IF extract THEN HashLength ELSE 0,
                       !.block = IF extract THEN [NoBlock EXCEPT !.key = prk]
                                            ELSE @])

HkdfInfo_Again(o, n) ==   \* mutant: info_set is not looked at
    When(/\ o.alg # "HKDF_EXTRACT"
         /\ o.alg = "HKDF_EXPAND" => o.state # "INIT"
         /\ o.state # "OUTPUT",
         [o EXCEPT !.info = Value("INFO", n), !.info_set = TRUE])

HkdfInfo(o, n) ==
    When(/\ o.alg # "HKDF_EXTRACT"
         /\ o.alg = "HKDF_EXPAND" => o.state # "INIT"
         /\ o.state # "OUTPUT"
         /\ ~o.info_set,
         [o EXCEPT !.info = Value("INFO", n), !.info_set = TRUE])

Tls12Seed(o, n) ==
    When(o.state = "INIT",
         [o EXCEPT !.seed = Value("SEED", n), !.state = "SEED_SET"])

Tls12OtherSecret(o, n) ==
    When(o.alg = "TLS12_PSK_TO_MS" /\ o.state = "SEED_SET",
         [o EXCEPT !.other_secret = Value("OTHER_SECRET", n),
                   !.state = "OTHER_KEY_SET"])

(* The premaster secret of PSK to MS is the other secret, or as many zero  *)
(* bytes as the key has, and the key, each with its length before it.      *)
Tls12Secret(o, n) ==
    LET psk_to_ms == o.alg = "TLS12_PSK_TO_MS"
        other == IF o.state = "OTHER_KEY_SET" THEN o.other_secret
                                              ELSE Value("zeros", n)
        psk == Value("SECRET", n)
    IN  When(/\ o.state \in {"SEED_SET", "OTHER_KEY_SET"}
             /\ psk_to_ms => n <= PskMaxSize,
             [o EXCEPT !.key = IF psk_to_ms THEN <<other, psk>> ELSE psk,
                       !.state = "KEY_SET"])

Tls12Label(o, n) ==
    When(o.state = "KEY_SET",
         [o EXCEPT !.label = Value("LABEL", n), !.state = "LABEL_SET"])

Accepted(o, step, n) ==
    CASE o.alg \in Hkdfs /\ step = "SALT" -> HkdfSalt(o, n)
      [] o.alg \in Hkdfs /\ step = "SECRET" -> HkdfSecret(o, n)
      [] o.alg \in Hkdfs /\ step = "INFO" -> HkdfInfo(o, n)
      [] o.alg \in Tls12s /\ step = "SEED" -> Tls12Seed(o, n)
      [] o.alg \in Tls12s /\ step = "OTHER_SECRET" -> Tls12OtherSecret(o, n)
      [] o.alg \in Tls12s /\ step = "SECRET" -> Tls12Secret(o, n)
      [] o.alg \in Tls12s /\ step = "LABEL" -> Tls12Label(o, n)
      [] OTHER -> {}

(* psa_key_derivation_check_input_type; "NONE" is an input passed as bytes *)
TypeFits(step, key_type) ==
    key_type \in IF step \in {"SECRET", "OTHER_SECRET"}
                 THEN {"DERIVE", "NONE"} ELSE {"RAW_DATA", "NONE"}

Allocates(alg, step, n) ==
    \/ alg \in Hkdfs /\ step = "INFO" /\ n # 0
    \/ alg \in Tls12s /\ n # 0
    \/ alg = "TLS12_PSK_TO_MS" /\ step = "SECRET"

Unlocks_AnyStep(step, is_key) == is_key     \* mutant: the step is not looked at

(* A key passed as the secret unlocks the output of keys.                  *)
Unlocks(step, is_key) == is_key /\ step = "SECRET"

UsesHmac(alg, step) ==
    alg \in {"HKDF", "HKDF_EXTRACT"} /\ step \in {"SALT", "SECRET"}

(* psa_key_derivation_input_internal: an input that is refused, or fails,  *)
(* aborts the operation.  But an input of the right type to an operation   *)
(* that is not set up is refused without an abort, and by then a key has   *)
(* unlocked.                                                               *)
Input(step, key_type, n, is_key) ==
    \/ /\ TypeFits(step, key_type)
       /\ \E o \in Accepted(op, step, n) :
            op' = [o EXCEPT !.can_output_key = @ \/ Unlocks(step, is_key)]
       /\ held' = held + IF Allocates(op.alg, step, n) THEN 1 ELSE 0
       /\ given' = [given EXCEPT !.lengths[step] = n,
                                 !.from_key = IF step = "SECRET" THEN is_key ELSE @]
       /\ UNCHANGED <<call, out, allowed, failed, made>>
    \/ /\ \/ ~TypeFits(step, key_type)
          \/ op.alg # NoAlg /\ Accepted(op, step, n) = {}
          \/ Allocates(op.alg, step, n)
          \/ UsesHmac(op.alg, step)
       /\ Abort
    \/ /\ TypeFits(step, key_type)
       /\ op.alg = NoAlg
       /\ op' = [op EXCEPT !.can_output_key = @ \/ Unlocks(step, is_key)]
       /\ given' = [given EXCEPT !.offered = @ \/ (is_key /\ step = "SECRET")]
       /\ UNCHANGED <<call, held, out, allowed, failed, made>>

InputBytes(step, n) == Input(step, "NONE", n, FALSE)

(* A key that cannot be had aborts the operation too.  Keys are not empty. *)
InputKey(step, key_type, n) ==
    n # 0 /\ (Input(step, key_type, n, TRUE) \/ Abort)

(* A shared secret passes for a key to derive from.  An operation that was *)
(* not set up for it, or a private key that cannot be had, is refused and  *)
(* the operation goes on.                                                  *)
KeyAgreement(step, n) ==
    /\ op.agreement
    /\ n # 0
    /\ Input(step, "DERIVE", n, TRUE) \/ Abort

-----------------------------------------------------------------------------
(* Output.                                                                 *)

SetCapacity_NotStored(capacity) ==    \* mutant: only checks it
    /\ op.alg # NoAlg
    /\ capacity <= op.capacity
    /\ allowed' = Len(out) + capacity
    /\ UNCHANGED <<op, call, held, given, out, failed, made>>

SetCapacity(capacity) ==
    /\ op.alg # NoAlg
    /\ capacity <= op.capacity
    /\ op' = [op EXCEPT !.capacity = capacity]
    /\ allowed' = Len(out) + capacity
    /\ UNCHANGED <<call, held, given, out, failed, made>>

OutputFails_KeepsContext ==   \* mutant: only the capacity is taken back
    /\ op' = [op EXCEPT !.capacity = @ + call.want]
    /\ call' = Idle
    /\ given' = NothingGiven
    /\ out' = <<>>
    /\ allowed' = 0
    /\ failed' = TRUE
    /\ made' = {}
    /\ UNCHANGED held

(* A failed output wipes the operation but for its algorithm.              *)
OutputFails ==
    /\ op' = [Blank EXCEPT !.alg = op.alg, !.agreement = op.agreement]
    /\ held' = held - Freed(op)
    /\ call' = Idle
    /\ given' = NothingGiven
    /\ out' = <<>>
    /\ allowed' = 0
    /\ failed' = TRUE
    /\ made' = {}

Readable_NoInfo(o) ==     \* mutant: info_set is not looked at
    IF o.alg \in Hkdfs THEN o.state \in {"KEYED", "OUTPUT"}
                       ELSE o.state \in {"LABEL_SET", "OUTPUT"}

Readable(o) ==
    IF o.alg \in Hkdfs
    THEN /\ o.state \in {"KEYED", "OUTPUT"}
         /\ o.info_set \/ o.alg = "HKDF_EXTRACT"
    ELSE o.state \in {"LABEL_SET", "OUTPUT"}

OutputBegin_Unchecked(n, for_key) ==  \* mutant: no check of the capacity
    /\ op.alg # NoAlg
    /\ Readable(op)
    /\ op' = [op EXCEPT !.capacity = @ - n, !.state = "OUTPUT"]
    /\ call' = [pc |-> "read", want |-> n, for_key |-> for_key, bytes |-> <<>>]
    /\ UNCHANGED <<held, given, out, allowed, failed, made>>

OutputBegin(n, for_key) ==
    /\ op.alg # NoAlg
    /\ IF n <= op.capacity /\ Readable(op)
       THEN /\ op.capacity # 0
            /\ op' = [op EXCEPT !.capacity = @ - n, !.state = "OUTPUT"]
            /\ call' = [pc |-> "read", want |-> n, for_key |-> for_key,
                        bytes |-> <<>>]
            /\ UNCHANGED <<held, given, out, allowed, failed, made>>
       ELSE (n # 0 \/ op.capacity # 0) /\ OutputFails

OutputBytes(n) == OutputBegin(n, FALSE)

(* psa_key_derivation_output_key: a slot was found for the key.            *)
OutputKey(n) ==
    /\ n # 0
    /\ op.can_output_key
    /\ OutputBegin(n, TRUE)

Lesser(m, n) == IF m < n THEN m ELSE n

(* The loops of hkdf_read and tls12_prf_read: what is left of the block is *)
(* copied, then another block is made.                                     *)
CopyBytes ==
    /\ call.pc = "read"
    /\ call.want # 0
    /\ op.left # 0
    /\ LET n == Lesser(op.left, call.want)
           first == HashLength - op.left
       IN  /\ op' = [op EXCEPT !.left = @ - n]
           /\ call' = [call EXCEPT
                        !.want = @ - n,
                        !.bytes = @ \o [i \in 1 .. n |->
                                    [block |-> op.block, offset |-> first + i]]]
    /\ UNCHANGED <<held, given, out, allowed, failed, made>>

AtBlockEnd == call.pc = "read" /\ call.want # 0 /\ op.left = 0

(* 0xff, or 0 for the one block of HKDF-Extract.                           *)
LastBlockNumber(alg) == IF alg = "HKDF_EXTRACT" THEN 0 ELSE LastBlock

Text(o) == IF o.alg \in Hkdfs THEN o.info ELSE o.label \o o.seed

NextBlock_Unchained ==    \* mutant: the block before is not fed
    /\ AtBlockEnd
    /\ op.block_number # LastBlockNumber(op.alg)
    /\ LET n == op.block_number + 1
       IN  op' = [op EXCEPT !.block_number = n, !.left = HashLength,
                            !.block = [key |-> op.key, text |-> Text(op),
                                       chain |-> <<n>>]]
    /\ UNCHANGED <<call, held, given, out, allowed, failed, made>>

NextBlock ==
    /\ AtBlockEnd
    /\ op.block_number # LastBlockNumber(op.alg)
    /\ LET n == op.block_number + 1
           chain == IF n = 1 THEN <<1>> ELSE Append(op.block.chain, n)
       IN  op' = [op EXCEPT !.block_number = n, !.left = HashLength,
                            !.block = [key |-> op.key, text |-> Text(op),
                                       chain |-> chain]]
    /\ UNCHANGED <<call, held, given, out, allowed, failed, made>>

(* HMAC fails, or there is no next block.                                  *)
BlockFails == AtBlockEnd /\ OutputFails

OutputDone ==
    /\ call.pc = "read"
    /\ call.want = 0
    /\ out' = out \o call.bytes
    /\ call' = IF call.for_key THEN [call EXCEPT !.pc = "drawn"] ELSE Idle
    /\ UNCHANGED <<op, held, given, allowed, failed, made>>

(* The bytes make a key, unless it cannot be stored; or, for a key on a    *)
(* curve, they are no key, and as many are drawn again.                    *)
Secret ==
    IF given.from_key THEN "key" ELSE IF given.offered THEN "offered" ELSE "bytes"

KeyDone ==
    /\ call.pc = "drawn"
    /\ call' = Idle
    /\ made' \in {made, made \cup {Secret}}
    /\ UNCHANGED <<op, held, given, out, allowed, failed>>

Redraw == call.pc = "drawn" /\ OutputBegin(Len(call.bytes), TRUE)

-----------------------------------------------------------------------------
Application ==
    \/ \E alg \in Hkdfs \cup Tls12s, agreement \in BOOLEAN :
            Setup(alg, agreement)
    \/ \E step \in Steps, n \in Lengths :
            \/ InputBytes(step, n)
            \/ \E type \in {"DERIVE", "RAW_DATA"} : InputKey(step, type, n)
            \/ KeyAgreement(step, n)
    \/ \E n \in ReadLengths : SetCapacity(n) \/ OutputBytes(n) \/ OutputKey(n)
    \/ Abort

Next ==
    \/ call.pc = "idle" /\ Application
    \/ CopyBytes \/ NextBlock \/ BlockFails \/ OutputDone \/ KeyDone \/ Redraw

Spec == Init /\ [][Next]_vars

-----------------------------------------------------------------------------
Datum == Seq([step : Steps \cup {"zeros"}, length : Nat])
Block == [key : (Datum \X Datum) \cup Datum, text : Datum, chain : Seq(Nat)]
Byte == [block : Block, offset : 1 .. HashLength]

Operation ==
    [alg : Hkdfs \cup Tls12s \cup {NoAlg}, agreement : BOOLEAN,
     can_output_key : BOOLEAN, capacity : Nat,
     state : {"INIT", "STARTED", "KEYED", "SEED_SET", "OTHER_KEY_SET",
              "KEY_SET", "LABEL_SET", "OUTPUT"},
     salt : Datum, info : Datum, info_set : BOOLEAN, seed : Datum,
     other_secret : Datum, label : Datum, key : (Datum \X Datum) \cup Datum,
     block_number : 0 .. LastBlock, left : 0 .. HashLength, block : Block]

TypeOK ==
    /\ op \in Operation
    /\ call \in [pc : {"idle", "read", "drawn"}, want : Nat,
                 for_key : BOOLEAN, bytes : Seq(Byte)]
    /\ held \in Nat
    /\ given \in [lengths : [Steps -> Lengths \cup {-1}], from_key : BOOLEAN,
                  offered : BOOLEAN]
    /\ out \in Seq(Byte)
    /\ allowed \in Nat
    /\ failed \in BOOLEAN
    /\ made \subseteq {"key", "offered", "bytes"}

(* The output as RFC 5869 and RFC 5246 define it for the inputs accepted.  *)
GivenValue(step) ==
    IF given.lengths[step] = -1 THEN <<>> ELSE Value(step, given.lengths[step])

StreamKey ==
    CASE op.alg \in {"HKDF", "HKDF_EXTRACT"} ->
            <<GivenValue("SALT"), GivenValue("SECRET")>>
      [] op.alg = "TLS12_PSK_TO_MS" ->
            <<IF given.lengths["OTHER_SECRET"] = -1
              THEN Value("zeros", given.lengths["SECRET"])
              ELSE GivenValue("OTHER_SECRET"),
              GivenValue("SECRET")>>
      [] OTHER -> GivenValue("SECRET")

StreamBlock(n) ==
    CASE op.alg = "HKDF_EXTRACT" -> [NoBlock EXCEPT !.key = StreamKey]
      [] op.alg \in {"HKDF", "HKDF_EXPAND"} ->
            [key |-> StreamKey, text |-> GivenValue("INFO"),
             chain |-> [i \in 1 .. n |-> i]]
      [] OTHER ->
            [key |-> StreamKey, text |-> GivenValue("LABEL") \o GivenValue("SEED"),
             chain |-> [i \in 1 .. n |-> i]]

(* However the reads are cut, and whatever failed between them, the bytes  *)
(* that psa_key_derivation_output_bytes and _output_key hand out are the   *)
(* stream of the inputs: none is left out, given twice or out of place.    *)
OutputIsStream ==
    \A i \in 1 .. Len(out) :
        out[i] = [block |-> StreamBlock(((i - 1) \div HashLength) + 1),
                  offset |-> ((i - 1) % HashLength) + 1]

(* Nothing is derived before every input that the algorithm needs was      *)
(* accepted (the states of psa_hkdf_input and psa_tls12_prf_input).        *)
Mandatory(alg) ==
    CASE alg = "HKDF_EXTRACT" -> {"SALT", "SECRET"}
      [] alg \in {"HKDF", "HKDF_EXPAND"} -> {"SECRET", "INFO"}
      [] OTHER -> {"SEED", "SECRET", "LABEL"}

OutputNeedsInputs ==
    out # <<>> => \A step \in Mandatory(op.alg) : given.lengths[step] # -1

(* An operation never gives more than the capacity that its application    *)
(* left it (psa_key_derivation_set_capacity), in however many reads.       *)
WithinAllowance == Len(out) <= allowed

(* "We can't be wanting more output after the last block, otherwise the    *)
(* capacity check would have prevented this call": the refusal of another  *)
(* block in hkdf_read and in tls12_prf_generate_next_block is never used.  *)
LastBlockSuffices == ~(AtBlockEnd /\ op.block_number = LastBlockNumber(op.alg))

(* No key is made of an operation whose secret was bytes, unless a key was *)
(* offered to it too, before its setup: inputs given again, failed outputs *)
(* and aborts never leave the permission behind (can_output_key).          *)
KeysNeedKeys == "bytes" \notin made

(* "The input to that step must be provided with                           *)
(* psa_key_derivation_input_key" (psa/crypto.h, of psa_key_derivation_     *)
(* output_key and the secret): a key is made of a secret that is a key.    *)
KeysComeFromKeys == made \subseteq {"key"}

(* The operation owns every block of memory it allocated, so that abort    *)
(* frees all of them and frees none twice.                                 *)
InputsAreOwned == held = Freed(op)

(* An output that failed is the last of its operation, although the        *)
(* algorithm stays and inputs are taken again.                             *)
NothingAfterFailure == failed => out = <<>>
=============================================================================
