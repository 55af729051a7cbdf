----------------------------- MODULE CipherOps ------------------------------
(***************************************************************************)
(* Multi-part cipher operations: the state checks of psa_cipher_xxx        *)
(* (psa_crypto.c), the block buffering of psa_crypto_cipher.c and          *)
(* iotex_cipher_xxx (psa_crypto_porting.c), and AES over TinyCrypt.        *)
(*                                                                         *)
(* A byte is its position in the message.  A byte of output records which  *)
(* input byte it was made from, the key it was made under, the number of   *)
(* the block it belongs to (what it is chained to in CBC, the counter in   *)
(* CTR) and its offset in it; it is the right one when all four are.       *)
(* Padding stands at the positions after the message.                      *)
(*                                                                         *)
(* A call that fails, for whatever reason, does what psa_cipher_abort does *)
(* and nothing else: CipherAbort stands for all of them.  What the context *)
(* of an inactive operation holds is never read, for the setup clears it:  *)
(* it is zero here.                                                        *)
(***************************************************************************)
EXTENDS Heap

CONSTANTS
    CipherObjects,  \* the operation objects of the application
    Keys,           \* AES-128 keys that the policy allows for these calls
    Algs,           \* the algorithms used, a subset of Algorithms
    BlockSize,      \* 16 for AES
    MaxMessage      \* bound on the length of a message

Algorithms == {"ECB_NO_PADDING", "CBC_NO_PADDING", "CBC_PKCS7", "CTR"}
NoKey == "none"

ASSUME CipherAssumption ==
    /\ BlockSize \in Nat \ {0}
    /\ MaxMessage \in Nat
    /\ Algs \subseteq Algorithms
    /\ NoKey \notin Keys

VARIABLES
    cipher,         \* cipher[o]: the operation object, and its message
    s               \* the key in the one AES key schedule of the porting layer

cipherVars == <<cipher, s>>

OutputByte == [pos : Nat, key : Keys \cup {NoKey}, blk : Nat,
               off : 0 .. BlockSize - 1]

(* id, iv_set and iv_required belong to the core; alg, enc, unprocessed    *)
(* and iv (blocks chained or counted so far) to the cipher context.  The   *)
(* rest is the application's: its key, the length of the plaintext behind  *)
(* a padded ciphertext (of any other input: the most it may pass), the     *)
(* bytes passed and received, whether a fragment began inside a block, and *)
(* whether the operation ended with success.                               *)
CipherOperation ==
    [id : BOOLEAN, iv_set : BOOLEAN, iv_required : BOOLEAN,
     alg : Algorithms, enc : BOOLEAN,
     unprocessed : Seq(Nat), iv : Nat,
     key : Keys \cup {NoKey}, len : Nat, fed : Nat, out : Seq(OutputByte),
     cut : BOOLEAN, finished : BOOLEAN]

CipherZero ==
    [id |-> FALSE, iv_set |-> FALSE, iv_required |-> FALSE,
     alg |-> "ECB_NO_PADDING", enc |-> FALSE, unprocessed |-> <<>>, iv |-> 0,
     key |-> NoKey, len |-> 0, fed |-> 0, out |-> <<>>,
     cut |-> FALSE, finished |-> FALSE]

CipherInit ==
    /\ cipher = [o \in CipherObjects |-> CipherZero]
    /\ s = NoKey

PaddedLength(n) == (n \div BlockSize + 1) * BlockSize

(* The bytes that the application has to pass.                             *)
InputLength(c) ==
    IF c.alg = "CBC_PKCS7" /\ ~c.enc THEN PaddedLength(c.len) ELSE c.len

(***************************************************************************)
(* The modes, over the shared key schedule.                                *)
(***************************************************************************)

(* Encryption reads the output buffer in place of the input: the byte it   *)
(* is made from, 0, is whatever the application's buffer held.             *)
EcbBytes(c, bytes) ==
    [i \in DOMAIN bytes |->
        [pos |-> IF c.enc THEN 0 ELSE bytes[i], key |-> s, blk |-> 0,
         off |-> (i - 1) % BlockSize]]

CbcBytes_NoWrap(c, bytes) ==    \* mutant: the offset runs on past a block
    [i \in DOMAIN bytes |->
        [pos |-> bytes[i], key |-> s, blk |-> c.iv + (i - 1) \div BlockSize,
         off |-> i - 1]]

CbcBytes(c, bytes) ==
    [i \in DOMAIN bytes |->
        [pos |-> bytes[i], key |-> s, blk |-> c.iv + (i - 1) \div BlockSize,
         off |-> (i - 1) % BlockSize]]

(* TinyCrypt takes a new key stream block at the start of every call.      *)
CtrBytes(c, bytes) == CbcBytes(c, bytes)

Processed_SameIv(c, out, unprocessed, blocks) ==    \* mutant: no chaining
    [c EXCEPT !.out = @ \o out, !.unprocessed = unprocessed]

Processed(c, out, unprocessed, blocks) ==
    [c EXCEPT !.out = @ \o out, !.unprocessed = unprocessed, !.iv = @ + blocks]

(***************************************************************************)
(* iotex_psa_cipher_update: what a fragment does to the context.           *)
(***************************************************************************)
EcbUpdate(c, input) ==
    LET all == c.unprocessed \o input
        whole == (Len(all) \div BlockSize) * BlockSize
    IN  Processed(c, EcbBytes(c, SubSeq(all, 1, whole)),
                  SubSeq(all, whole + 1, Len(all)), 0)

(* A padded decryption keeps the last whole block back: it may be padding. *)
HoldsBack(c) == c.alg = "CBC_PKCS7" /\ ~c.enc

CachesFragment_AtRoom(c, n) ==  \* mutant: every mode caches a full block
    n <= BlockSize - Len(c.unprocessed)

CachesFragment(c, n) ==
    LET room == BlockSize - Len(c.unprocessed)
    IN  IF HoldsBack(c) THEN n <= room ELSE n < room

KeptLength_NoHoldBack(c, n) ==  \* mutant: only partial blocks are kept
    n % BlockSize

KeptLength(c, n) ==
    IF HoldsBack(c) /\ n > 0 /\ n % BlockSize = 0
    THEN BlockSize
    ELSE n % BlockSize

CbcUpdate(c, input) ==
    LET room == IF c.unprocessed = <<>> THEN 0
                ELSE BlockSize - Len(c.unprocessed)
        first == c.unprocessed \o SubSeq(input, 1, room)
        rest == SubSeq(input, room + 1, Len(input))
        body == SubSeq(rest, 1, Len(rest) - KeptLength(c, Len(rest)))
        kept == SubSeq(rest, Len(body) + 1, Len(rest))
        blocks == first \o body
    IN  IF CachesFragment(c, Len(input))
        THEN [c EXCEPT !.unprocessed = @ \o input]
        ELSE Processed(c, CbcBytes(c, blocks), kept,
                       Len(blocks) \div BlockSize)

CtrUpdate_StartsOver(c, input) ==   \* mutant: the counter is not stored
    Processed(c, CtrBytes(c, input), <<>>, 0)

CtrUpdate(c, input) ==
    Processed(c, CtrBytes(c, input), <<>>,
              (Len(input) + BlockSize - 1) \div BlockSize)

UpdateContext(c, input) ==
    CASE c.alg = "ECB_NO_PADDING" -> EcbUpdate(c, input)
      [] c.alg = "CTR" -> CtrUpdate(c, input)
      [] OTHER -> CbcUpdate(c, input)

(***************************************************************************)
(* iotex_psa_cipher_finish: the outputs it may add, none when it fails.    *)
(***************************************************************************)

(* The output that the first n bytes of the message stand for.             *)
Right(c, n) ==
    [q \in 1 .. n |->
        [pos |-> q, key |-> c.key,
         blk |-> IF c.alg = "ECB_NO_PADDING" THEN 0
                 ELSE (q - 1) \div BlockSize,
         off |-> (q - 1) % BlockSize]]

(* get_pkcs_padding: a padding length that is not below the block size     *)
(* counts as no padding.  The last byte of a block that is not the end of  *)
(* the padded message, or was made wrongly, may have any value.            *)
DataLengths(c, block) ==
    LET padded == PaddedLength(c.len)
        padding == padded - c.len
        last == SubSeq(Right(c, padded), padded - BlockSize + 1, padded)
    IN  CASE block # last -> 1 .. BlockSize
          [] padding >= BlockSize -> {BlockSize}
          [] OTHER -> {BlockSize - padding}

AddPadding_LongCount(c) ==      \* mutant: counts one byte too many
    [i \in 1 .. BlockSize |->
        IF i <= Len(c.unprocessed) THEN c.unprocessed[i]
        ELSE c.fed + i - Len(c.unprocessed) + 1]

AddPadding(c) ==
    [i \in 1 .. BlockSize |->
        IF i <= Len(c.unprocessed) THEN c.unprocessed[i]
        ELSE c.fed + i - Len(c.unprocessed)]

FinishOutputs(c) ==
    CASE c.alg = "CTR" -> {<<>>}
      [] c.alg \in {"ECB_NO_PADDING", "CBC_NO_PADDING"} ->
            IF c.unprocessed = <<>> THEN {<<>>} ELSE {}
      [] c.alg = "CBC_PKCS7" /\ c.enc -> {CbcBytes(c, AddPadding(c))}
      [] OTHER ->
            LET block == CbcBytes(c, c.unprocessed)
            IN  IF Len(block) # BlockSize THEN {}
                ELSE {SubSeq(block, 1, n) : n \in DataLengths(c, block)}

(***************************************************************************)
(* The calls.                                                              *)
(***************************************************************************)
IvRequired(a) == a # "ECB_NO_PADDING"

(* psa_cipher_encrypt_setup and psa_cipher_decrypt_setup.                  *)
CipherSetup(o, k, a, e, n) ==
    /\ ~cipher[o].id
    /\ FreeBlocks # {}
    /\ heap' = [heap EXCEPT ![FirstFree] = AesBlock]
    /\ s' = k
    /\ cipher' = [cipher EXCEPT ![o] =
                    [CipherZero EXCEPT !.id = TRUE,
                                       !.iv_required = IvRequired(a),
                                       !.alg = a, !.enc = e,
                                       !.key = k, !.len = n]]

(* The context cannot be allocated, or was and the key is not of 128 bits. *)
CipherSetupFails(o) ==
    /\ ~cipher[o].id
    /\ cipher' = [cipher EXCEPT ![o] = CipherZero]
    /\ \/ FreeBlocks = {} /\ UNCHANGED heap
       \/ FreeBlocks # {} /\ heap' = [heap EXCEPT ![FirstFree] = AesBlock]
    /\ UNCHANGED s

(* psa_cipher_set_iv and psa_cipher_generate_iv.                           *)
CipherSetIv(o) ==
    /\ cipher[o].id
    /\ cipher[o].iv_required /\ ~cipher[o].iv_set
    /\ cipher' = [cipher EXCEPT ![o].iv_set = TRUE, ![o].iv = 0]
    /\ UNCHANGED <<s, heap>>

IvReady(c) == c.iv_required => c.iv_set

(* psa_cipher_update with the next n bytes of the message.  With no bytes  *)
(* it fails, but in ECB, where it does nothing.                            *)
CipherUpdate(o, n) ==
    LET c == cipher[o]
        fragment == [i \in 1 .. n |-> c.fed + i]
    IN  /\ c.id /\ IvReady(c)
        /\ n > 0 /\ c.fed + n <= InputLength(c)
        /\ cipher' = [cipher EXCEPT ![o] =
                        [UpdateContext(c, fragment) EXCEPT
                            !.fed = @ + n,
                            !.cut = @ \/ c.fed % BlockSize # 0]]
        /\ UNCHANGED <<s, heap>>

(* psa_cipher_abort ends every psa_cipher_finish.                          *)
CipherFinish(o) ==
    LET c == cipher[o]
    IN  /\ c.id /\ IvReady(c)
        /\ \E out \in FinishOutputs(c) :
            cipher' = [cipher EXCEPT ![o] =
                [CipherZero EXCEPT
                    !.alg = c.alg, !.enc = c.enc, !.key = c.key,
                    !.len = c.len, !.fed = c.fed, !.cut = c.cut,
                    !.out = c.out \o out, !.finished = TRUE]]
        /\ UNCHANGED <<s, heap>>

(* psa_cipher_abort.  iotex_cipher_free keeps the AES context allocated.   *)
CipherAbort(o) ==
    /\ cipher[o].id
    /\ cipher' = [cipher EXCEPT ![o] = CipherZero]
    /\ UNCHANGED <<s, heap>>

(* psa_cipher_encrypt and psa_cipher_decrypt: an operation of their own,   *)
(* on the same key schedule.  Its context is not freed either.             *)
CipherOneShot(k) ==
    /\ FreeBlocks # {}
    /\ heap' = [heap EXCEPT ![FirstFree] = AesBlock]
    /\ s' = k
    /\ UNCHANGED cipher

(* Only behind a padded ciphertext does the length of the plaintext count. *)
Lengths(a, e) ==
    IF a = "CBC_PKCS7" /\ ~e THEN 0 .. MaxMessage ELSE {MaxMessage}

CipherCall(o) ==
    \/ \E k \in Keys, a \in Algs, e \in BOOLEAN :
        \E n \in Lengths(a, e) : CipherSetup(o, k, a, e, n)
    \/ CipherSetupFails(o)
    \/ CipherSetIv(o)
    \/ \E n \in 1 .. MaxMessage + BlockSize : CipherUpdate(o, n)
    \/ CipherFinish(o)
    \/ CipherAbort(o)

CipherNext ==
    \/ \E o \in CipherObjects : CipherCall(o)
    \/ \E k \in Keys : CipherOneShot(k)

(***************************************************************************)
(* Properties                                                              *)
(***************************************************************************)
CipherTypeOK ==
    /\ cipher \in [CipherObjects -> CipherOperation]
    /\ s \in Keys \cup {NoKey}

(* unprocessed_data is one block: the bytes kept between calls fit in it,  *)
(* and only a padded decryption fills it.                                  *)
UnprocessedFits ==
    \A o \in CipherObjects :
        LET c == cipher[o]
        IN  IF HoldsBack(c) THEN Len(c.unprocessed) <= BlockSize
            ELSE Len(c.unprocessed) < BlockSize

(* However its message was cut, an operation that was passed all of it can *)
(* finish: a padded decryption has kept one whole block for it, the other  *)
(* block modes nothing.                                                    *)
WholeMessageFinishes ==
    \A o \in CipherObjects :
        LET c == cipher[o]
            whole == IF HoldsBack(c) THEN c.fed = InputLength(c)
                     ELSE c.fed % BlockSize = 0
        IN  c.id /\ IvReady(c) /\ whole => FinishOutputs(c) # {}

(* However a message is cut into fragments, no byte of it is lost,         *)
(* repeated or moved: what came out is right, and what was passed and has  *)
(* not come out is kept, in order (iotex_cipher_update, CBC).              *)
NothingLost ==
    \A o \in CipherObjects :
        LET c == cipher[o]
            n == Len(c.out)
        IN  c.id /\ c.alg \in {"CBC_NO_PADDING", "CBC_PKCS7"} =>
                /\ c.out = Right(c, n)
                /\ c.unprocessed = [i \in 1 .. c.fed - n |-> n + i]

MessageLength(c) ==
    CASE c.alg = "CBC_PKCS7" /\ c.enc -> PaddedLength(c.fed)
      [] c.alg = "CBC_PKCS7" /\ ~c.enc -> c.len
      [] OTHER -> c.fed

(* The operation ended well, and was passed all of a padded ciphertext.    *)
Completed(c) == c.finished /\ (HoldsBack(c) => c.fed = InputLength(c))

(* "This function finishes the encryption or decryption of the message     *)
(* formed by concatenating the inputs passed to preceding calls to         *)
(* psa_cipher_update()" (psa/crypto.h, psa_cipher_finish).                 *)
FinishedIsMessage ==
    \A o \in CipherObjects :
        Completed(cipher[o]) =>
            cipher[o].out = Right(cipher[o], MessageLength(cipher[o]))

(* What the code does keep of it: a finished CBC operation gives exactly   *)
(* its message, except that the padding of a message of whole blocks stays *)
(* on the decrypted text (get_pkcs_padding).                               *)
CbcFinishedIsMessage ==
    \A o \in CipherObjects :
        LET c == cipher[o]
            keepsPadding == HoldsBack(c) /\ c.len % BlockSize = 0
        IN  Completed(c) /\ c.alg \in {"CBC_NO_PADDING", "CBC_PKCS7"} =>
                c.out = Right(c, IF keepsPadding THEN InputLength(c)
                                 ELSE MessageLength(c))

(* A CTR operation gives its message as long as only its last fragment     *)
(* ends inside a block (iotex_aes_crypt_ctr has no use for nc_off).        *)
CtrExactOnWholeBlocks ==
    \A o \in CipherObjects :
        LET c == cipher[o]
        IN  c.alg = "CTR" /\ ~c.cut => c.out = Right(c, c.fed)
=============================================================================
