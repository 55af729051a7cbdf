------------------------------- MODULE MacAead -------------------------------
(***************************************************************************)
(* Message authentication and authenticated encryption in the PSA core     *)
(* (src/psa_layer/psa_crypto.c), over keys with policies: one MAC          *)
(* operation object and one AEAD operation object, with their one-shot     *)
(* forms.  The drivers that compute the tags are not in the repository;    *)
(* any call to them may fail.                                              *)
(***************************************************************************)
EXTENDS KeyPolicy

CONSTANTS
    TagLengths,     \* TagLengths[base]: those psa_validate_tag_length takes
    NeedLengths,    \* AEADs that cannot start without lengths: CCM
    AdLimit,        \* AdLimit[base]: longest additional data declared
    MacSizeMax,     \* PSA_MAC_MAX_SIZE
    Rooms,          \* sizes of buffers for a tag, and of tags to verify
    MaxLength,      \* bound on declared lengths and on fragments
    MaxCalls        \* bound on the calls of one AEAD operation

ASSUME MacAeadAssumption ==
    /\ TagLengths \in [Bases -> SUBSET EncodedLengths]
    /\ NeedLengths \subseteq Bases
    /\ AdLimit \in [Bases -> Nat]
    /\ MacSizeMax \in Nat
    /\ Rooms \subseteq Nat
    /\ MaxLength \in Nat /\ MaxCalls \in Nat

VARIABLES
    mac,    \* psa_mac_operation_t, and the key and algorithm of its setup
    aead,   \* psa_aead_operation_t, and the calls its driver was given
    tag     \* what the last call left in the buffer for a tag, or accepted

authVars == <<keys, mac, aead, tag>>

NoMac == [active |-> FALSE, sign |-> FALSE, size |-> 0, key |-> 0,
          alg |-> NoAlgorithm]
NoAead == [active |-> FALSE, encrypt |-> FALSE, key |-> 0, alg |-> NoAlgorithm,
           nonce |-> FALSE, lengths |-> FALSE, ad |-> FALSE, body |-> FALSE,
           adLeft |-> 0, bodyLeft |-> 0, calls |-> <<>>]

NoTag == [usage |-> "copy", key |-> 0, alg |-> NoAlgorithm, size |-> 0,
          calls |-> <<>>]      \* no tag: nothing, or '!' in all of the buffer
Tag(usage, k, alg, size, calls) ==
    [usage |-> usage, key |-> k, alg |-> alg, size |-> size, calls |-> calls]

Fragments == 0 .. MaxLength

-----------------------------------------------------------------------------
(* MAC.                                                                    *)
MacUsage(sign) == IF sign THEN "sign_message" ELSE "verify_message"

(* psa_mac_abort leaves an inactive object as it is.                       *)
MacAborted == IF mac.active THEN NoMac ELSE mac

(* The end of psa_mac_finalize_alg_and_key_validation.                     *)
MacSizeValid_NoUpperBound(alg) ==   \* mutant: truncated to more than all
    MacLength(alg) >= 4 /\ MacLength(alg) <= MacSizeMax

MacSizeValid(alg) ==
    /\ MacLength(alg) >= 4
    /\ MacLength(alg) <= FullLength[alg.base]
    /\ MacLength(alg) <= MacSizeMax

MacKeyValid(k, alg) ==
    alg.kind = "mac" /\ MacKeyCanDo(alg, keys[k].type)

(* A setup that the policy refuses changes nothing; one that fails later   *)
(* leaves the size and the direction it got to behind.                     *)
MacSetup(k, alg, sign) ==
    /\ ~mac.active
    /\ MacKeyValid(k, alg)
    /\ MayUse(k, MacUsage(sign), alg)
    /\ \/ /\ ~MacSizeValid(alg)
          /\ mac' = [mac EXCEPT !.size = MacLength(alg)]
       \/ /\ MacSizeValid(alg)
          /\ \/ mac' = [active |-> TRUE, sign |-> sign,
                        size |-> MacLength(alg), key |-> k, alg |-> alg]
             \/ mac' = [mac EXCEPT !.size = MacLength(alg), !.sign = sign]
    /\ tag' = NoTag
    /\ UNCHANGED <<keys, aead>>

MacSetupInUse ==
    /\ mac.active
    /\ mac' = NoMac
    /\ tag' = NoTag
    /\ UNCHANGED <<keys, aead>>

(* An update that succeeds changes nothing but the state of the driver.    *)
MacUpdateFails ==
    /\ mac.active
    /\ mac' = NoMac
    /\ tag' = NoTag
    /\ UNCHANGED <<keys, aead>>

(* A failed finish of an inactive object clears its size.                  *)
MacSignFinish(room) ==
    \E done \in BOOLEAN :
        LET given == /\ mac.active /\ mac.sign
                     /\ mac.size # 0 /\ room >= mac.size
                     /\ done
        IN  /\ mac' = IF mac.active THEN NoMac ELSE [mac EXCEPT !.size = 0]
            /\ tag' = IF given
                      THEN Tag("sign_message", mac.key, mac.alg, mac.size, <<>>)
                      ELSE NoTag
            /\ UNCHANGED <<keys, aead>>

MacVerifyFinish(length) ==
    \E same \in BOOLEAN :
        /\ mac' = MacAborted
        /\ tag' = IF mac.active /\ ~mac.sign /\ mac.size = length /\ same
                  THEN Tag("verify_message", mac.key, mac.alg, length, <<>>)
                  ELSE NoTag
        /\ UNCHANGED <<keys, aead>>

(* psa_mac_compute, and psa_mac_verify with a buffer of MacSizeMax.        *)
MacComputes(k, alg, sign, room) ==
    /\ MacKeyValid(k, alg)
    /\ MacSizeValid(alg)
    /\ room >= MacLength(alg)
    /\ MayUse(k, MacUsage(sign), alg)

(* A refused one changes nothing: it fills the buffer with '!', or with 0. *)
MacOneShot(k, alg, sign, room) ==
    /\ IF sign THEN MacComputes(k, alg, TRUE, room)
       ELSE /\ MacComputes(k, alg, FALSE, MacSizeMax)
            /\ room = MacLength(alg)
    /\ tag' = Tag(MacUsage(sign), k, alg, MacLength(alg), <<>>)
    /\ UNCHANGED <<keys, mac, aead>>

MacAbort ==
    /\ mac' = MacAborted
    /\ tag' = NoTag
    /\ UNCHANGED <<keys, aead>>

-----------------------------------------------------------------------------
(* AEAD.  A call of the core that fails, or whose driver fails, aborts the *)
(* operation, which makes the object as good as new.                       *)
AeadUsage(encrypt) == IF encrypt THEN "encrypt" ELSE "decrypt"
IsAeadAlgorithm(alg) == alg.kind = "aead" /\ ~IsWildcard(alg)

Call(name, n, m) == [name |-> name, n |-> n, m |-> m]
Told(call) == Append(aead.calls, call)

AeadEnds(ok, next) ==
    /\ \E done \in BOOLEAN : aead' = IF ok /\ done THEN next ELSE NoAead
    /\ tag' = NoTag
    /\ UNCHANGED <<keys, mac>>

AeadSetup(k, alg, encrypt) ==
    /\ IsAeadAlgorithm(alg)
    /\ ~aead.active
    /\ ~(aead.nonce \/ aead.lengths \/ aead.ad \/ aead.body)
    /\ alg.len \in TagLengths[alg.base]
    /\ MayUse(k, AeadUsage(encrypt), alg)
    /\ aead' = [NoAead EXCEPT !.active = TRUE, !.encrypt = encrypt,
                              !.key = k, !.alg = alg]
    /\ tag' = NoTag
    /\ UNCHANGED <<keys, mac>>

(* For any reason, also that the object is in use.                         *)
AeadSetupFails ==
    /\ aead' = NoAead
    /\ tag' = NoTag
    /\ UNCHANGED <<keys, mac>>

NonceSet == [aead EXCEPT !.nonce = TRUE, !.calls = Told(Call("nonce", 0, 0))]

AeadGenerateNonce ==
    AeadEnds(aead.active /\ ~aead.nonce /\ aead.encrypt, NonceSet)

AeadSetNonce == AeadEnds(aead.active /\ ~aead.nonce, NonceSet)

AeadSetLengths(ad, body) ==
    AeadEnds(/\ aead.active
             /\ ~(aead.lengths \/ aead.ad \/ aead.body)
             /\ ad <= AdLimit[aead.alg.base],
             [aead EXCEPT !.lengths = TRUE, !.adLeft = ad, !.bodyLeft = body,
                          !.calls = Told(Call("lengths", ad, body))])

AeadUpdateAd(n) ==
    AeadEnds(/\ aead.active /\ aead.nonce /\ ~aead.body
             /\ IF aead.lengths THEN n <= aead.adLeft
                ELSE aead.alg.base \notin NeedLengths,
             [aead EXCEPT !.ad = TRUE,
                          !.adLeft = IF aead.lengths THEN @ - n ELSE @,
                          !.calls = Told(Call("ad", n, 0))])

AeadUpdate_AdMissing(n) ==  \* mutant: the additional data may be incomplete
    AeadEnds(/\ aead.active /\ aead.nonce
             /\ IF aead.lengths THEN n <= aead.bodyLeft
                ELSE aead.alg.base \notin NeedLengths,
             [aead EXCEPT !.body = TRUE,
                          !.bodyLeft = IF aead.lengths THEN @ - n ELSE @,
                          !.calls = Told(Call("body", n, 0))])

AeadUpdate(n) ==
    AeadEnds(/\ aead.active /\ aead.nonce
             /\ IF aead.lengths THEN aead.adLeft = 0 /\ n <= aead.bodyLeft
                ELSE aead.alg.base \notin NeedLengths,
             [aead EXCEPT !.body = TRUE,
                          !.bodyLeft = IF aead.lengths THEN @ - n ELSE @,
                          !.calls = Told(Call("body", n, 0))])

FinalChecks ==
    /\ aead.active /\ aead.nonce
    /\ aead.lengths => aead.adLeft = 0 /\ aead.bodyLeft = 0

(* psa_aead_finish with room for a tag, psa_aead_verify of a tag of that   *)
(* length: the driver refuses a small buffer, the wrapper a wrong length.  *)
AeadFinish(encrypt, room) ==
    \E done \in BOOLEAN :
        LET given == /\ FinalChecks
                     /\ aead.encrypt = encrypt
                     /\ IF encrypt THEN room >= aead.alg.len
                        ELSE room = aead.alg.len
                     /\ done
        IN  /\ tag' = IF given
                      THEN Tag(AeadUsage(encrypt), aead.key, aead.alg,
                               aead.alg.len, Told(Call("finish", 0, 0)))
                      ELSE NoTag
            /\ aead' = NoAead
            /\ UNCHANGED <<keys, mac>>

AeadAbort ==
    /\ aead' = NoAead
    /\ tag' = NoTag
    /\ UNCHANGED <<keys, mac>>

(* psa_aead_encrypt and psa_aead_decrypt: the tag is part of the           *)
(* ciphertext, and the driver takes the lengths of tags psa_aead_setup     *)
(* does.                                                                   *)
AeadOneShot(k, alg, encrypt) ==
    /\ IsAeadAlgorithm(alg)
    /\ alg.len \in TagLengths[alg.base]
    /\ MayUse(k, AeadUsage(encrypt), alg)
    /\ tag' = Tag(AeadUsage(encrypt), k, alg, alg.len, <<>>)
    /\ UNCHANGED <<keys, mac, aead>>

-----------------------------------------------------------------------------
ManageKeys ==
    /\ \/ \E type \in KeyTypes : \E wanted \in Wanted[type] :
             ImportKey(type, wanted)
       \/ \E k \in DOMAIN keys : \E wanted \in Wanted[keys[k].type] :
             CopyKey(k, wanted)
    /\ tag' = NoTag
    /\ UNCHANGED <<mac, aead>>

MacNext ==
    \/ \E k \in DOMAIN keys, alg \in Requests, sign \in BOOLEAN :
          \/ MacSetup(k, alg, sign)
          \/ \E room \in Rooms : MacOneShot(k, alg, sign, room)
    \/ \E room \in Rooms : MacSignFinish(room) \/ MacVerifyFinish(room)
    \/ MacSetupInUse
    \/ MacUpdateFails
    \/ MacAbort

AeadNext ==
    \/ \E k \in DOMAIN keys, alg \in Requests, encrypt \in BOOLEAN :
          AeadSetup(k, alg, encrypt) \/ AeadOneShot(k, alg, encrypt)
    \/ /\ Len(aead.calls) < MaxCalls
       /\ \/ AeadGenerateNonce
          \/ AeadSetNonce
          \/ \E ad, body \in Fragments : AeadSetLengths(ad, body)
          \/ \E n \in Fragments : AeadUpdateAd(n) \/ AeadUpdate(n)
    \/ \E encrypt \in BOOLEAN, room \in Rooms : AeadFinish(encrypt, room)
    \/ AeadSetupFails
    \/ AeadAbort

AuthInit ==
    /\ KeysInit
    /\ mac = NoMac
    /\ aead = NoAead
    /\ tag = NoTag

AuthNext == ManageKeys \/ MacNext \/ AeadNext

AuthSpec == AuthInit /\ [][AuthNext]_authVars

-----------------------------------------------------------------------------
(* A length that a MAC can have; other lengths have codes of their own and *)
(* nothing to stand for.                                                   *)
Real(alg) == alg.kind = "mac" => MacLength(alg) <= FullLength[alg.base]

(* psa_copy_key: through any chain of copies, a key may be used only in    *)
(* ways that the policy of every key it descends from allows, and every    *)
(* policy a caller asked for on the way.                                   *)
CopiesPermitNothingNew ==
    \A k \in DOMAIN keys : \A limit \in keys[k].limits :
        /\ keys[k].policy.usage \subseteq limit.usage
        /\ \A alg \in Requests :
              Real(alg) /\ PolicyPermits(keys[k].policy, keys[k].type, alg)
                => PolicyPermits(limit, keys[k].type, alg)

(* The calls that finish, verify and compute: a tag that is given out or   *)
(* accepted has the length of its algorithm, at least four bytes for a MAC *)
(* and never more than the whole, and every policy that the key descends   *)
(* from allows that algorithm to be used that way.                         *)
TagsConform ==
    tag # NoTag =>
        /\ \A limit \in keys[tag.key].limits :
              /\ tag.usage \in limit.usage
              /\ PolicyPermits(limit, keys[tag.key].type, tag.alg)
        /\ IF tag.alg.kind = "mac"
           THEN /\ tag.size = MacLength(tag.alg)
                /\ tag.size \in 4 .. FullLength[tag.alg.base]
           ELSE tag.size = tag.alg.len /\ tag.size \in TagLengths[tag.alg.base]

(* Given(name, calls)[i]: how much the first i calls gave under that name. *)
Given(name, calls) ==
    LET sum[i \in 0 .. Len(calls)] ==
            IF i = 0 THEN 0
            ELSE sum[i - 1] + (IF calls[i].name = name THEN calls[i].n ELSE 0)
    IN  sum

(* The AEAD calls, as psa_crypto_aead.h promises them to the driver:       *)
(* one nonce, before any data; lengths at most once, before any data, and  *)
(* for CCM always; no additional data after the message began; never more  *)
(* data than declared, and all of it when the message begins and ends.     *)
InOrder(calls, alg) ==
    \A i \in DOMAIN calls :
        LET Before(names) == {j \in 1 .. i - 1 : calls[j].name \in names}
            name == calls[i].name
            ad == Given("ad", calls)
            body == Given("body", calls)
        IN  /\ name = "nonce" => Before({"nonce", "ad", "body"}) = {}
            /\ name = "lengths" => Before({"lengths", "ad", "body"}) = {}
            /\ name \in {"ad", "body", "finish"} => Before({"nonce"}) # {}
            /\ name \in {"ad", "body"} /\ alg.base \in NeedLengths =>
                  Before({"lengths"}) # {}
            /\ name = "ad" => Before({"body"}) = {}
            /\ \A j \in Before({"lengths"}) :
                  /\ ad[i] <= calls[j].n
                  /\ body[i] <= calls[j].m
                  /\ name \in {"body", "finish"} => ad[i - 1] = calls[j].n
                  /\ name = "finish" => body[i - 1] = calls[j].m

DriverCallsInOrder ==
    /\ InOrder(aead.calls, aead.alg)
    /\ InOrder(tag.calls, tag.alg)
=============================================================================
