------------------------------ MODULE MCPsaCore ------------------------------
(***************************************************************************)
(* Key derivation with blocks of two bytes and at most three of them, and  *)
(* inputs of no bytes, of the length of a hash, and too long for a         *)
(* pre-shared key.  For the tags an HMAC key, an AES key or a signature    *)
(* key and its copies, with the lengths of the code: HMAC-SHA-256 with 32  *)
(* bytes, HMAC-SHA-512 with 64, whose full length has the code 0, and AEAD *)
(* tags of up to 16.                                                       *)
(***************************************************************************)
EXTENDS PsaCore, TLC

MCKeyTypes == {"hmac", "aes", "ecc"}
MCBases == {"sha256", "sha512", "cmac", "gcm", "ccm", "ecdsa", "ecdh", "none"}
MCSubs == {"any", "sha", "hkdf", "-"}
MCNoAlgorithm == [kind |-> "none", base |-> "none", sub |-> "-",
                  len |-> 0, least |-> FALSE]

MCFullLength ==
    [base \in MCBases |-> CASE base = "sha256" -> 32
                            [] base = "sha512" -> 64
                            [] OTHER -> 16]
MCMacTypes ==
    [base \in MCBases |-> CASE base \in {"sha256", "sha512"} -> {"hmac"}
                            [] base = "cmac" -> {"aes"}
                            [] OTHER -> {}]
MCTagLengths ==
    [base \in MCBases |-> CASE base = "gcm" -> {4, 8, 12, 13, 14, 15, 16}
                            [] base = "ccm" -> {4, 6, 8, 10, 12, 14, 16}
                            [] OTHER -> {}]
MCAdLimit == [base \in MCBases |-> IF base = "ccm" THEN 0 ELSE 1]

Of(kind, base, sub, len, least) ==
    [kind |-> kind, base |-> base, sub |-> sub, len |-> len, least |-> least]
Macs(base, lens) ==
    {Of("mac", base, "-", len, least) : len \in lens, least \in BOOLEAN}
Aeads(base, lens) ==
    {Of("aead", base, "-", len, least) : len \in lens, least \in BOOLEAN}

HmacAlgs ==
    Macs("sha256", {0, 8, 40}) \cup Macs("sha512", {0})
        \cup {Of("mac", "sha256", "-", 32, FALSE), Of("mac", "sha512", "-", 8, TRUE)}
CmacAlgs == Macs("cmac", {0, 4})
AeadAlgs == {Of("aead", "gcm", "-", 8, TRUE), Of("aead", "ccm", "-", 16, FALSE)}
                \cup Aeads("gcm", {16})
EccAlgs == {Of("sign", "ecdsa", sub, 0, FALSE) : sub \in {"any", "sha", "-"}}
               \cup {Of("agree", "ecdh", sub, 0, FALSE) : sub \in {"hkdf", "-"}}

Specific(algs) == {alg \in algs : ~alg.least}

(* With a wildcard, a MAC and an AEAD tag that are too short, and 0.       *)
MCRequests ==
    Specific(HmacAlgs \cup CmacAlgs \cup AeadAlgs \cup EccAlgs)
        \cup {MCNoAlgorithm, Of("mac", "sha256", "-", 8, TRUE),
              Of("mac", "cmac", "-", 2, FALSE), Of("aead", "gcm", "-", 8, FALSE),
              Of("aead", "gcm", "-", 9, FALSE)}

Allow(usages, algs, algs2) ==
    {[usage |-> u, alg |-> a, alg2 |-> b] : u \in usages, a \in algs, b \in algs2}

MCWanted ==
    [type \in MCKeyTypes |->
        CASE type = "hmac" ->
               Allow({{"copy", "sign_hash", "verify_message"}}, HmacAlgs,
                     {MCNoAlgorithm})
          [] type = "aes" ->
               Allow({{"copy", "encrypt", "decrypt", "sign_hash"}},
                     CmacAlgs \cup AeadAlgs, {MCNoAlgorithm})
               \cup Allow({{"copy", "encrypt"}}, {Of("aead", "gcm", "-", 16, FALSE)},
                          {MCNoAlgorithm})
          [] OTHER -> Allow({{"copy", "sign_hash"}, {"copy"}}, EccAlgs,
                            {MCNoAlgorithm, Of("sign", "ecdsa", "any", 0, FALSE)})]

MCMaxKeys == [type \in MCKeyTypes |-> IF type = "aes" THEN 2 ELSE 3]
=============================================================================
