------------------------------ MODULE KeyPolicy ------------------------------
(***************************************************************************)
(* Key policies of the PSA core (src/psa_layer/psa_crypto.c): what a key   *)
(* may be used for, and how psa_copy_key combines the policy of the source *)
(* with the one the caller asks for.                                       *)
(*                                                                         *)
(* An algorithm is a record in place of the bits of psa_algorithm_t.  The  *)
(* length of a tag has six bits there, so that a full length of 64 bytes   *)
(* is written as 0, the code of the default length.                        *)
(***************************************************************************)
EXTENDS Integers, Sequences

CONSTANTS
    KeyTypes,
    Bases,          \* the algorithm without hash, key derivation and length
    Subs,           \* the hash of a signature or KDF of a key agreement
    AnyHash,        \* PSA_ALG_ANY_HASH
    NoSub,          \* no hash, or a raw key agreement
    FullLength,     \* FullLength[base]: bytes of the whole MAC
    MacTypes,       \* MacTypes[base]: key types that can do the MAC
    NoAlgorithm,    \* 0, which is not an algorithm
    Requests,       \* the algorithms that callers name
    Wanted,         \* Wanted[type]: the policies that callers ask for
    MaxKeys         \* MaxKeys[type]: bound on the keys of a behaviour

CodeOfLength == 64
EncodedLengths == 0 .. CodeOfLength - 1
Kinds == {"sign", "mac", "aead", "agree", "none"}
Usages == {"copy", "encrypt", "decrypt", "sign_message", "verify_message",
           "sign_hash", "verify_hash"}

Algorithm == [kind : Kinds, base : Bases, sub : Subs, len : EncodedLengths,
              least : BOOLEAN]
Policy == [usage : SUBSET Usages, alg : Algorithm, alg2 : Algorithm]

ASSUME PolicyAssumption ==
    /\ AnyHash \in Subs /\ NoSub \in Subs /\ AnyHash # NoSub
    /\ FullLength \in [Bases -> 1 .. CodeOfLength]
    /\ MacTypes \in [Bases -> SUBSET KeyTypes]
    /\ NoAlgorithm \in Algorithm /\ NoAlgorithm.kind = "none"
    /\ Requests \subseteq Algorithm
    /\ Wanted \in [KeyTypes -> SUBSET Policy]
    /\ MaxKeys \in [KeyTypes -> Nat]

VARIABLE keys   \* keys[k]: type, policy, and the policies it descends from

-----------------------------------------------------------------------------
Larger(m, n) == IF m > n THEN m ELSE n
Exactly(a, n) == [kind |-> a.kind, base |-> a.base, sub |-> a.sub,
                  len |-> n % CodeOfLength, least |-> FALSE]
AtLeast(a, n) == [kind |-> a.kind, base |-> a.base, sub |-> a.sub,
                  len |-> n % CodeOfLength, least |-> TRUE]

MacLength(a) == IF a.len = 0 THEN FullLength[a.base] ELSE a.len
MacKeyCanDo(a, type) == type \in MacTypes[a.base]

IsWildcard(a) ==
    CASE a.kind = "sign" -> a.sub = AnyHash
      [] a.kind \in {"mac", "aead"} -> a.least
      [] OTHER -> FALSE

SameFamily(a, b, kind) ==
    /\ a.kind = kind /\ b.kind = kind
    /\ a.base = b.base
    /\ kind \in {"mac", "aead"} => a.sub = b.sub

-----------------------------------------------------------------------------
(* The algorithms that both policies allow, as one algorithm or wildcard.  *)
IntersectSign(a, b) ==
    CASE a.sub = AnyHash -> b
      [] a.sub # AnyHash /\ b.sub = AnyHash -> a
      [] OTHER -> NoAlgorithm

IntersectAead(a, b) ==
    CASE a.least /\ b.least -> AtLeast(a, Larger(a.len, b.len))
      [] a.least /\ ~b.least /\ a.len <= b.len -> b
      [] b.least /\ ~a.least /\ b.len <= a.len -> a
      [] OTHER -> NoAlgorithm

IntersectMac_Looser(a, b) ==    \* mutant: the smaller of two least lengths
    LET m == MacLength(a)
        n == MacLength(b)
    IN  CASE a.least /\ b.least -> AtLeast(a, IF m > n THEN n ELSE m)
          [] a.least /\ ~b.least /\ m <= n -> b
          [] b.least /\ ~a.least /\ n <= m -> a
          [] ~a.least /\ ~b.least /\ m = n -> Exactly(a, m)
          [] OTHER -> NoAlgorithm

IntersectMac(a, b) ==
    LET m == MacLength(a)
        n == MacLength(b)
    IN  CASE a.least /\ b.least -> AtLeast(a, Larger(m, n))
          [] a.least /\ ~b.least /\ m <= n -> b
          [] b.least /\ ~a.least /\ n <= m -> a
          [] ~a.least /\ ~b.least /\ m = n -> Exactly(a, m)
          [] OTHER -> NoAlgorithm

Intersection(type, a, b) ==
    CASE a = b -> a
      [] a # b /\ SameFamily(a, b, "sign") -> IntersectSign(a, b)
      [] a # b /\ SameFamily(a, b, "aead") -> IntersectAead(a, b)
      [] a # b /\ SameFamily(a, b, "mac") /\ MacKeyCanDo(a, type) ->
            IntersectMac(a, b)
      [] OTHER -> NoAlgorithm

(* Whether a policy for one algorithm, or wildcard, allows alg.            *)
AlgorithmPermits(type, policyAlg, alg) ==
    \/ alg = policyAlg
    \/ /\ SameFamily(policyAlg, alg, "sign")
       /\ policyAlg.sub = AnyHash
    \/ /\ SameFamily(policyAlg, alg, "aead")
       /\ policyAlg.least /\ policyAlg.len <= alg.len
    \/ /\ SameFamily(policyAlg, alg, "mac")
       /\ MacKeyCanDo(policyAlg, type)
       /\ IF policyAlg.len = 0
          THEN MacLength(alg) = FullLength[alg.base]
          ELSE \/ alg.len = 0 /\ policyAlg.len = FullLength[alg.base]
               \/ policyAlg.least /\ policyAlg.len <= MacLength(alg)
    \/ /\ SameFamily(policyAlg, alg, "agree")
       /\ policyAlg.sub = NoSub

PolicyPermits(policy, type, alg) ==
    /\ alg # NoAlgorithm
    /\ ~IsWildcard(alg)
    /\ \/ AlgorithmPermits(type, policy.alg, alg)
       \/ AlgorithmPermits(type, policy.alg2, alg)

(* psa_set_key_usage_flags: who may sign a hash may sign a message.        *)
WithUsage(policy) ==
    [usage |-> policy.usage
        \cup (IF "sign_hash" \in policy.usage THEN {"sign_message"} ELSE {})
        \cup (IF "verify_hash" \in policy.usage THEN {"verify_message"} ELSE {}),
     alg |-> policy.alg, alg2 |-> policy.alg2]

Compatible(type, policy, constraint) ==
    /\ \/ Intersection(type, policy.alg, constraint.alg) # NoAlgorithm
       \/ policy.alg = NoAlgorithm \/ constraint.alg = NoAlgorithm
    /\ \/ Intersection(type, policy.alg2, constraint.alg2) # NoAlgorithm
       \/ policy.alg2 = NoAlgorithm \/ constraint.alg2 = NoAlgorithm

Restricted(type, policy, constraint) ==
    [usage |-> policy.usage \cap constraint.usage,
     alg |-> Intersection(type, policy.alg, constraint.alg),
     alg2 |-> Intersection(type, policy.alg2, constraint.alg2)]

-----------------------------------------------------------------------------
Key(type, policy, limits) ==
    [type |-> type, policy |-> policy, limits |-> limits]

(* psa_get_and_lock_key_slot_with_policy.                                  *)
MayUse(k, usage, alg) ==
    /\ usage \in keys[k].policy.usage
    /\ PolicyPermits(keys[k].policy, keys[k].type, alg)

KeysInit == keys = <<>>

(* A behaviour has one imported key and its copies.                        *)
ImportKey(type, wanted) ==
    /\ keys = <<>>
    /\ MaxKeys[type] > 0
    /\ keys' = <<Key(type, WithUsage(wanted), {WithUsage(wanted)})>>

CopyKey(k, wanted) ==
    LET source == keys[k]
        policy == WithUsage(wanted)
    IN  /\ Len(keys) < MaxKeys[source.type]
        /\ "copy" \in source.policy.usage
        /\ Compatible(source.type, policy, source.policy)
        /\ keys' = Append(keys,
                     Key(source.type,
                         Restricted(source.type, policy, source.policy),
                         source.limits \cup {policy}))
=============================================================================
