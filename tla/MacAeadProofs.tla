---------------------------- MODULE MacAeadProofs ----------------------------
(***************************************************************************)
(* Proofs about MacAead, for any algorithms, lengths, policies and number  *)
(* of keys.  The algorithm of an intersection permits only what both sides *)
(* do; a copy therefore conforms to all that its source conforms to; and   *)
(* an operation carries an algorithm that its key permitted at its setup;  *)
(* and the fields of an AEAD operation say enough of the calls its driver  *)
(* was given to allow only what may come next.                             *)
(***************************************************************************)
EXTENDS MacAead, RecursionProofs, SequenceTheorems, TLAPS

-----------------------------------------------------------------------------
(* Intersections.                                                          *)

LEMMA NothingPermitted ==
    ASSUME NEW type, NEW alg \in Algorithm, alg # NoAlgorithm
    PROVE  ~AlgorithmPermits(type, NoAlgorithm, alg)
BY PolicyAssumption DEF AlgorithmPermits, SameFamily

LEMMA SignPermits ==
    ASSUME NEW type, NEW a \in Algorithm, NEW b \in Algorithm,
           NEW alg \in Algorithm, alg # NoAlgorithm, ~IsWildcard(alg),
           SameFamily(a, b, "sign"),
           AlgorithmPermits(type, IntersectSign(a, b), alg)
    PROVE  AlgorithmPermits(type, a, alg) /\ AlgorithmPermits(type, b, alg)
BY NothingPermitted, PolicyAssumption
   DEF AlgorithmPermits, SameFamily, IntersectSign, IsWildcard, Algorithm

LEMMA EncodedIsLength ==
    ASSUME NEW n \in 0 .. CodeOfLength
    PROVE  /\ n % CodeOfLength \in EncodedLengths
           /\ n = CodeOfLength => n % CodeOfLength = 0
           /\ n # CodeOfLength => n % CodeOfLength = n
BY DEF CodeOfLength, EncodedLengths

LEMMA BuiltAlgorithms ==
    ASSUME NEW a \in Algorithm, NEW n \in 0 .. CodeOfLength
    PROVE  Exactly(a, n) \in Algorithm /\ AtLeast(a, n) \in Algorithm
BY EncodedIsLength DEF Exactly, AtLeast, Algorithm

LEMMA AeadPermits ==
    ASSUME NEW type, NEW a \in Algorithm, NEW b \in Algorithm,
           NEW alg \in Algorithm, alg # NoAlgorithm, ~IsWildcard(alg),
           SameFamily(a, b, "aead"),
           AlgorithmPermits(type, IntersectAead(a, b), alg)
    PROVE  AlgorithmPermits(type, a, alg) /\ AlgorithmPermits(type, b, alg)
<1>1. CASE a.least /\ b.least
  <2> DEFINE n == Larger(a.len, b.len)
  <2>1. n \in EncodedLengths /\ a.len <= n /\ b.len <= n
    BY DEF Larger, Algorithm, EncodedLengths, CodeOfLength
  <2>2. n % CodeOfLength = n
    BY <2>1, EncodedIsLength DEF EncodedLengths, CodeOfLength
  <2>3. IntersectAead(a, b) = AtLeast(a, n)
    BY <1>1 DEF IntersectAead
  <2>4. /\ AtLeast(a, n).kind = a.kind /\ AtLeast(a, n).base = a.base
        /\ AtLeast(a, n).sub = a.sub /\ AtLeast(a, n).len = n
        /\ AtLeast(a, n).least
    BY <2>2 DEF AtLeast
  <2> HIDE DEF n
  <2>5. ~alg.least \/ alg.kind # "aead"
    BY DEF IsWildcard
  <2>6. SameFamily(AtLeast(a, n), alg, "aead") /\ n <= alg.len
    BY <2>3, <2>4, <2>5 DEF AlgorithmPermits, SameFamily
  <2> QED
    BY <1>1, <2>1, <2>4, <2>6
       DEF AlgorithmPermits, SameFamily, Algorithm, EncodedLengths, CodeOfLength
<1>2. CASE a.least /\ ~b.least /\ a.len <= b.len
  <2>1. IntersectAead(a, b) = b
    BY <1>2 DEF IntersectAead
  <2> QED
    BY <1>2, <2>1 DEF AlgorithmPermits, SameFamily
<1>3. CASE b.least /\ ~a.least /\ b.len <= a.len
  <2>1. IntersectAead(a, b) = a
    BY <1>3 DEF IntersectAead
  <2> QED
    BY <1>3, <2>1 DEF AlgorithmPermits, SameFamily
<1>4. CASE ~(\/ a.least /\ b.least
             \/ a.least /\ ~b.least /\ a.len <= b.len
             \/ b.least /\ ~a.least /\ b.len <= a.len)
  <2>1. IntersectAead(a, b) = NoAlgorithm
    BY <1>4 DEF IntersectAead
  <2> QED
    BY <2>1, NothingPermitted
<1> QED
    BY <1>1, <1>2, <1>3, <1>4

LEMMA MacLengthType ==
    ASSUME NEW a \in Algorithm
    PROVE  MacLength(a) \in 1 .. CodeOfLength
BY PolicyAssumption DEF MacLength, Algorithm, EncodedLengths, CodeOfLength

(* A MAC policy in terms of lengths: for a MAC that is not longer than the *)
(* whole, at least the length of a wildcard, exactly that of another.      *)
LEMMA MacPolicyByLength ==
    ASSUME NEW type, NEW a \in Algorithm, NEW alg \in Algorithm,
           ~IsWildcard(alg), Real(alg), SameFamily(a, alg, "mac"),
           MacKeyCanDo(a, type)
    PROVE  AlgorithmPermits(type, a, alg) <=>
             IF a.least THEN MacLength(a) <= MacLength(alg)
             ELSE \/ alg = a
                  \/ MacLength(alg) = MacLength(a)
                        /\ MacLength(a) = FullLength[a.base]
<1>1. /\ a.len \in 0 .. 63 /\ alg.len \in 0 .. 63
      /\ a.least \in BOOLEAN /\ alg.least = FALSE
      /\ FullLength[a.base] \in 1 .. 64
      /\ alg.base = a.base /\ alg.kind = a.kind /\ alg.sub = a.sub
      /\ a.kind = "mac" /\ alg.kind = "mac"
  BY PolicyAssumption
     DEF Algorithm, EncodedLengths, CodeOfLength, IsWildcard, SameFamily
<1>2. MacLength(alg) <= FullLength[a.base]
  BY <1>1 DEF Real
<1>3. alg = a <=> alg.len = a.len /\ a.least = FALSE
  BY <1>1 DEF Algorithm
<1>4. AlgorithmPermits(type, a, alg) <=>
        \/ alg = a
        \/ IF a.len = 0 THEN MacLength(alg) = FullLength[a.base]
           ELSE \/ alg.len = 0 /\ a.len = FullLength[a.base]
                \/ a.least /\ a.len <= MacLength(alg)
  BY <1>1 DEF AlgorithmPermits, SameFamily
<1>5. /\ MacLength(alg) = IF alg.len = 0 THEN FullLength[a.base] ELSE alg.len
      /\ MacLength(a) = IF a.len = 0 THEN FullLength[a.base] ELSE a.len
  BY <1>1 DEF MacLength
<1> QED
  BY <1>1, <1>2, <1>3, <1>4, <1>5

LEMMA BuiltMacLength ==
    ASSUME NEW a \in Algorithm, NEW n \in 1 .. CodeOfLength,
           n = CodeOfLength => FullLength[a.base] = CodeOfLength
    PROVE  MacLength(Exactly(a, n)) = n /\ MacLength(AtLeast(a, n)) = n
BY EncodedIsLength DEF MacLength, Exactly, AtLeast, CodeOfLength

LEMMA MacPermits ==
    ASSUME NEW type, NEW a \in Algorithm, NEW b \in Algorithm, a # b,
           NEW alg \in Algorithm, alg # NoAlgorithm, ~IsWildcard(alg), Real(alg),
           SameFamily(a, b, "mac"), MacKeyCanDo(a, type),
           AlgorithmPermits(type, IntersectMac(a, b), alg)
    PROVE  AlgorithmPermits(type, a, alg) /\ AlgorithmPermits(type, b, alg)
<1> DEFINE m == MacLength(a)
           n == MacLength(b)
<1>1. /\ m \in 1 .. 64 /\ n \in 1 .. 64
      /\ m = 64 => FullLength[a.base] = 64
      /\ n = 64 => FullLength[a.base] = 64
      /\ a.base = b.base /\ MacKeyCanDo(b, type)
      /\ a.least \in BOOLEAN /\ b.least \in BOOLEAN
  BY PolicyAssumption
     DEF MacLength, SameFamily, Algorithm, EncodedLengths, CodeOfLength, MacKeyCanDo
<1>2. MacLength(alg) \in 1 .. 64
  BY MacLengthType DEF CodeOfLength
<1>3. CASE a.least /\ b.least
  <2> DEFINE r == AtLeast(a, Larger(m, n))
  <2>1. /\ Larger(m, n) \in 1 .. CodeOfLength
        /\ m <= Larger(m, n) /\ n <= Larger(m, n)
        /\ Larger(m, n) = CodeOfLength => FullLength[a.base] = CodeOfLength
    BY <1>1 DEF Larger, CodeOfLength
  <2>2. r \in Algorithm /\ MacLength(r) = Larger(m, n)
    <3> HIDE DEF m, n
    <3> DEFINE l == Larger(m, n)
    <3>1. l \in 1 .. CodeOfLength /\ l \in 0 .. CodeOfLength
      BY <2>1 DEF CodeOfLength
    <3>2. l = CodeOfLength => FullLength[a.base] = CodeOfLength
      BY <2>1
    <3> HIDE DEF l
    <3>3. MacLength(AtLeast(a, l)) = l
      BY <3>1, <3>2, BuiltMacLength
    <3>4. AtLeast(a, l) \in Algorithm
      BY <3>1, BuiltAlgorithms
    <3> QED
      BY <3>3, <3>4 DEF l
  <2>3. /\ r.kind = a.kind /\ r.base = a.base /\ r.sub = a.sub
        /\ r.least = TRUE
    BY DEF AtLeast
  <2>4. AlgorithmPermits(type, r, alg)
    BY <1>3 DEF IntersectMac
  <2> HIDE DEF r, m, n
  <2>5. SameFamily(r, alg, "mac") /\ MacKeyCanDo(r, type)
    BY <2>3, <2>4 DEF AlgorithmPermits, SameFamily, IsWildcard, MacKeyCanDo
  <2>6. Larger(m, n) <= MacLength(alg)
    BY <2>2, <2>3, <2>4, <2>5, MacPolicyByLength
  <2>7. SameFamily(a, alg, "mac") /\ SameFamily(b, alg, "mac")
    BY <2>3, <2>5 DEF SameFamily
  <2>8. m <= MacLength(alg) /\ n <= MacLength(alg)
    BY <1>1, <1>2, <2>1, <2>6 DEF CodeOfLength
  <2> QED
    BY <1>1, <1>3, <2>7, <2>8, MacPolicyByLength DEF m, n
<1>4. CASE a.least /\ ~b.least /\ m <= n
  <2>1. AlgorithmPermits(type, b, alg)
    BY <1>4 DEF IntersectMac
  <2>2. SameFamily(b, alg, "mac") /\ SameFamily(a, alg, "mac")
    BY <2>1 DEF AlgorithmPermits, SameFamily
  <2>3. n = MacLength(alg)
    BY <1>1, <1>4, <2>1, <2>2, MacPolicyByLength
  <2> QED
    BY <1>1, <1>2, <1>4, <2>1, <2>2, <2>3, MacPolicyByLength
<1>5. CASE b.least /\ ~a.least /\ n <= m
  <2>1. AlgorithmPermits(type, a, alg)
    BY <1>5 DEF IntersectMac
  <2>2. SameFamily(b, alg, "mac") /\ SameFamily(a, alg, "mac")
    BY <2>1 DEF AlgorithmPermits, SameFamily
  <2>3. m = MacLength(alg)
    BY <1>1, <1>5, <2>1, <2>2, MacPolicyByLength
  <2> QED
    BY <1>1, <1>2, <1>5, <2>1, <2>2, <2>3, MacPolicyByLength
<1>6. CASE ~a.least /\ ~b.least /\ m = n
  <2> DEFINE r == Exactly(a, m)
  <2>1. m = FullLength[a.base]
    <3>1. /\ a.kind = b.kind /\ a.sub = b.sub /\ a.base = b.base
          /\ a.least = b.least
      BY <1>1, <1>6 DEF SameFamily
    <3>2. a.len # b.len
      BY <3>1 DEF Algorithm
    <3> QED
      BY <1>6, <3>1, <3>2 DEF MacLength
  <2>2. r \in Algorithm /\ MacLength(r) = m
    <3> HIDE DEF m
    <3>1. m \in 1 .. CodeOfLength /\ m \in 0 .. CodeOfLength
      BY <1>1 DEF CodeOfLength
    <3>2. m = CodeOfLength => FullLength[a.base] = CodeOfLength
      BY <1>1 DEF CodeOfLength
    <3> QED
      BY <3>1, <3>2, BuiltMacLength, BuiltAlgorithms
  <2>3. r.kind = a.kind /\ r.base = a.base /\ r.sub = a.sub /\ r.least = FALSE
    BY DEF Exactly
  <2>4. AlgorithmPermits(type, r, alg)
    BY <1>6 DEF IntersectMac
  <2> HIDE DEF r, m, n
  <2>5. SameFamily(r, alg, "mac") /\ MacKeyCanDo(r, type)
    BY <2>3, <2>4 DEF AlgorithmPermits, SameFamily, MacKeyCanDo
  <2>6. MacLength(alg) = m
    BY <2>2, <2>3, <2>4, <2>5, MacPolicyByLength
  <2>7. SameFamily(a, alg, "mac") /\ SameFamily(b, alg, "mac")
    BY <2>3, <2>5 DEF SameFamily
  <2> QED
    BY <1>1, <1>6, <2>1, <2>6, <2>7, MacPolicyByLength DEF m, n
<1>7. CASE ~(\/ a.least /\ b.least
             \/ a.least /\ ~b.least /\ m <= n
             \/ b.least /\ ~a.least /\ n <= m
             \/ ~a.least /\ ~b.least /\ m = n)
  <2>1. IntersectMac(a, b) = NoAlgorithm
    BY <1>7 DEF IntersectMac
  <2> QED
    BY <2>1, NothingPermitted
<1> QED
  BY <1>3, <1>4, <1>5, <1>6, <1>7

LEMMA IntersectionPermits ==
    ASSUME NEW type, NEW a \in Algorithm, NEW b \in Algorithm,
           NEW alg \in Algorithm, alg # NoAlgorithm, ~IsWildcard(alg), Real(alg),
           AlgorithmPermits(type, Intersection(type, a, b), alg)
    PROVE  AlgorithmPermits(type, a, alg) /\ AlgorithmPermits(type, b, alg)
<1>1. CASE a = b
  BY <1>1 DEF Intersection
<1>2. CASE a # b /\ SameFamily(a, b, "sign")
  <2>1. Intersection(type, a, b) = IntersectSign(a, b)
    BY <1>2 DEF Intersection, SameFamily
  <2> QED
    BY <1>2, <2>1, SignPermits
<1>3. CASE a # b /\ SameFamily(a, b, "aead")
  <2>1. Intersection(type, a, b) = IntersectAead(a, b)
    BY <1>3 DEF Intersection, SameFamily
  <2> QED
    BY <1>3, <2>1, AeadPermits
<1>4. CASE a # b /\ SameFamily(a, b, "mac") /\ MacKeyCanDo(a, type)
  <2>1. Intersection(type, a, b) = IntersectMac(a, b)
    BY <1>4 DEF Intersection, SameFamily
  <2> QED
    BY <1>4, <2>1, MacPermits
<1>5. CASE ~(\/ a = b \/ SameFamily(a, b, "sign") \/ SameFamily(a, b, "aead")
             \/ SameFamily(a, b, "mac") /\ MacKeyCanDo(a, type))
  <2>1. Intersection(type, a, b) = NoAlgorithm
    BY <1>5 DEF Intersection
  <2> QED
    BY <2>1, NothingPermitted
<1> QED
  BY <1>1, <1>2, <1>3, <1>4, <1>5

-----------------------------------------------------------------------------
(* The inductive invariant.                                                *)

KeyRecord == [type : KeyTypes, policy : Policy, limits : SUBSET Policy]
KeysType == keys \in Seq(KeyRecord)

MacType == mac \in [active : BOOLEAN, sign : BOOLEAN, size : Nat, key : Nat,
                    alg : Algorithm]
CallRecord == [name : {"nonce", "lengths", "ad", "body", "finish"},
               n : Nat, m : Nat]
AeadRecord == [active : BOOLEAN, encrypt : BOOLEAN, key : Nat,
               alg : Algorithm, nonce : BOOLEAN, lengths : BOOLEAN,
               ad : BOOLEAN, body : BOOLEAN, adLeft : Int,
               bodyLeft : Int, calls : Seq(CallRecord)]
AeadType == aead \in AeadRecord

(* CopiesPermitNothingNew for every algorithm.                             *)
Conforms(key) ==
    \A limit \in key.limits :
        /\ key.policy.usage \subseteq limit.usage
        /\ \A alg \in Algorithm :
              Real(alg) /\ PolicyPermits(key.policy, key.type, alg)
                => PolicyPermits(limit, key.type, alg)

KeysConform == \A k \in DOMAIN keys : Conforms(keys[k])

(* What a setup checked holds as long as the operation is active.          *)
MacCarries ==
    /\ MacType
    /\ mac.active =>
         /\ mac.key \in DOMAIN keys
         /\ mac.alg.kind = "mac"
         /\ MacSizeValid(mac.alg)
         /\ mac.size = MacLength(mac.alg)
         /\ MayUse(mac.key, MacUsage(mac.sign), mac.alg)

AeadCarries ==
    /\ AeadType
    /\ aead.active =>
         /\ aead.key \in DOMAIN keys
         /\ aead.alg.kind = "aead"
         /\ aead.alg.len \in TagLengths[aead.alg.base]
         /\ MayUse(aead.key, AeadUsage(aead.encrypt), aead.alg)

TagCarries ==
    tag # NoTag =>
        /\ tag.key \in DOMAIN keys
        /\ tag.alg \in Algorithm
        /\ MayUse(tag.key, tag.usage, tag.alg)
        /\ IF tag.alg.kind = "mac"
           THEN MacSizeValid(tag.alg) /\ tag.size = MacLength(tag.alg)
           ELSE tag.size = tag.alg.len /\ tag.size \in TagLengths[tag.alg.base]

IInv == KeysType /\ KeysConform /\ MacCarries /\ AeadCarries /\ TagCarries

LEMMA IdleTypes ==
    /\ NoMac \in [active : BOOLEAN, sign : BOOLEAN, size : Nat, key : Nat,
                  alg : Algorithm]
    /\ NoAead \in AeadRecord
BY PolicyAssumption DEF NoMac, NoAead, AeadRecord

LEMMA InitIInv == AuthInit => IInv
<1> SUFFICES ASSUME AuthInit PROVE IInv
  OBVIOUS
<1>1. MacType /\ AeadType
  BY IdleTypes DEF AuthInit, MacType, AeadType
<1> QED
  BY <1>1 DEF AuthInit, IInv, KeysInit, KeysType, KeysConform, MacCarries,
              AeadCarries, TagCarries, NoMac, NoAead

LEMMA UsageType ==
    ASSUME NEW policy \in Policy
    PROVE  WithUsage(policy) \in Policy
BY DEF WithUsage, Policy, Usages

LEMMA IntersectionType ==
    ASSUME NEW type, NEW a \in Algorithm, NEW b \in Algorithm
    PROVE  Intersection(type, a, b) \in Algorithm
<1>1. Larger(a.len, b.len) \in 0 .. CodeOfLength
  BY DEF Larger, Algorithm, EncodedLengths, CodeOfLength
<1>2. /\ MacLength(a) \in 0 .. CodeOfLength
      /\ Larger(MacLength(a), MacLength(b)) \in 0 .. CodeOfLength
  BY MacLengthType DEF Larger, CodeOfLength
<1>3. IntersectSign(a, b) \in Algorithm
  BY PolicyAssumption DEF IntersectSign
<1>4. IntersectAead(a, b) \in Algorithm
  BY <1>1, PolicyAssumption, BuiltAlgorithms DEF IntersectAead
<1>5. IntersectMac(a, b) \in Algorithm
  BY <1>2, PolicyAssumption, BuiltAlgorithms DEF IntersectMac
<1> QED
  BY <1>3, <1>4, <1>5, PolicyAssumption DEF Intersection

LEMMA RestrictedType ==
    ASSUME NEW type, NEW policy \in Policy, NEW constraint \in Policy
    PROVE  Restricted(type, policy, constraint) \in Policy
BY IntersectionType DEF Restricted, Policy

(* psa_restrict_key_policy: the result conforms to both.                   *)
LEMMA RestrictedConforms ==
    ASSUME NEW type, NEW policy \in Policy, NEW constraint \in Policy,
           NEW alg \in Algorithm, Real(alg),
           PolicyPermits(Restricted(type, policy, constraint), type, alg)
    PROVE  /\ PolicyPermits(policy, type, alg)
           /\ PolicyPermits(constraint, type, alg)
<1>1. /\ policy.alg \in Algorithm /\ policy.alg2 \in Algorithm
      /\ constraint.alg \in Algorithm /\ constraint.alg2 \in Algorithm
  BY DEF Policy
<1>2. alg # NoAlgorithm /\ ~IsWildcard(alg)
  BY DEF PolicyPermits
<1>3. CASE AlgorithmPermits(type,
             Intersection(type, policy.alg, constraint.alg), alg)
  BY <1>1, <1>2, <1>3, IntersectionPermits DEF PolicyPermits
<1>4. CASE AlgorithmPermits(type,
             Intersection(type, policy.alg2, constraint.alg2), alg)
  BY <1>1, <1>2, <1>4, IntersectionPermits DEF PolicyPermits
<1> QED
  BY <1>3, <1>4 DEF PolicyPermits, Restricted

(* A new key leaves the others as they are.                                *)
LEMMA Appended ==
    ASSUME KeysType, NEW key \in KeyRecord, keys' = Append(keys, key)
    PROVE  /\ KeysType'
           /\ \A k \in DOMAIN keys : k \in DOMAIN keys' /\ keys'[k] = keys[k]
           /\ \A k \in DOMAIN keys' : k \in DOMAIN keys \/ keys'[k] = key
BY DEF KeysType

LEMMA Imported ==
    ASSUME IInv, NEW type \in KeyTypes, NEW wanted \in Wanted[type],
           ImportKey(type, wanted)
    PROVE  KeysType' /\ KeysConform' /\ DOMAIN keys = {}
<1> DEFINE policy == WithUsage(wanted)
<1>1. wanted \in Policy
  BY PolicyAssumption
<1>2. policy \in Policy
  BY <1>1, UsageType
<1> HIDE DEF policy
<1>3. keys = <<>> /\ keys' = <<Key(type, policy, {policy})>>
  BY DEF ImportKey, policy
<1>4. Key(type, policy, {policy}) \in KeyRecord
  BY <1>2 DEF Key, KeyRecord
<1>5. Conforms(Key(type, policy, {policy}))
  BY DEF Conforms, Key
<1>6. PICK key : key = Key(type, policy, {policy})
  OBVIOUS
<1>7. keys' = <<key>> /\ key \in KeyRecord /\ Conforms(key)
  BY <1>3, <1>4, <1>5, <1>6
<1>8. KeysType'
  BY <1>7 DEF KeysType
<1>9. \A k \in DOMAIN keys' : keys'[k] = key
  BY <1>7
<1>10. KeysConform'
  BY <1>7, <1>9 DEF KeysConform, Conforms
<1> QED
  BY <1>3, <1>8, <1>10

LEMMA Copied ==
    ASSUME IInv, NEW k \in DOMAIN keys, NEW wanted \in Wanted[keys[k].type],
           CopyKey(k, wanted)
    PROVE  /\ KeysType' /\ KeysConform'
           /\ \A j \in DOMAIN keys : j \in DOMAIN keys' /\ keys'[j] = keys[j]
<1>1. PICK source : source = keys[k]
  OBVIOUS
<1>2. source \in KeyRecord /\ Conforms(source)
  BY <1>1 DEF IInv, KeysType, KeysConform
<1>3. PICK policy : policy = WithUsage(wanted)
  OBVIOUS
<1>4. policy \in Policy
  BY <1>1, <1>2, <1>3, UsageType, PolicyAssumption DEF KeyRecord
<1>5. PICK result : result = Restricted(source.type, policy, source.policy)
  OBVIOUS
<1>6. /\ source.type \in KeyTypes /\ source.policy \in Policy
      /\ source.limits \subseteq Policy
  BY <1>2 DEF KeyRecord
<1>7. result \in Policy
  BY <1>4, <1>5, <1>6, RestrictedType
<1>8. PICK key : key = Key(source.type, result, source.limits \cup {policy})
  OBVIOUS
<1>9. key \in KeyRecord /\ keys' = Append(keys, key)
  BY <1>1, <1>3, <1>4, <1>5, <1>6, <1>7, <1>8 DEF CopyKey, Key, KeyRecord
<1>10. Conforms(key)
  <2> SUFFICES ASSUME NEW limit \in source.limits \cup {policy}
               PROVE  /\ result.usage \subseteq limit.usage
                      /\ \A alg \in Algorithm :
                           Real(alg) /\ PolicyPermits(result, source.type, alg)
                             => PolicyPermits(limit, source.type, alg)
    BY <1>8 DEF Conforms, Key
  <2>1. /\ result.usage \subseteq policy.usage
        /\ result.usage \subseteq source.policy.usage
    BY <1>5 DEF Restricted
  <2>2. ASSUME NEW alg \in Algorithm, Real(alg),
               PolicyPermits(result, source.type, alg)
        PROVE  /\ PolicyPermits(policy, source.type, alg)
               /\ PolicyPermits(source.policy, source.type, alg)
    BY <1>4, <1>5, <1>6, <2>2, RestrictedConforms
  <2>3. CASE limit = policy
    BY <2>1, <2>2, <2>3
  <2>4. CASE limit \in source.limits
    BY <1>2, <2>1, <2>2, <2>4 DEF Conforms
  <2> QED
    BY <2>3, <2>4
<1>11. KeysType
  BY DEF IInv
<1>12. /\ KeysType'
       /\ \A j \in DOMAIN keys : j \in DOMAIN keys' /\ keys'[j] = keys[j]
       /\ \A j \in DOMAIN keys' : j \in DOMAIN keys \/ keys'[j] = key
  BY <1>9, <1>11, Appended
<1>13. KeysConform'
  <2> SUFFICES ASSUME NEW j \in DOMAIN keys'
               PROVE  Conforms(keys'[j])
    BY DEF KeysConform, Conforms
  <2> QED
    BY <1>10, <1>12 DEF IInv, KeysConform
<1> QED
  BY <1>12, <1>13

-----------------------------------------------------------------------------
(* The operations.                                                         *)

LEMMA KeysStayUsable ==
    ASSUME IInv, tag' = NoTag, UNCHANGED <<mac, aead>>,
           \A k \in DOMAIN keys : k \in DOMAIN keys' /\ keys'[k] = keys[k]
    PROVE  MacCarries' /\ AeadCarries' /\ TagCarries'
BY DEF IInv, MacCarries, AeadCarries, TagCarries, MayUse, MacType, AeadType

LEMMA KeysStep ==
    ASSUME IInv, ManageKeys
    PROVE  IInv'
<1>1. CASE \E type \in KeyTypes : \E wanted \in Wanted[type] :
              ImportKey(type, wanted)
  <2>1. KeysType' /\ KeysConform' /\ DOMAIN keys = {}
    BY <1>1, Imported
  <2>2. \A k \in DOMAIN keys : k \in DOMAIN keys' /\ keys'[k] = keys[k]
    BY <2>1
  <2>3. tag' = NoTag /\ UNCHANGED <<mac, aead>>
    BY DEF ManageKeys
  <2>4. MacCarries' /\ AeadCarries' /\ TagCarries'
    BY <2>2, <2>3, KeysStayUsable
  <2> QED
    BY <2>1, <2>4 DEF IInv
<1>2. CASE \E k \in DOMAIN keys : \E wanted \in Wanted[keys[k].type] :
              CopyKey(k, wanted)
  <2>1. /\ KeysType' /\ KeysConform'
        /\ \A j \in DOMAIN keys : j \in DOMAIN keys' /\ keys'[j] = keys[j]
    BY <1>2, Copied
  <2>2. tag' = NoTag /\ UNCHANGED <<mac, aead>>
    BY DEF ManageKeys
  <2>3. MacCarries' /\ AeadCarries' /\ TagCarries'
    BY <2>1, <2>2, KeysStayUsable
  <2> QED
    BY <2>1, <2>3 DEF IInv
<1> QED
  BY <1>1, <1>2 DEF ManageKeys

(* With the keys unchanged it is enough to look at the rest.               *)
LEMMA KeysUnchanged ==
    ASSUME IInv, UNCHANGED keys
    PROVE  KeysType' /\ KeysConform'
BY DEF IInv, KeysType, KeysConform, Conforms

LEMMA TagTyped ==
    ASSUME NEW usage, NEW k, NEW alg, NEW size, NEW calls
    PROVE  /\ Tag(usage, k, alg, size, calls).usage = usage
           /\ Tag(usage, k, alg, size, calls).key = k
           /\ Tag(usage, k, alg, size, calls).alg = alg
           /\ Tag(usage, k, alg, size, calls).size = size
BY DEF Tag

LEMMA MacUnchanged ==
    ASSUME IInv, UNCHANGED <<keys, mac>>
    PROVE  MacCarries'
BY DEF IInv, MacCarries, MacType, MayUse

LEMMA AeadUnchanged ==
    ASSUME IInv, UNCHANGED <<keys, aead>>
    PROVE  AeadCarries'
BY DEF IInv, AeadCarries, AeadType, MayUse

LEMMA MacInactive ==
    ASSUME MacType', ~mac'.active
    PROVE  MacCarries'
BY DEF MacCarries

LEMMA NoTagCarries ==
    ASSUME tag' = NoTag
    PROVE  TagCarries'
BY DEF TagCarries

(* A tag of what an active operation carries.                              *)
LEMMA MacTagCarries ==
    ASSUME IInv, UNCHANGED keys, mac.active,
           NEW size, size = mac.size,
           tag' = Tag(MacUsage(mac.sign), mac.key, mac.alg, size, <<>>)
    PROVE  TagCarries'
BY TagTyped DEF IInv, TagCarries, MacCarries, MacType, MayUse

LEMMA MacSetupStep ==
    ASSUME IInv, NEW k \in DOMAIN keys, NEW alg \in Requests,
           NEW sign \in BOOLEAN, MacSetup(k, alg, sign)
    PROVE  MacCarries'
<1>0. k \in Nat
  BY DEF IInv, KeysType
<1>1. alg \in Algorithm /\ MacLength(alg) \in Nat /\ k \in Nat
  <2>1. alg \in Algorithm
    BY PolicyAssumption
  <2> QED
    BY <1>0, <2>1, MacLengthType DEF CodeOfLength
<1>2. MacType /\ ~mac.active /\ UNCHANGED keys
  BY DEF IInv, MacCarries, MacSetup
<1>3. CASE \/ mac' = [mac EXCEPT !.size = MacLength(alg)]
           \/ mac' = [mac EXCEPT !.size = MacLength(alg), !.sign = sign]
  <2>1. MacType' /\ ~mac'.active
    BY <1>1, <1>2, <1>3 DEF MacType
  <2> QED
    BY <2>1, MacInactive
<1>4. CASE /\ MacSizeValid(alg)
           /\ mac' = [active |-> TRUE, sign |-> sign,
                      size |-> MacLength(alg), key |-> k, alg |-> alg]
  <2>1. MacType'
    BY <1>1, <1>4 DEF MacType
  <2>2. MacKeyValid(k, alg) /\ MayUse(k, MacUsage(sign), alg)
    BY DEF MacSetup
  <2> QED
    BY <1>2, <1>4, <2>1, <2>2 DEF MacCarries, MacKeyValid, MayUse
<1> QED
  BY <1>3, <1>4 DEF MacSetup

LEMMA MacStep ==
    ASSUME IInv, MacNext
    PROVE  IInv'
<1>1. ASSUME NEW k \in DOMAIN keys, NEW alg \in Requests,
             NEW sign \in BOOLEAN, MacSetup(k, alg, sign)
      PROVE  IInv'
  <2>1. UNCHANGED <<keys, aead>> /\ tag' = NoTag
    BY <1>1 DEF MacSetup
  <2> QED
    BY <1>1, <2>1, MacSetupStep, AeadUnchanged, NoTagCarries, KeysUnchanged
       DEF IInv
<1>2. ASSUME NEW k \in DOMAIN keys, NEW alg \in Requests,
             NEW sign \in BOOLEAN, NEW room \in Rooms,
             MacOneShot(k, alg, sign, room)
      PROVE  IInv'
  <2>1. alg \in Algorithm
    BY PolicyAssumption
  <2>2. UNCHANGED <<keys, mac, aead>>
    BY <1>2 DEF MacOneShot
  <2>3. /\ MacKeyValid(k, alg) /\ MacSizeValid(alg)
        /\ MayUse(k, MacUsage(sign), alg)
    BY <1>2 DEF MacOneShot, MacComputes
  <2>4. tag' = Tag(MacUsage(sign), k, alg, MacLength(alg), <<>>)
    BY <1>2 DEF MacOneShot
  <2>5. TagCarries'
    BY <2>1, <2>2, <2>3, <2>4, TagTyped DEF TagCarries, MacKeyValid, MayUse
  <2> QED
    BY <2>2, <2>5, KeysUnchanged, MacUnchanged, AeadUnchanged DEF IInv
<1>3. ASSUME NEW room \in Rooms, MacSignFinish(room)
      PROVE  IInv'
  <2>1. UNCHANGED <<keys, aead>>
    BY <1>3 DEF MacSignFinish
  <2>2. MacCarries'
    <3>1. MacType
      BY DEF IInv, MacCarries
    <3>2. CASE mac' = NoMac
      BY <3>2, IdleTypes, MacInactive DEF MacType, NoMac
    <3>3. CASE ~mac.active /\ mac' = [mac EXCEPT !.size = 0]
      BY <3>1, <3>3, MacInactive DEF MacType
    <3> QED
      BY <1>3, <3>2, <3>3 DEF MacSignFinish
  <2>3. ASSUME tag' = NoTag
        PROVE  TagCarries'
    BY <2>3, NoTagCarries
  <2>4. ASSUME mac.active, mac.sign,
               tag' = Tag("sign_message", mac.key, mac.alg, mac.size, <<>>)
        PROVE  TagCarries'
    <3>1. MacUsage(mac.sign) = "sign_message"
      BY <2>4 DEF MacUsage
    <3> QED
      BY <2>1, <2>4, <3>1, MacTagCarries
  <2>5. TagCarries'
    BY <1>3, <2>3, <2>4 DEF MacSignFinish
  <2> QED
    BY <2>1, <2>2, <2>5, KeysUnchanged, AeadUnchanged DEF IInv
<1>4. ASSUME NEW length \in Rooms, MacVerifyFinish(length)
      PROVE  IInv'
  <2>1. UNCHANGED <<keys, aead>>
    BY <1>4 DEF MacVerifyFinish
  <2>2. MacCarries'
    <3>1. CASE mac' = NoMac
      BY <3>1, IdleTypes, MacInactive DEF MacType, NoMac
    <3>2. CASE mac' = mac
      BY <2>1, <3>2, MacUnchanged
    <3> QED
      BY <1>4, <3>1, <3>2 DEF MacVerifyFinish, MacAborted
  <2>3. ASSUME tag' = NoTag
        PROVE  TagCarries'
    BY <2>3, NoTagCarries
  <2>4. ASSUME mac.active, ~mac.sign, mac.size = length,
               tag' = Tag("verify_message", mac.key, mac.alg, length, <<>>)
        PROVE  TagCarries'
    <3>1. MacUsage(mac.sign) = "verify_message"
      BY <2>4 DEF MacUsage
    <3> QED
      BY <2>1, <2>4, <3>1, MacTagCarries
  <2>5. TagCarries'
    BY <1>4, <2>3, <2>4 DEF MacVerifyFinish
  <2> QED
    BY <2>1, <2>2, <2>5, KeysUnchanged, AeadUnchanged DEF IInv
<1>5. CASE MacSetupInUse \/ MacUpdateFails \/ MacAbort
  <2>1. UNCHANGED <<keys, aead>> /\ tag' = NoTag
    BY <1>5 DEF MacSetupInUse, MacUpdateFails, MacAbort
  <2>2. MacCarries'
    <3>1. CASE mac' = NoMac
      BY <3>1, IdleTypes, MacInactive DEF MacType, NoMac
    <3>2. CASE mac' = mac
      BY <2>1, <3>2, MacUnchanged
    <3> QED
      BY <1>5, <3>1, <3>2 DEF MacSetupInUse, MacUpdateFails, MacAbort, MacAborted
  <2> QED
    BY <2>1, <2>2, NoTagCarries, KeysUnchanged, AeadUnchanged DEF IInv
<1> QED
  BY <1>1, <1>2, <1>3, <1>4, <1>5 DEF MacNext

(* The calls between setup and finish keep the key, the algorithm and the  *)
(* direction, or end the operation.                                        *)
LEMMA AeadKeepsSetup ==
    ASSUME IInv, NEW ok, NEW next, AeadEnds(ok, next),
           next \in AeadRecord,
           next.active = aead.active, next.encrypt = aead.encrypt,
           next.key = aead.key, next.alg = aead.alg
    PROVE  IInv'
<1>1. UNCHANGED <<keys, mac>> /\ tag' = NoTag
  BY DEF AeadEnds
<1>2. ASSUME aead' = NoAead
      PROVE  AeadCarries'
  BY <1>2, IdleTypes DEF AeadCarries, AeadType, NoAead
<1>3. ASSUME aead' = next
      PROVE  AeadCarries'
  <2>1. AeadType'
    BY <1>3 DEF AeadType
  <2>2. /\ aead'.active = aead.active /\ aead'.encrypt = aead.encrypt
        /\ aead'.key = aead.key /\ aead'.alg = aead.alg
    BY <1>3
  <2> QED
    BY <1>1, <2>1, <2>2 DEF IInv, AeadCarries, MayUse
<1>4. AeadCarries'
  BY <1>2, <1>3 DEF AeadEnds
<1> QED
  BY <1>1, <1>4, NoTagCarries, KeysUnchanged, MacUnchanged DEF IInv

LEMMA ToldType ==
    ASSUME IInv, NEW call \in CallRecord
    PROVE  Told(call) \in Seq(CallRecord)
<1>1. aead.calls \in Seq(CallRecord)
  BY DEF IInv, AeadCarries, AeadType, AeadRecord
<1> QED
  BY <1>1 DEF Told

LEMMA AeadStep ==
    ASSUME IInv, AeadNext
    PROVE  IInv'
<1>0. /\ AeadType
      /\ \A n \in Fragments : n \in Nat
  BY MacAeadAssumption DEF IInv, AeadCarries, Fragments
<1>1. ASSUME NEW k \in DOMAIN keys, NEW alg \in Requests,
             NEW encrypt \in BOOLEAN, AeadSetup(k, alg, encrypt)
      PROVE  IInv'
  <2>1. alg \in Algorithm /\ k \in Nat
    BY PolicyAssumption DEF IInv, KeysType
  <2>2. UNCHANGED <<keys, mac>> /\ tag' = NoTag
    BY <1>1 DEF AeadSetup
  <2>3. AeadType'
    BY <1>1, <2>1, IdleTypes DEF AeadSetup, AeadType, AeadRecord
  <2>4. /\ aead'.key = k /\ aead'.alg = alg /\ aead'.encrypt = encrypt
    BY <1>1 DEF AeadSetup, NoAead
  <2>5. AeadCarries'
    BY <1>1, <2>2, <2>3, <2>4
       DEF AeadSetup, AeadCarries, IsAeadAlgorithm, MayUse
  <2> QED
    BY <2>2, <2>5, NoTagCarries, KeysUnchanged, MacUnchanged DEF IInv
<1>2. ASSUME NEW k \in DOMAIN keys, NEW alg \in Requests,
             NEW encrypt \in BOOLEAN, AeadOneShot(k, alg, encrypt)
      PROVE  IInv'
  <2>1. alg \in Algorithm
    BY PolicyAssumption
  <2>2. UNCHANGED <<keys, mac, aead>>
    BY <1>2 DEF AeadOneShot
  <2>3. /\ alg.kind = "aead" /\ alg.len \in TagLengths[alg.base]
        /\ MayUse(k, AeadUsage(encrypt), alg)
        /\ tag' = Tag(AeadUsage(encrypt), k, alg, alg.len, <<>>)
    BY <1>2 DEF AeadOneShot, IsAeadAlgorithm
  <2>4. TagCarries'
    BY <2>1, <2>2, <2>3, TagTyped DEF TagCarries, MayUse
  <2> QED
    BY <2>2, <2>4, KeysUnchanged, MacUnchanged, AeadUnchanged DEF IInv
<1>3. CASE AeadGenerateNonce \/ AeadSetNonce
  <2>1. PICK call : call = Call("nonce", 0, 0)
    OBVIOUS
  <2>2. call \in CallRecord
    BY <1>0, <2>1 DEF Call, CallRecord
  <2>3. PICK told : told = Told(call)
    OBVIOUS
  <2>4. told \in Seq(CallRecord)
    BY <2>2, <2>3, ToldType
  <2>5. PICK next : next = [aead EXCEPT !.nonce = TRUE, !.calls = told]
    OBVIOUS
  <2>6. /\ next \in AeadRecord
        /\ next.active = aead.active /\ next.encrypt = aead.encrypt
        /\ next.key = aead.key /\ next.alg = aead.alg
    BY <1>0, <2>4, <2>5 DEF AeadType, AeadRecord
  <2>7. \E ok : AeadEnds(ok, next)
    BY <1>3, <2>1, <2>3, <2>5 DEF AeadGenerateNonce, AeadSetNonce, NonceSet
  <2> QED
    BY <2>6, <2>7, AeadKeepsSetup
<1>4. ASSUME NEW ad \in Fragments, NEW body \in Fragments,
             AeadSetLengths(ad, body)
      PROVE  IInv'
  <2>1. PICK call : call = Call("lengths", ad, body)
    OBVIOUS
  <2>2. call \in CallRecord
    BY <1>0, <2>1 DEF Call, CallRecord
  <2>3. PICK told : told = Told(call)
    OBVIOUS
  <2>4. told \in Seq(CallRecord)
    BY <2>2, <2>3, ToldType
  <2>5. PICK next : next = [aead EXCEPT !.lengths = TRUE, !.adLeft = ad,
                                       !.bodyLeft = body, !.calls = told]
    OBVIOUS
  <2>6. /\ next \in AeadRecord
        /\ next.active = aead.active /\ next.encrypt = aead.encrypt
        /\ next.key = aead.key /\ next.alg = aead.alg
    <3>1. ad \in Int /\ body \in Int
      BY <1>0
    <3>2. aead \in AeadRecord
      BY <1>0 DEF AeadType
    <3> QED
      BY <2>4, <2>5, <3>1, <3>2 DEF AeadRecord
  <2>7. \E ok : AeadEnds(ok, next)
    BY <1>4, <2>1, <2>3, <2>5 DEF AeadSetLengths
  <2> QED
    BY <2>6, <2>7, AeadKeepsSetup
<1>5. ASSUME NEW n \in Fragments, AeadUpdateAd(n)
      PROVE  IInv'
  <2>1. PICK call : call = Call("ad", n, 0)
    OBVIOUS
  <2>2. call \in CallRecord
    BY <1>0, <2>1 DEF Call, CallRecord
  <2>3. PICK told : told = Told(call)
    OBVIOUS
  <2>4. told \in Seq(CallRecord)
    BY <2>2, <2>3, ToldType
  <2>5. PICK left : left = IF aead.lengths THEN aead.adLeft - n ELSE aead.adLeft
    OBVIOUS
  <2>6. left \in Int
    BY <1>0, <2>5 DEF AeadType, AeadRecord
  <2>7. PICK next : next = [aead EXCEPT !.ad = TRUE, !.adLeft = left,
                                       !.calls = told]
    OBVIOUS
  <2>8. /\ next \in AeadRecord
        /\ next.active = aead.active /\ next.encrypt = aead.encrypt
        /\ next.key = aead.key /\ next.alg = aead.alg
    BY <1>0, <2>4, <2>6, <2>7 DEF AeadType, AeadRecord
  <2>9. \E ok : AeadEnds(ok, next)
    BY <1>5, <2>1, <2>3, <2>5, <2>7 DEF AeadUpdateAd
  <2> QED
    BY <2>8, <2>9, AeadKeepsSetup
<1>6. ASSUME NEW n \in Fragments, AeadUpdate(n)
      PROVE  IInv'
  <2>1. PICK call : call = Call("body", n, 0)
    OBVIOUS
  <2>2. call \in CallRecord
    BY <1>0, <2>1 DEF Call, CallRecord
  <2>3. PICK told : told = Told(call)
    OBVIOUS
  <2>4. told \in Seq(CallRecord)
    BY <2>2, <2>3, ToldType
  <2>5. PICK left : left = IF aead.lengths THEN aead.bodyLeft - n ELSE aead.bodyLeft
    OBVIOUS
  <2>6. left \in Int
    BY <1>0, <2>5 DEF AeadType, AeadRecord
  <2>7. PICK next : next = [aead EXCEPT !.body = TRUE, !.bodyLeft = left,
                                       !.calls = told]
    OBVIOUS
  <2>8. /\ next \in AeadRecord
        /\ next.active = aead.active /\ next.encrypt = aead.encrypt
        /\ next.key = aead.key /\ next.alg = aead.alg
    BY <1>0, <2>4, <2>6, <2>7 DEF AeadType, AeadRecord
  <2>9. \E ok : AeadEnds(ok, next)
    BY <1>6, <2>1, <2>3, <2>5, <2>7 DEF AeadUpdate
  <2> QED
    BY <2>8, <2>9, AeadKeepsSetup
<1>7. ASSUME NEW encrypt \in BOOLEAN, NEW room \in Rooms,
             AeadFinish(encrypt, room)
      PROVE  IInv'
  <2>1. UNCHANGED <<keys, mac>> /\ aead' = NoAead
    BY <1>7 DEF AeadFinish
  <2>2. AeadCarries'
    BY <2>1, IdleTypes DEF AeadCarries, AeadType, NoAead
  <2>3. ASSUME tag' = NoTag
        PROVE  TagCarries'
    BY <2>3, NoTagCarries
  <2>4. ASSUME aead.active, aead.encrypt = encrypt,
               tag' = Tag(AeadUsage(encrypt), aead.key, aead.alg,
                          aead.alg.len, Told(Call("finish", 0, 0)))
        PROVE  TagCarries'
    <3>1. /\ aead.key \in DOMAIN keys /\ aead.alg \in Algorithm
          /\ aead.alg.kind = "aead"
          /\ aead.alg.len \in TagLengths[aead.alg.base]
          /\ MayUse(aead.key, AeadUsage(encrypt), aead.alg)
      BY <2>4 DEF IInv, AeadCarries, AeadType, AeadRecord
    <3>2. /\ tag'.usage = AeadUsage(encrypt) /\ tag'.key = aead.key
          /\ tag'.alg = aead.alg /\ tag'.size = aead.alg.len
      BY <2>4, TagTyped
    <3> QED
      BY <2>1, <3>1, <3>2 DEF TagCarries, MayUse
  <2>5. TagCarries'
    BY <1>7, <2>3, <2>4 DEF AeadFinish, FinalChecks
  <2> QED
    BY <2>1, <2>2, <2>5, KeysUnchanged, MacUnchanged DEF IInv
<1>8. CASE AeadSetupFails \/ AeadAbort
  <2>1. UNCHANGED <<keys, mac>> /\ aead' = NoAead /\ tag' = NoTag
    BY <1>8 DEF AeadSetupFails, AeadAbort
  <2>2. AeadCarries'
    BY <2>1, IdleTypes DEF AeadCarries, AeadType, NoAead
  <2> QED
    BY <2>1, <2>2, NoTagCarries, KeysUnchanged, MacUnchanged DEF IInv
<1> QED
  BY <1>1, <1>2, <1>3, <1>4, <1>5, <1>6, <1>7, <1>8 DEF AeadNext

LEMMA Stutters ==
    ASSUME IInv, UNCHANGED authVars
    PROVE  IInv'
<1>1. UNCHANGED <<keys, mac, aead, tag>>
  BY DEF authVars
<1>2. TagCarries'
  BY <1>1 DEF IInv, TagCarries, MayUse
<1> QED
  BY <1>1, <1>2, KeysUnchanged, MacUnchanged, AeadUnchanged DEF IInv

LEMMA Invariance == AuthSpec => []IInv
<1>1. IInv /\ [AuthNext]_authVars => IInv'
  BY KeysStep, MacStep, AeadStep, Stutters DEF AuthNext
<1> QED
  BY <1>1, InitIInv, PTL DEF AuthSpec

-----------------------------------------------------------------------------
(* psa_copy_key: for any algorithms and lengths, and chains of copies of   *)
(* any length, a key permits nothing that a key it descends from, or a     *)
(* policy asked for on the way, does not.                                  *)
THEOREM CopiesConform == AuthSpec => []CopiesPermitNothingNew
<1>1. IInv => CopiesPermitNothingNew
  BY PolicyAssumption
     DEF IInv, KeysConform, Conforms, CopiesPermitNothingNew
<1> QED
  BY <1>1, Invariance, PTL

(* psa_mac_sign_finish, psa_mac_verify_finish, psa_mac_compute and the     *)
(* AEAD calls: a tag given out or accepted has the length of an algorithm  *)
(* that every policy behind the key permits for that use.                  *)
THEOREM TagsAreLongEnough == AuthSpec => []TagsConform
<1>1. IInv => TagsConform
  <2> SUFFICES ASSUME IInv, tag # NoTag PROVE TagsConform
    BY DEF TagsConform
  <2>1. /\ tag.key \in DOMAIN keys /\ tag.alg \in Algorithm
        /\ MayUse(tag.key, tag.usage, tag.alg)
        /\ IF tag.alg.kind = "mac"
           THEN MacSizeValid(tag.alg) /\ tag.size = MacLength(tag.alg)
           ELSE tag.size = tag.alg.len /\ tag.size \in TagLengths[tag.alg.base]
    BY DEF IInv, TagCarries
  <2>2. Real(tag.alg)
    BY <2>1 DEF Real, MacSizeValid
  <2>3. Conforms(keys[tag.key])
    BY <2>1 DEF IInv, KeysConform
  <2>4. \A limit \in keys[tag.key].limits :
          /\ tag.usage \in limit.usage
          /\ PolicyPermits(limit, keys[tag.key].type, tag.alg)
    BY <2>1, <2>2, <2>3 DEF Conforms, MayUse
  <2>5. tag.alg.kind = "mac" => tag.size \in 4 .. FullLength[tag.alg.base]
    BY <2>1, MacLengthType, PolicyAssumption
       DEF MacSizeValid, Algorithm, CodeOfLength
  <2> QED
    BY <2>1, <2>4, <2>5 DEF TagsConform
<1> QED
  BY <1>1, Invariance, PTL

-----------------------------------------------------------------------------
(* The calls that the driver is given.                                     *)

Carried(call, name) == IF call.name = name THEN call.n ELSE 0

LEMMA GivenIs ==
    ASSUME NEW calls \in Seq(CallRecord), NEW name
    PROVE  /\ Given(name, calls)[0] = 0
           /\ \A i \in 1 .. Len(calls) :
                 Given(name, calls)[i] =
                    Given(name, calls)[i - 1] + Carried(calls[i], name)
           /\ \A i \in 0 .. Len(calls) : Given(name, calls)[i] \in Nat
<1>1. PICK n \in Nat : n = Len(calls)
  OBVIOUS
<1> DEFINE add == [i \in Nat |-> IF i \in 1 .. n THEN Carried(calls[i], name) ELSE 0]
           G == [i \in Nat |-> [x \in Nat |-> x + add[i]]]
<1>2. add \in [Nat -> Nat]
  <2>1. \A i \in 1 .. n : calls[i] \in CallRecord
    BY <1>1
  <2>2. \A i \in 1 .. n : Carried(calls[i], name) \in Nat
    BY <2>1 DEF CallRecord, Carried
  <2> QED
    BY <2>2
<1>3. \A i \in 1 .. n : add[i] = IF calls[i].name = name THEN calls[i].n ELSE 0
  BY DEF Carried
<1> HIDE DEF add
<1>4. G \in [Nat -> [Nat -> Nat]]
  BY <1>2
<1>5. PICK f : IsRecursive(f, n, Nat, 0, G)
  <2> HIDE DEF G
  <2>1. QED
    BY <1>4, RecursionExists
<1>6. \A i \in 1 .. n : f[i] = f[i - 1] + add[i]
  <2> TAKE i \in 1 .. n
  <2>1. i \in Nat /\ i - 1 \in 0 .. n
    BY <1>1
  <2>2. f[i - 1] \in Nat
    BY <1>5, <2>1 DEF IsRecursive
  <2> QED
    BY <1>5, <2>1, <2>2 DEF IsRecursive
<1>7. f = [i \in 0 .. Len(calls) |->
              IF i = 0 THEN 0
              ELSE f[i - 1] + (IF calls[i].name = name THEN calls[i].n ELSE 0)]
  <2>1. \A i \in 0 .. n : i = 0 \/ i \in 1 .. n
    OBVIOUS
  <2>2. \A i \in 0 .. n :
           f[i] = IF i = 0 THEN 0
                  ELSE f[i - 1] + (IF calls[i].name = name THEN calls[i].n ELSE 0)
    BY <1>3, <1>5, <1>6, <2>1, Zenon DEF IsRecursive
  <2>3. f \in [0 .. n -> Nat]
    BY <1>5 DEF IsRecursive
  <2> QED
    BY <1>1, <2>2, <2>3
<1>8. Given(name, calls) = [i \in 0 .. Len(calls) |->
         IF i = 0 THEN 0
         ELSE Given(name, calls)[i - 1]
                 + (IF calls[i].name = name THEN calls[i].n ELSE 0)]
  BY <1>7 DEF Given
<1> DEFINE sum == Given(name, calls)
<1>9. \A i \in 0 .. n : sum[i] = IF i = 0 THEN 0
         ELSE sum[i - 1] + (IF calls[i].name = name THEN calls[i].n ELSE 0)
  BY <1>1, <1>8
<1> HIDE DEF sum, G
<1>10. sum[0] = 0 /\ \A i \in 1 .. n : sum[i] = sum[i - 1] + Carried(calls[i], name)
  <2>1. 0 \in 0 .. n /\ \A i \in 1 .. n : i \in 0 .. n /\ i # 0
    OBVIOUS
  <2> QED
    BY <1>9, <2>1, Zenon DEF Carried
<1> DEFINE S == {i \in Nat : sum[i] \in Nat}
<1>11. \A i \in 0 .. n : i \in S
  <2>1. 0 \in S
    BY <1>10
  <2>2. ASSUME NEW i \in 0 .. n - 1, i \in S PROVE i + 1 \in S
    <3>1. i + 1 \in 1 .. n /\ (i + 1) - 1 = i /\ i + 1 \in Nat /\ sum[i] \in Nat
      BY <2>2
    <3>2. sum[i + 1] = sum[i] + add[i + 1]
      BY <1>3, <1>10, <3>1, Zenon DEF Carried
    <3>3. add[i + 1] \in Nat
      BY <1>2, <3>1
    <3> QED
      BY <3>1, <3>2, <3>3
  <2>3. S \in SUBSET Nat
    OBVIOUS
  <2> HIDE DEF S
  <2> QED
    BY <2>1, <2>2, <2>3, RangeInduction
<1> QED
  BY <1>1, <1>10, <1>11 DEF sum

(* told is calls and one more.                                             *)
OneMore(calls, call, told) ==
    /\ told \in Seq(CallRecord) /\ Len(told) = Len(calls) + 1
    /\ told[Len(told)] = call
    /\ \A i \in 1 .. Len(calls) : told[i] = calls[i]

LEMMA AppendOneMore ==
    ASSUME NEW calls \in Seq(CallRecord), NEW call \in CallRecord
    PROVE  OneMore(calls, call, Append(calls, call))
BY DEF OneMore

(* It changes nothing of what the calls before it gave.                    *)
LEMMA GivenOneMore ==
    ASSUME NEW calls \in Seq(CallRecord), NEW call \in CallRecord, NEW name,
           NEW told, OneMore(calls, call, told)
    PROVE  /\ \A i \in 0 .. Len(calls) : Given(name, told)[i] = Given(name, calls)[i]
           /\ Given(name, told)[Len(told)] =
                 Given(name, calls)[Len(calls)] + Carried(call, name)
<1>1. PICK n \in Nat : n = Len(calls)
  OBVIOUS
<1>2. /\ told \in Seq(CallRecord) /\ Len(told) = n + 1 /\ told[n + 1] = call
      /\ \A i \in 1 .. n : told[i] = calls[i]
  BY <1>1 DEF OneMore
<1>3. PICK old : old = Given(name, calls)
  OBVIOUS
<1>4. PICK new : new = Given(name, told)
  OBVIOUS
<1>5. /\ old[0] = 0 /\ new[0] = 0
      /\ \A i \in 1 .. n : old[i] = old[i - 1] + Carried(calls[i], name)
      /\ \A i \in 1 .. n + 1 : new[i] = new[i - 1] + Carried(told[i], name)
  BY <1>1, <1>2, <1>3, <1>4, GivenIs
<1> DEFINE S == {i \in Nat : new[i] = old[i]}
<1>6. \A i \in 0 .. n : i \in S
  <2>1. 0 \in S
    BY <1>5
  <2>2. ASSUME NEW i \in 0 .. n - 1, i \in S PROVE i + 1 \in S
    <3>1. i + 1 \in 1 .. n /\ i + 1 \in 1 .. n + 1 /\ (i + 1) - 1 = i /\ i + 1 \in Nat
      OBVIOUS
    <3>2. new[i + 1] = new[i] + Carried(told[i + 1], name)
      BY <1>5, <3>1
    <3>3. old[i + 1] = old[i] + Carried(calls[i + 1], name)
      BY <1>5, <3>1
    <3> QED
      BY <1>2, <2>2, <3>1, <3>2, <3>3
  <2>3. S \in SUBSET Nat
    OBVIOUS
  <2> HIDE DEF S
  <2> QED
    BY <2>1, <2>2, <2>3, RangeInduction
<1>7. new[n + 1] = old[n] + Carried(call, name)
  <2>1. n \in 0 .. n /\ n + 1 \in 1 .. n + 1 /\ (n + 1) - 1 = n
    OBVIOUS
  <2> QED
    BY <1>2, <1>5, <1>6, <2>1
<1> QED
  BY <1>1, <1>2, <1>3, <1>4, <1>6, <1>7

Has(calls, names) == \E i \in 1 .. Len(calls) : calls[i].name \in names

(* What InOrder asks of one more call.                                     *)
Continues(calls, call, alg) ==
    LET n == Len(calls)
        ad == Given("ad", calls)[n]
        body == Given("body", calls)[n]
    IN  /\ call.name = "nonce" => ~ Has(calls, {"nonce", "ad", "body"})
        /\ call.name = "lengths" => ~ Has(calls, {"lengths", "ad", "body"})
        /\ call.name \in {"ad", "body", "finish"} => Has(calls, {"nonce"})
        /\ call.name \in {"ad", "body"} /\ alg.base \in NeedLengths =>
              Has(calls, {"lengths"})
        /\ call.name = "ad" => ~ Has(calls, {"body"})
        /\ \A j \in 1 .. n : calls[j].name = "lengths" =>
              /\ ad + Carried(call, "ad") <= calls[j].n
              /\ body + Carried(call, "body") <= calls[j].m
              /\ call.name \in {"body", "finish"} => ad = calls[j].n
              /\ call.name = "finish" => body = calls[j].m

LEMMA ContinuedInOrder ==
    ASSUME NEW calls \in Seq(CallRecord), NEW call \in CallRecord, NEW alg,
           InOrder(calls, alg), Continues(calls, call, alg),
           NEW told, OneMore(calls, call, told)
    PROVE  InOrder(told, alg)
<1>1. PICK n \in Nat : n = Len(calls)
  OBVIOUS
<1>2. /\ told \in Seq(CallRecord) /\ Len(told) = n + 1 /\ told[n + 1] = call
      /\ \A i \in 1 .. n : told[i] = calls[i]
  BY <1>1 DEF OneMore
<1>3. \A name : /\ \A i \in 0 .. n : Given(name, told)[i] = Given(name, calls)[i]
                /\ Given(name, told)[n + 1] =
                      Given(name, calls)[n] + Carried(call, name)
  <2> TAKE name
  <2>1. /\ \A i \in 0 .. Len(calls) : Given(name, told)[i] = Given(name, calls)[i]
        /\ Given(name, told)[Len(told)] =
              Given(name, calls)[Len(calls)] + Carried(call, name)
    BY GivenOneMore
  <2> QED
    BY <1>1, <1>2, <2>1
<1>4. DOMAIN told = 1 .. n + 1 /\ DOMAIN calls = 1 .. n
  BY <1>1, <1>2
<1> DEFINE Before(s, i, names) == {j \in 1 .. i - 1 : s[j].name \in names}
           Ordered(s, i) ==
               /\ s[i].name = "nonce" => Before(s, i, {"nonce", "ad", "body"}) = {}
               /\ s[i].name = "lengths" => Before(s, i, {"lengths", "ad", "body"}) = {}
               /\ s[i].name \in {"ad", "body", "finish"} => Before(s, i, {"nonce"}) # {}
               /\ s[i].name \in {"ad", "body"} /\ alg.base \in NeedLengths =>
                     Before(s, i, {"lengths"}) # {}
               /\ s[i].name = "ad" => Before(s, i, {"body"}) = {}
               /\ \A j \in Before(s, i, {"lengths"}) :
                     /\ Given("ad", s)[i] <= s[j].n
                     /\ Given("body", s)[i] <= s[j].m
                     /\ s[i].name \in {"body", "finish"} =>
                           Given("ad", s)[i - 1] = s[j].n
                     /\ s[i].name = "finish" => Given("body", s)[i - 1] = s[j].m
<1>5. \A s : InOrder(s, alg) <=> \A i \in DOMAIN s : Ordered(s, i)
  BY DEF InOrder
<1>6. ASSUME NEW i \in 1 .. n PROVE Ordered(told, i)
  <2>1. Ordered(calls, i)
    BY <1>4, <1>5
  <2>2. \A names : Before(told, i, names) = Before(calls, i, names)
    BY <1>2
  <2>3. told[i] = calls[i] /\ \A j \in 1 .. i - 1 : told[j] = calls[j]
    BY <1>2
  <2>4. /\ Given("ad", told)[i] = Given("ad", calls)[i]
        /\ Given("body", told)[i] = Given("body", calls)[i]
        /\ Given("ad", told)[i - 1] = Given("ad", calls)[i - 1]
        /\ Given("body", told)[i - 1] = Given("body", calls)[i - 1]
    BY <1>3
  <2>5. \A j \in Before(calls, i, {"lengths"}) : told[j] = calls[j]
    BY <2>3
  <2>6. told[i].name = calls[i].name
    BY <2>3
  <2>7. \A names : Before(told, i, names) = Before(calls, i, names)
    BY <2>2
  <2> HIDE DEF Before
  <2>8. \A j \in Before(told, i, {"lengths"}) :
           /\ Given("ad", told)[i] <= told[j].n
           /\ Given("body", told)[i] <= told[j].m
           /\ told[i].name \in {"body", "finish"} =>
                 Given("ad", told)[i - 1] = told[j].n
           /\ told[i].name = "finish" => Given("body", told)[i - 1] = told[j].m
    <3> TAKE j \in Before(told, i, {"lengths"})
    <3>1. j \in Before(calls, i, {"lengths"}) /\ told[j] = calls[j]
      BY <2>5, <2>7
    <3>2. /\ Given("ad", calls)[i] <= calls[j].n
          /\ Given("body", calls)[i] <= calls[j].m
          /\ calls[i].name \in {"body", "finish"} =>
                Given("ad", calls)[i - 1] = calls[j].n
          /\ calls[i].name = "finish" => Given("body", calls)[i - 1] = calls[j].m
      BY <2>1, <3>1
    <3> QED
      BY <2>4, <2>6, <3>1, <3>2
  <2> QED
    BY <2>1, <2>6, <2>7, <2>8
<1>7. Ordered(told, n + 1)
  <2>1. (n + 1) - 1 = n
    OBVIOUS
  <2>2. \A names : Before(told, n + 1, names) = {j \in 1 .. n : calls[j].name \in names}
    BY <1>2
  <2>3. \A names : Before(told, n + 1, names) # {} <=> Has(calls, names)
    BY <1>1, <2>2 DEF Has
  <2>4. \A j \in Before(told, n + 1, {"lengths"}) :
           j \in 1 .. n /\ calls[j].name = "lengths" /\ told[j] = calls[j]
    BY <1>2, <2>2
  <2>5. /\ Given("ad", told)[n + 1] = Given("ad", calls)[n] + Carried(call, "ad")
        /\ Given("body", told)[n + 1] = Given("body", calls)[n] + Carried(call, "body")
        /\ Given("ad", told)[n] = Given("ad", calls)[n]
        /\ Given("body", told)[n] = Given("body", calls)[n]
    BY <1>3
  <2> HIDE DEF Before
  <2> QED
    BY <1>1, <1>2, <2>1, <2>3, <2>4, <2>5 DEF Continues
<1> HIDE DEF Ordered
<1>8. \A i \in 1 .. n + 1 : i \in 1 .. n \/ i = n + 1
  OBVIOUS
<1> QED
  BY <1>4, <1>5, <1>6, <1>7, <1>8

(* What the fields of an operation say of the calls its driver was given.  *)
Recorded(a) ==
    LET n == Len(a.calls)
        ad == Given("ad", a.calls)[n]
        body == Given("body", a.calls)[n]
    IN  /\ InOrder(a.calls, a.alg)
        /\ a.nonce <=> Has(a.calls, {"nonce"})
        /\ a.lengths <=> Has(a.calls, {"lengths"})
        /\ a.ad <=> Has(a.calls, {"ad"})
        /\ a.body <=> Has(a.calls, {"body"})
        /\ a.ad \/ a.body => a.nonce
        /\ ~ a.ad => ad = 0
        /\ ~ a.body => body = 0
        /\ a.lengths => a.adLeft >= 0 /\ a.bodyLeft >= 0
        /\ \A j \in 1 .. n : a.calls[j].name = "lengths" =>
              a.adLeft = a.calls[j].n - ad /\ a.bodyLeft = a.calls[j].m - body

(* The checks of the calls of the core.                                    *)
Permits(a, call) ==
    /\ call.name = "nonce" => ~ a.nonce
    /\ call.name = "lengths" => ~ (a.lengths \/ a.ad \/ a.body)
    /\ call.name \in {"ad", "body", "finish"} => a.nonce
    /\ call.name \in {"ad", "body"} =>
          a.lengths \/ a.alg.base \notin NeedLengths
    /\ call.name = "ad" => ~ a.body
    /\ a.lengths => /\ Carried(call, "ad") <= a.adLeft
                    /\ Carried(call, "body") <= a.bodyLeft
                    /\ call.name \in {"body", "finish"} => a.adLeft = 0
                    /\ call.name = "finish" => a.bodyLeft = 0

LEMMA PermittedContinues ==
    ASSUME NEW a \in AeadRecord, Recorded(a), NEW call \in CallRecord,
           Permits(a, call)
    PROVE  Continues(a.calls, call, a.alg)
<1>1. PICK calls \in Seq(CallRecord) : calls = a.calls
  BY DEF AeadRecord
<1>2. PICK n \in Nat : n = Len(calls)
  OBVIOUS
<1>3. PICK ad \in Nat : ad = Given("ad", calls)[n]
  BY <1>2, GivenIs
<1>4. PICK body \in Nat : body = Given("body", calls)[n]
  BY <1>2, GivenIs
<1>5. \A j \in 1 .. n : calls[j] \in CallRecord
  BY <1>2
<1>6. call.name = "nonce" => ~ Has(calls, {"nonce", "ad", "body"})
  BY <1>1 DEF Recorded, Permits, Has
<1>7. call.name = "lengths" => ~ Has(calls, {"lengths", "ad", "body"})
  BY <1>1 DEF Recorded, Permits, Has
<1>8. /\ call.name \in {"ad", "body", "finish"} => Has(calls, {"nonce"})
      /\ call.name \in {"ad", "body"} /\ a.alg.base \in NeedLengths =>
            Has(calls, {"lengths"})
      /\ call.name = "ad" => ~ Has(calls, {"body"})
  BY <1>1 DEF Recorded, Permits
<1>9. ASSUME NEW j \in 1 .. n, calls[j].name = "lengths"
      PROVE  /\ ad + Carried(call, "ad") <= calls[j].n
             /\ body + Carried(call, "body") <= calls[j].m
             /\ call.name \in {"body", "finish"} => ad = calls[j].n
             /\ call.name = "finish" => body = calls[j].m
  <2>1. a.adLeft = calls[j].n - ad /\ a.bodyLeft = calls[j].m - body
    BY <1>1, <1>2, <1>3, <1>4, <1>9 DEF Recorded
  <2>2. Has(calls, {"lengths"})
    BY <1>2, <1>9 DEF Has
  <2>3. /\ Carried(call, "ad") <= a.adLeft
        /\ Carried(call, "body") <= a.bodyLeft
        /\ call.name \in {"body", "finish"} => a.adLeft = 0
        /\ call.name = "finish" => a.bodyLeft = 0
    BY <1>1, <2>2 DEF Recorded, Permits
  <2>4. calls[j].n \in Nat /\ calls[j].m \in Nat
    BY <1>5 DEF CallRecord
  <2>5. Carried(call, "ad") \in Nat /\ Carried(call, "body") \in Nat
    BY DEF Carried, CallRecord
  <2>6. PICK c \in Nat : c = Carried(call, "ad")
    BY <2>5
  <2>7. PICK d \in Nat : d = Carried(call, "body")
    BY <2>5
  <2>8. PICK x \in Nat : x = calls[j].n
    BY <2>4
  <2>9. PICK y \in Nat : y = calls[j].m
    BY <2>4
  <2>10. c <= x - ad /\ d <= y - body
    BY <2>1, <2>3, <2>6, <2>7, <2>8, <2>9
  <2>11. ad + c <= x /\ body + d <= y
    BY <2>10
  <2>12. ASSUME call.name \in {"body", "finish"} PROVE ad = x
    <3>1. x - ad = 0
      BY <2>1, <2>3, <2>8, <2>12
    <3> QED
      BY <3>1
  <2>13. ASSUME call.name = "finish" PROVE body = y
    <3>1. y - body = 0
      BY <2>1, <2>3, <2>9, <2>13
    <3> QED
      BY <3>1
  <2> QED
    BY <2>6, <2>7, <2>8, <2>9, <2>11, <2>12, <2>13
<1> QED
  BY <1>1, <1>2, <1>3, <1>4, <1>6, <1>7, <1>8, <1>9 DEF Continues

LEMMA RecordedOneMore ==
    ASSUME NEW a \in AeadRecord, NEW b \in AeadRecord, Recorded(a),
           NEW call \in CallRecord, Permits(a, call),
           OneMore(a.calls, call, b.calls), b.alg = a.alg,
           b.nonce <=> (a.nonce \/ call.name = "nonce"),
           b.lengths <=> (a.lengths \/ call.name = "lengths"),
           b.ad <=> (a.ad \/ call.name = "ad"),
           b.body <=> (a.body \/ call.name = "body"),
           IF call.name = "lengths"
           THEN b.adLeft = call.n /\ b.bodyLeft = call.m
           ELSE a.lengths => /\ b.adLeft = a.adLeft - Carried(call, "ad")
                             /\ b.bodyLeft = a.bodyLeft - Carried(call, "body")
    PROVE  Recorded(b)
<1>1. PICK calls \in Seq(CallRecord) : calls = a.calls
  BY DEF AeadRecord
<1>2. PICK told \in Seq(CallRecord) : told = b.calls
  BY DEF AeadRecord
<1>3. PICK n \in Nat : n = Len(calls)
  OBVIOUS
<1>4. /\ Len(told) = n + 1 /\ told[n + 1] = call
      /\ \A j \in 1 .. n : told[j] = calls[j]
      /\ OneMore(calls, call, told)
  BY <1>1, <1>2, <1>3 DEF OneMore
<1>5. PICK ad \in Nat : ad = Given("ad", calls)[n]
  BY <1>3, GivenIs
<1>6. PICK body \in Nat : body = Given("body", calls)[n]
  BY <1>3, GivenIs
<1>7. /\ Given("ad", told)[n + 1] = ad + Carried(call, "ad")
      /\ Given("body", told)[n + 1] = body + Carried(call, "body")
  BY <1>3, <1>4, <1>5, <1>6, GivenOneMore
<1>8. InOrder(told, b.alg)
  BY <1>1, <1>2, <1>4, PermittedContinues, ContinuedInOrder DEF Recorded
<1>9. \A name : Has(told, {name}) <=> (Has(calls, {name}) \/ call.name = name)
  BY <1>3, <1>4 DEF Has
<1>10. /\ b.nonce <=> Has(told, {"nonce"})
       /\ b.lengths <=> Has(told, {"lengths"})
       /\ b.ad <=> Has(told, {"ad"})
       /\ b.body <=> Has(told, {"body"})
  BY <1>1, <1>9 DEF Recorded
<1>11. b.ad \/ b.body => b.nonce
  BY DEF Recorded, Permits
<1>12. /\ ~ b.ad => ad + Carried(call, "ad") = 0
       /\ ~ b.body => body + Carried(call, "body") = 0
  BY <1>1, <1>3, <1>5, <1>6 DEF Recorded, Carried
<1>13. /\ Carried(call, "ad") \in Nat /\ Carried(call, "body") \in Nat
       /\ call.n \in Nat /\ call.m \in Nat
       /\ a.adLeft \in Int /\ a.bodyLeft \in Int
  BY DEF Carried, CallRecord, AeadRecord
<1>14. b.lengths => b.adLeft >= 0 /\ b.bodyLeft >= 0
  BY <1>13 DEF Recorded, Permits
<1>15. ASSUME NEW j \in 1 .. n + 1, told[j].name = "lengths"
       PROVE  /\ b.adLeft = told[j].n - (ad + Carried(call, "ad"))
              /\ b.bodyLeft = told[j].m - (body + Carried(call, "body"))
  <2>1. CASE j = n + 1
    <3>1. call.name = "lengths" /\ told[j] = call
      BY <1>4, <1>15, <2>1
    <3>2. ad = 0 /\ body = 0
      BY <1>1, <1>3, <1>5, <1>6, <3>1 DEF Recorded, Permits
    <3>3. Carried(call, "ad") = 0 /\ Carried(call, "body") = 0
      BY <3>1 DEF Carried
    <3> QED
      BY <1>13, <3>1, <3>2, <3>3
  <2>2. CASE j \in 1 .. n
    <3>1. calls[j].name = "lengths" /\ told[j] = calls[j]
      BY <1>4, <1>15, <2>2
    <3>2. a.adLeft = calls[j].n - ad /\ a.bodyLeft = calls[j].m - body
      BY <1>1, <1>3, <1>5, <1>6, <2>2, <3>1 DEF Recorded
    <3>3. Has(calls, {"lengths"})
      BY <1>3, <2>2, <3>1 DEF Has
    <3>4. /\ a.lengths
          /\ call.name # "lengths"
      BY <1>1, <3>3 DEF Recorded, Permits
    <3>5. calls[j].n \in Nat /\ calls[j].m \in Nat
      <4>1. calls[j] \in CallRecord
        BY <1>3, <2>2
      <4> QED
        BY <4>1 DEF CallRecord
    <3>6. /\ b.adLeft = a.adLeft - Carried(call, "ad")
          /\ b.bodyLeft = a.bodyLeft - Carried(call, "body")
      BY <3>4
    <3>7. PICK x \in Nat : x = calls[j].n
      BY <3>5
    <3>8. PICK y \in Nat : y = calls[j].m
      BY <3>5
    <3>9. PICK c \in Nat : c = Carried(call, "ad")
      BY <1>13
    <3>10. PICK d \in Nat : d = Carried(call, "body")
      BY <1>13
    <3>11. b.adLeft = (x - ad) - c /\ b.bodyLeft = (y - body) - d
      BY <3>2, <3>6, <3>7, <3>8, <3>9, <3>10
    <3>12. (x - ad) - c = x - (ad + c) /\ (y - body) - d = y - (body + d)
      OBVIOUS
    <3> QED
      BY <3>1, <3>7, <3>8, <3>9, <3>10, <3>11, <3>12
  <2> QED
    BY <2>1, <2>2
<1> QED
  BY <1>2, <1>4, <1>7, <1>8, <1>10, <1>11, <1>12, <1>14, <1>15 DEF Recorded

(* The invariant about the calls, beside IInv.                             *)
CallsInv == Recorded(aead) /\ InOrder(tag.calls, tag.alg)

LEMMA NothingTold == \A alg : InOrder(<<>>, alg)
BY DEF InOrder

LEMMA NothingRecorded ==
    ASSUME NEW a, a.calls = <<>>, a.nonce = FALSE, a.lengths = FALSE,
           a.ad = FALSE, a.body = FALSE
    PROVE  Recorded(a)
<1>1. <<>> \in Seq(CallRecord) /\ Len(<<>>) = 0
  OBVIOUS
<1>2. Given("ad", <<>>)[0] = 0 /\ Given("body", <<>>)[0] = 0
  BY <1>1, GivenIs
<1>3. \A names : ~ Has(<<>>, names)
  BY DEF Has
<1> QED
  BY <1>1, <1>2, <1>3, NothingTold DEF Recorded

LEMMA CallsEnd ==
    ASSUME aead' = NoAead
    PROVE  Recorded(aead)'
<1>1. /\ aead'.calls = <<>> /\ aead'.nonce = FALSE /\ aead'.lengths = FALSE
      /\ aead'.ad = FALSE /\ aead'.body = FALSE
  BY DEF NoAead
<1>2. \A a : a = aead' => Recorded(a)
  <2> TAKE a
  <2> HAVE a = aead'
  <2> QED
    BY <1>1, NothingRecorded
<1> QED
  BY <1>2 DEF Recorded

LEMMA NoTagTold ==
    ASSUME tag' = NoTag
    PROVE  InOrder(tag.calls, tag.alg)'
<1>1. tag'.calls = <<>>
  BY DEF NoTag
<1> QED
  BY <1>1, NothingTold

LEMMA AeadEndsRecorded ==
    ASSUME NEW ok, NEW next, AeadEnds(ok, next), ok => Recorded(next)
    PROVE  CallsInv'
<1>1. tag' = NoTag
  BY DEF AeadEnds
<1>2. CASE aead' = NoAead
  BY <1>1, <1>2, CallsEnd, NoTagTold DEF CallsInv
<1>3. CASE ok /\ aead' = next
  <2>1. Recorded(next)
    BY <1>3
  <2>2. Recorded(aead)'
    BY <1>3, <2>1
  <2> QED
    BY <1>1, <2>2, NoTagTold DEF CallsInv
<1> QED
  BY <1>2, <1>3 DEF AeadEnds

LEMMA ToldOneMore ==
    ASSUME AeadType, NEW call \in CallRecord
    PROVE  OneMore(aead.calls, call, Told(call)) /\ Told(call) \in Seq(CallRecord)
<1>1. PICK calls \in Seq(CallRecord) : calls = aead.calls
  BY DEF AeadType, AeadRecord
<1>2. OneMore(calls, call, Append(calls, call))
  BY AppendOneMore
<1> QED
  BY <1>1, <1>2 DEF Told, OneMore

LEMMA CallsHaveTypes ==
    ASSUME NEW n \in Nat, NEW m \in Nat,
           NEW name \in {"nonce", "lengths", "ad", "body", "finish"}
    PROVE  /\ Call(name, n, m) \in CallRecord
           /\ Call(name, n, m).name = name
           /\ Call(name, n, m).n = n /\ Call(name, n, m).m = m
BY DEF Call, CallRecord

LEMMA NonceRecorded ==
    ASSUME AeadType, CallsInv, AeadGenerateNonce \/ AeadSetNonce
    PROVE  CallsInv'
<1>1. PICK call \in CallRecord : call = Call("nonce", 0, 0) /\ call.name = "nonce"
  BY CallsHaveTypes
<1>2. PICK told \in Seq(CallRecord) :
         told = Told(call) /\ OneMore(aead.calls, call, told)
  BY ToldOneMore
<1>3. PICK next : next = [aead EXCEPT !.nonce = TRUE, !.calls = told]
  OBVIOUS
<1>4. /\ aead \in AeadRecord /\ next \in AeadRecord
      /\ next.calls = told /\ next.alg = aead.alg /\ next.nonce = TRUE
      /\ next.lengths = aead.lengths /\ next.ad = aead.ad /\ next.body = aead.body
      /\ next.adLeft = aead.adLeft /\ next.bodyLeft = aead.bodyLeft
  BY <1>2, <1>3 DEF AeadType, AeadRecord
<1>5. \E ok : AeadEnds(ok, next) /\ (ok => aead.nonce = FALSE)
  <2>1. aead.nonce \in BOOLEAN
    BY <1>4 DEF AeadRecord
  <2>2. CASE AeadGenerateNonce
    <3>1. AeadEnds(aead.active /\ ~aead.nonce /\ aead.encrypt, next)
      BY <1>1, <1>2, <1>3, <2>2 DEF AeadGenerateNonce, NonceSet
    <3> QED
      BY <2>1, <3>1
  <2>3. CASE AeadSetNonce
    <3>1. AeadEnds(aead.active /\ ~aead.nonce, next)
      BY <1>1, <1>2, <1>3, <2>3 DEF AeadSetNonce, NonceSet
    <3> QED
      BY <2>1, <3>1
  <2> QED
    BY <2>2, <2>3
<1>6. ASSUME aead.nonce = FALSE PROVE Recorded(next)
  <2>1. Carried(call, "ad") = 0 /\ Carried(call, "body") = 0
    BY <1>1 DEF Carried
  <2>2. Recorded(aead)
    BY DEF CallsInv
  <2>3. Permits(aead, call)
    BY <1>1, <1>6, <2>1, <2>2 DEF Permits, Recorded
  <2>4. aead.adLeft - 0 = aead.adLeft /\ aead.bodyLeft - 0 = aead.bodyLeft
    BY <1>4 DEF AeadRecord
  <2> QED
    BY <1>1, <1>2, <1>4, <2>1, <2>2, <2>3, <2>4, RecordedOneMore
<1> QED
  BY <1>5, <1>6, AeadEndsRecorded

LEMMA LengthsRecorded ==
    ASSUME AeadType, CallsInv, NEW ad \in Nat, NEW body \in Nat,
           AeadSetLengths(ad, body)
    PROVE  CallsInv'
<1>1. PICK call \in CallRecord : /\ call = Call("lengths", ad, body)
                                 /\ call.name = "lengths"
                                 /\ call.n = ad /\ call.m = body
  BY CallsHaveTypes
<1>2. PICK told \in Seq(CallRecord) :
         told = Told(call) /\ OneMore(aead.calls, call, told)
  BY ToldOneMore
<1>3. PICK next : next = [aead EXCEPT !.lengths = TRUE, !.adLeft = ad,
                                      !.bodyLeft = body, !.calls = told]
  OBVIOUS
<1>4. /\ aead \in AeadRecord /\ next \in AeadRecord
      /\ next.calls = told /\ next.alg = aead.alg /\ next.nonce = aead.nonce
      /\ next.lengths = TRUE /\ next.ad = aead.ad /\ next.body = aead.body
      /\ next.adLeft = ad /\ next.bodyLeft = body
  <2>1. ad \in Int /\ body \in Int
    OBVIOUS
  <2> QED
    BY <1>2, <1>3, <2>1 DEF AeadType, AeadRecord
<1>5. PICK ok : /\ AeadEnds(ok, next)
                /\ ok => ~(aead.lengths \/ aead.ad \/ aead.body)
  <2>1. AeadEnds(/\ aead.active
                 /\ ~(aead.lengths \/ aead.ad \/ aead.body)
                 /\ ad <= AdLimit[aead.alg.base], next)
    BY <1>1, <1>2, <1>3 DEF AeadSetLengths
  <2> QED
    BY <2>1
<1>6. ASSUME ~(aead.lengths \/ aead.ad \/ aead.body) PROVE Recorded(next)
  <2>1. Permits(aead, call)
    BY <1>1, <1>6 DEF Permits
  <2>2. Recorded(aead)
    BY DEF CallsInv
  <2> QED
    BY <1>1, <1>2, <1>4, <2>1, <2>2, RecordedOneMore
<1> QED
  BY <1>5, <1>6, AeadEndsRecorded

LEMMA DataRecorded ==
    ASSUME AeadType, CallsInv, NEW n \in Nat, AeadUpdateAd(n) \/ AeadUpdate(n)
    PROVE  CallsInv'
<1>0. aead \in AeadRecord /\ Recorded(aead)
  BY DEF AeadType, CallsInv
<1>1. CASE AeadUpdateAd(n)
  <2>1. PICK call \in CallRecord : call = Call("ad", n, 0)
                                   /\ call.name = "ad" /\ call.n = n
    BY CallsHaveTypes
  <2>2. PICK told \in Seq(CallRecord) :
           told = Told(call) /\ OneMore(aead.calls, call, told)
    BY ToldOneMore
  <2>3. PICK left \in Int :
           left = IF aead.lengths THEN aead.adLeft - n ELSE aead.adLeft
    BY <1>0 DEF AeadRecord
  <2>4. PICK next : next = [aead EXCEPT !.ad = TRUE, !.adLeft = left,
                                        !.calls = told]
    OBVIOUS
  <2>5. /\ next \in AeadRecord
        /\ next.calls = told /\ next.alg = aead.alg /\ next.nonce = aead.nonce
        /\ next.lengths = aead.lengths /\ next.ad = TRUE /\ next.body = aead.body
        /\ next.adLeft = left /\ next.bodyLeft = aead.bodyLeft
    BY <1>0, <2>2, <2>3, <2>4 DEF AeadRecord
  <2>6. AeadEnds(/\ aead.active /\ aead.nonce /\ ~aead.body
                 /\ IF aead.lengths THEN n <= aead.adLeft
                    ELSE aead.alg.base \notin NeedLengths, next)
    BY <1>1, <2>1, <2>2, <2>3, <2>4 DEF AeadUpdateAd
  <2>7. ASSUME /\ aead.nonce /\ ~aead.body
               /\ IF aead.lengths THEN n <= aead.adLeft
                  ELSE aead.alg.base \notin NeedLengths
        PROVE  Recorded(next)
    <3>1. Carried(call, "ad") = n /\ Carried(call, "body") = 0
      BY <2>1 DEF Carried
    <3>2. Permits(aead, call)
      BY <1>0, <2>1, <2>7, <3>1 DEF Permits, Recorded
    <3>3. aead.bodyLeft - 0 = aead.bodyLeft
      BY <1>0 DEF AeadRecord
    <3> QED
      BY <1>0, <2>1, <2>2, <2>3, <2>5, <3>1, <3>2, <3>3, RecordedOneMore
  <2> QED
    BY <2>6, <2>7, AeadEndsRecorded
<1>2. CASE AeadUpdate(n)
  <2>1. PICK call \in CallRecord : call = Call("body", n, 0)
                                   /\ call.name = "body" /\ call.n = n
    BY CallsHaveTypes
  <2>2. PICK told \in Seq(CallRecord) :
           told = Told(call) /\ OneMore(aead.calls, call, told)
    BY ToldOneMore
  <2>3. PICK left \in Int :
           left = IF aead.lengths THEN aead.bodyLeft - n ELSE aead.bodyLeft
    BY <1>0 DEF AeadRecord
  <2>4. PICK next : next = [aead EXCEPT !.body = TRUE, !.bodyLeft = left,
                                        !.calls = told]
    OBVIOUS
  <2>5. /\ next \in AeadRecord
        /\ next.calls = told /\ next.alg = aead.alg /\ next.nonce = aead.nonce
        /\ next.lengths = aead.lengths /\ next.ad = aead.ad /\ next.body = TRUE
        /\ next.adLeft = aead.adLeft /\ next.bodyLeft = left
    BY <1>0, <2>2, <2>3, <2>4 DEF AeadRecord
  <2>6. AeadEnds(/\ aead.active /\ aead.nonce
                 /\ IF aead.lengths THEN aead.adLeft = 0 /\ n <= aead.bodyLeft
                    ELSE aead.alg.base \notin NeedLengths, next)
    BY <1>2, <2>1, <2>2, <2>3, <2>4 DEF AeadUpdate
  <2>7. ASSUME /\ aead.nonce
               /\ IF aead.lengths THEN aead.adLeft = 0 /\ n <= aead.bodyLeft
                  ELSE aead.alg.base \notin NeedLengths
        PROVE  Recorded(next)
    <3>1. Carried(call, "ad") = 0 /\ Carried(call, "body") = n
      BY <2>1 DEF Carried
    <3>2. Permits(aead, call)
      BY <1>0, <2>1, <2>7, <3>1 DEF Permits, Recorded
    <3>3. aead.adLeft - 0 = aead.adLeft
      BY <1>0 DEF AeadRecord
    <3> QED
      BY <1>0, <2>1, <2>2, <2>3, <2>5, <3>1, <3>2, <3>3, RecordedOneMore
  <2> QED
    BY <2>6, <2>7, AeadEndsRecorded
<1> QED
  BY <1>1, <1>2

LEMMA FinishRecorded ==
    ASSUME AeadType, CallsInv, NEW encrypt, NEW room, AeadFinish(encrypt, room)
    PROVE  CallsInv'
<1>0. aead \in AeadRecord /\ Recorded(aead)
  BY DEF AeadType, CallsInv
<1>1. PICK call \in CallRecord : call = Call("finish", 0, 0) /\ call.name = "finish"
  BY CallsHaveTypes
<1>2. PICK told \in Seq(CallRecord) :
         told = Told(call) /\ OneMore(aead.calls, call, told)
  BY ToldOneMore
<1>3. Recorded(aead)'
  BY CallsEnd DEF AeadFinish
<1>4. CASE tag' = NoTag
  BY <1>3, <1>4, NoTagTold DEF CallsInv
<1>5. CASE /\ FinalChecks
           /\ tag' = Tag(AeadUsage(encrypt), aead.key, aead.alg, aead.alg.len,
                         Told(Call("finish", 0, 0)))
  <2>1. Carried(call, "ad") = 0 /\ Carried(call, "body") = 0
    BY <1>1 DEF Carried
  <2>2. Permits(aead, call)
    BY <1>0, <1>1, <1>5, <2>1 DEF Permits, Recorded, FinalChecks
  <2>3. PICK calls \in Seq(CallRecord) : calls = aead.calls
    BY <1>0 DEF AeadRecord
  <2>4. InOrder(told, aead.alg)
    BY <1>0, <1>2, <2>2, <2>3, PermittedContinues, ContinuedInOrder DEF Recorded
  <2>5. tag'.calls = told /\ tag'.alg = aead.alg
    BY <1>1, <1>2, <1>5 DEF Tag
  <2> QED
    BY <1>3, <2>4, <2>5 DEF CallsInv
<1> QED
  BY <1>4, <1>5 DEF AeadFinish

LEMMA CallsUnchanged ==
    ASSUME CallsInv, UNCHANGED aead, tag' \in {NoTag, tag} \/ tag'.calls = <<>>
    PROVE  CallsInv'
<1>1. Recorded(aead)'
  BY DEF CallsInv, Recorded
<1>2. tag' = NoTag \/ tag' = tag \/ tag'.calls = <<>>
  OBVIOUS
<1>3. CASE tag' = tag
  BY <1>1, <1>3 DEF CallsInv
<1> QED
  BY <1>1, <1>2, <1>3, NoTagTold, NothingTold DEF CallsInv

LEMMA AeadCallsStep ==
    ASSUME IInv, CallsInv, AeadNext
    PROVE  CallsInv'
<1>1. AeadType /\ \A n \in Fragments : n \in Nat
  BY MacAeadAssumption DEF IInv, AeadCarries, Fragments
<1>2. ASSUME NEW k, NEW alg, NEW encrypt, AeadSetup(k, alg, encrypt)
      PROVE  CallsInv'
  <2>1. tag' = NoTag
    BY <1>2 DEF AeadSetup
  <2>2. PICK a : a = aead'
    OBVIOUS
  <2>3. /\ a.calls = <<>> /\ a.nonce = FALSE /\ a.lengths = FALSE
        /\ a.ad = FALSE /\ a.body = FALSE
    BY <1>2, <2>2 DEF AeadSetup, NoAead
  <2>4. Recorded(a)
    BY <2>3, NothingRecorded
  <2>5. Recorded(aead)'
    BY <2>2, <2>4
  <2> QED
    BY <2>1, <2>5, NoTagTold DEF CallsInv
<1>3. ASSUME NEW k, NEW alg, NEW encrypt, AeadOneShot(k, alg, encrypt)
      PROVE  CallsInv'
  BY <1>3, CallsUnchanged DEF AeadOneShot, Tag
<1>4. CASE AeadSetupFails \/ AeadAbort
  BY <1>4, CallsEnd, NoTagTold DEF AeadSetupFails, AeadAbort, CallsInv
<1> QED
  BY <1>1, <1>2, <1>3, <1>4, NonceRecorded, LengthsRecorded, DataRecorded,
     FinishRecorded
  DEF AeadNext

LEMMA MacCallsStep ==
    ASSUME CallsInv, MacNext \/ ManageKeys \/ UNCHANGED authVars
    PROVE  CallsInv'
<1>1. CASE ManageKeys \/ UNCHANGED authVars
  BY <1>1, CallsUnchanged DEF ManageKeys, authVars
<1>2. ASSUME NEW k, NEW alg, NEW sign, MacSetup(k, alg, sign)
      PROVE  CallsInv'
  BY <1>2, CallsUnchanged DEF MacSetup
<1>3. ASSUME NEW k, NEW alg, NEW sign, NEW room, MacOneShot(k, alg, sign, room)
      PROVE  CallsInv'
  BY <1>3, CallsUnchanged DEF MacOneShot, Tag
<1>4. ASSUME NEW room, MacSignFinish(room) \/ MacVerifyFinish(room)
      PROVE  CallsInv'
  BY <1>4, CallsUnchanged DEF MacSignFinish, MacVerifyFinish, Tag
<1>5. CASE MacSetupInUse \/ MacUpdateFails \/ MacAbort
  BY <1>5, CallsUnchanged DEF MacSetupInUse, MacUpdateFails, MacAbort
<1> QED
  BY <1>1, <1>2, <1>3, <1>4, <1>5 DEF MacNext

LEMMA CallsInvariance == AuthSpec => []CallsInv
<1>1. AuthInit => CallsInv
  <2> SUFFICES ASSUME AuthInit PROVE CallsInv
    OBVIOUS
  <2>1. aead.calls = <<>> /\ aead.nonce = FALSE /\ aead.lengths = FALSE
        /\ aead.ad = FALSE /\ aead.body = FALSE
    BY DEF AuthInit, NoAead
  <2>2. tag.calls = <<>>
    BY DEF AuthInit, NoTag
  <2> QED
    BY <2>1, <2>2, NothingRecorded, NothingTold DEF CallsInv
<1>2. IInv /\ CallsInv /\ [AuthNext]_authVars => CallsInv'
  BY AeadCallsStep, MacCallsStep DEF AuthNext
<1> QED
  BY <1>1, <1>2, Invariance, PTL DEF AuthSpec

(* psa_aead_set_lengths, psa_aead_update_ad, psa_aead_update and the calls *)
(* that finish: for any algorithms and any lengths, and however data is    *)
(* cut into fragments, the driver is called in the order it was promised,  *)
(* with no more than was declared and in the end with all of it.           *)
THEOREM CallsComeInOrder == AuthSpec => []DriverCallsInOrder
<1>1. CallsInv => DriverCallsInOrder
  BY DEF CallsInv, Recorded, DriverCallsInOrder
<1> QED
  BY <1>1, CallsInvariance, PTL
=============================================================================
