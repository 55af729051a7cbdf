------------------------- MODULE KeyDerivationProofs -------------------------
(***************************************************************************)
(* For hashes of any length, any last block number, and inputs and outputs *)
(* of any lengths: a key derivation operation stays within its capacity,   *)
(* never asks for a block after the last one, needs its inputs, and owns   *)
(* what it allocated; and the bytes it gives are the stream of its inputs, *)
(* however the reads are cut.                                              *)
(***************************************************************************)
EXTENDS KeyDerivation, FiniteSetTheorems, SequenceTheorems, TLAPS

(* What an operation has before its inputs: no block, and nothing in the   *)
(* fields of the inputs to come.                                           *)
Unused(o) ==
    /\ o.alg = "HKDF_EXTRACT" => o.block_number = 0
    /\ o.state # "OUTPUT" =>
        /\ o.block_number = 0
        /\ o.left = IF o.alg = "HKDF_EXTRACT" /\ o.state = "KEYED"
                    THEN HashLength ELSE 0
    /\ ~o.info_set => o.info = <<>>
    /\ o.alg \in Tls12s =>
        /\ o.state = "INIT" => o.seed = <<>>
        /\ o.state \in {"INIT", "SEED_SET"} => o.other_secret = <<>>
        /\ o.state \in {"INIT", "SEED_SET", "OTHER_KEY_SET"} => o.key = <<>>
        /\ o.state \in {"INIT", "SEED_SET", "OTHER_KEY_SET", "KEY_SET"}
                => o.label = <<>>

(* How many bytes of the stream the block in hand has given.               *)
Position(o) ==
    IF o.alg = "HKDF_EXTRACT"
    THEN IF o.state \in {"KEYED", "OUTPUT"} THEN HashLength - o.left ELSE 0
    ELSE o.block_number * HashLength - o.left

InRead(c) == IF c.pc = "read" THEN Len(c.bytes) ELSE 0

(* Every byte of the capacity is still there, wanted by the output under   *)
(* way, or given.                                                          *)
Accounts ==
    /\ op.capacity + call.want + Len(out) + InRead(call) = allowed
    /\ allowed <= MaxCapacity(op.alg)
    /\ Len(out) + InRead(call) = Position(op)
    /\ failed => allowed = 0

(* Which inputs a state has seen.                                          *)
Seen(step) == given.lengths[step] # -1

StateMatchesInputs ==
    /\ op.alg \in Hkdfs =>
        /\ op.state \in {"KEYED", "OUTPUT"} => Seen("SECRET")
        /\ op.info_set => Seen("INFO")
        /\ op.alg # "HKDF_EXTRACT" /\ op.state = "OUTPUT" => op.info_set
        /\ op.alg = "HKDF_EXTRACT" /\ op.state # "INIT" => Seen("SALT")
    /\ op.alg \in Tls12s =>
        /\ op.state # "INIT" => Seen("SEED")
        /\ op.state \in {"KEY_SET", "LABEL_SET", "OUTPUT"} => Seen("SECRET")
        /\ op.state \in {"LABEL_SET", "OUTPUT"} => Seen("LABEL")

KeysAllowed ==
    /\ op.can_output_key =>
        \/ given.offered
        \/ /\ given.from_key
           /\ op.state \in {"KEYED", "KEY_SET", "LABEL_SET", "OUTPUT"}
    /\ call.for_key \/ call.pc = "drawn" => given.from_key \/ given.offered
    /\ "bytes" \notin made

(* An operation that is blank but for its algorithm, its capacity and the  *)
(* permission that a key offered before the setup left in it.              *)
Prepared(alg, agreement, capacity, unlocked) ==
    [Blank EXCEPT !.alg = alg, !.agreement = agreement, !.capacity = capacity,
                  !.can_output_key = unlocked]

CallMatchesState ==
    /\ op.alg = NoAlg =>
        op = Prepared(NoAlg, FALSE, 0, op.can_output_key) /\ ~failed
    /\ call.pc = "idle" => call = Idle
    /\ call.pc # "read" => call.want = 0
    /\ call.pc # "idle" => op.state = "OUTPUT"

KdfInv ==
    /\ TypeOK
    /\ Unused(op)
    /\ InputsAreOwned
    /\ Accounts
    /\ StateMatchesInputs
    /\ KeysAllowed
    /\ CallMatchesState

LEMMA UnusedIsBlank ==
    ASSUME CallMatchesState, op.alg = NoAlg
    PROVE  /\ op.state = "INIT" /\ op.capacity = 0 /\ op.block_number = 0
           /\ op.left = 0 /\ ~op.agreement
<1> DEFINE k == op.can_output_key
<1>1. op = Prepared(NoAlg, FALSE, 0, k)
    BY DEF CallMatchesState
<1> HIDE DEF k
<1> QED
    BY <1>1 DEF Prepared, Blank

LEMMA UsedInOutput ==
    ASSUME CallMatchesState, op.state # "INIT" PROVE op.alg # NoAlg
BY UnusedIsBlank

-----------------------------------------------------------------------------
LEMMA ValueIsDatum ==
    ASSUME NEW step \in Steps \cup {"zeros"}, NEW n \in Nat
    PROVE  /\ Value(step, n) \in Datum
           /\ Value(step, n) = <<>> <=> n = 0
<1>1. CASE n = 0
    BY <1>1 DEF Value, Datum
<1>2. CASE n # 0
    <2> DEFINE x == [step |-> step, length |-> n]
    <2>1. x \in [step : Steps \cup {"zeros"}, length : Nat]
        OBVIOUS
    <2>2. Value(step, n) = <<x>>
        BY <1>2 DEF Value
    <2> HIDE DEF x
    <2>3. <<x>> \in Datum /\ Len(<<x>>) = 1 /\ Len(<<>>) = 0
        BY <2>1 DEF Datum
    <2> QED
        BY <1>2, <2>2, <2>3
<1> QED
    BY <1>1, <1>2

LEMMA BlankIsPrepared ==
    /\ Blank = Prepared(NoAlg, FALSE, 0, FALSE)
    /\ \A alg, a : [Blank EXCEPT !.alg = alg, !.agreement = a]
                    = Prepared(alg, a, 0, FALSE)
<1> DEFINE fields == DOMAIN Blank
<1>1. Blank = [f \in fields |-> Blank[f]]
    BY DEF Blank
<1>2. /\ Blank["alg"] = NoAlg /\ Blank["agreement"] = FALSE
      /\ Blank["capacity"] = 0 /\ Blank["can_output_key"] = FALSE
    BY DEF Blank
<1> HIDE DEF fields
<1> QED
    BY <1>1, <1>2 DEF Prepared

LEMMA BlankIsOperation ==
    ASSUME NEW alg \in Hkdfs \cup Tls12s \cup {NoAlg}, NEW a \in BOOLEAN,
           NEW c \in Nat, NEW k \in BOOLEAN
    PROVE  Prepared(alg, a, c, k) \in Operation
<1>1. <<>> \in Datum /\ NoBlock \in Block
    BY DEF Datum, NoBlock, Block
<1>2. 0 \in 0 .. LastBlock /\ 0 \in 0 .. HashLength
    BY KdfAssumption
<1> QED
    BY <1>1, <1>2 DEF Prepared, Blank, Operation

(* Of an operation whose pointers are all null there is nothing to free.   *)
LEMMA NothingToFree ==
    ASSUME NEW o, \A f \in {"info", "key", "seed", "label", "other_secret"} :
                        o[f] = <<>>
    PROVE  Freed(o) = 0
<1>1. Pointers(o) = {}
    BY DEF Pointers, Owned
<1> QED
    BY <1>1, FS_EmptySet DEF Freed

LEMMA BlankFreesNothing ==
    ASSUME NEW alg, NEW a, NEW c, NEW k
    PROVE  Freed(Prepared(alg, a, c, k)) = 0
<1> DEFINE B == Prepared(alg, a, c, k)
<1>1. /\ B.info = <<>> /\ B.key = <<>> /\ B.seed = <<>>
      /\ B.label = <<>> /\ B.other_secret = <<>>
    BY DEF Blank, Prepared
<1> HIDE DEF B
<1> QED
    BY <1>1, NothingToFree DEF B

LEMMA PointersAreFinite ==
    ASSUME NEW o PROVE IsFiniteSet(Pointers(o)) /\ Freed(o) \in Nat
<1>1. IsFiniteSet({"info"}) /\ IsFiniteSet({"key", "seed", "label", "other_secret"})
    <2>1. IsFiniteSet({"key"}) /\ IsFiniteSet({"info"})
        BY FS_Singleton
    <2>2. IsFiniteSet({"key"} \cup {"seed"})
        BY <2>1, FS_AddElement
    <2>3. IsFiniteSet(({"key"} \cup {"seed"}) \cup {"label"})
        BY <2>2, FS_AddElement
    <2>4. IsFiniteSet((({"key"} \cup {"seed"}) \cup {"label"})
                            \cup {"other_secret"})
        BY <2>3, FS_AddElement
    <2>5. {"key", "seed", "label", "other_secret"}
            = (({"key"} \cup {"seed"}) \cup {"label"}) \cup {"other_secret"}
        OBVIOUS
    <2> QED
        BY <2>1, <2>4, <2>5
<1>2. Pointers(o) \subseteq Owned(o.alg)
    BY DEF Pointers
<1> QED
    BY <1>1, <1>2, FS_Subset, FS_CardinalityType DEF Owned, Freed

(* A field that was null and is set is one more block to free.             *)
LEMMA OneMorePointer ==
    ASSUME NEW o, NEW p, p.alg = o.alg, NEW f \in Owned(o.alg),
           o[f] = <<>>, p[f] # <<>>,
           \A g \in Owned(o.alg) \ {f} : p[g] = o[g]
    PROVE  Freed(p) = Freed(o) + 1
<1>1. f \notin Pointers(o) /\ Pointers(p) = Pointers(o) \cup {f}
    BY DEF Pointers
<1>2. IsFiniteSet(Pointers(o))
    BY PointersAreFinite
<1> HIDE DEF Pointers
<1> QED
    BY <1>1, <1>2, FS_AddElement DEF Freed

LEMMA SamePointers ==
    ASSUME NEW o, NEW p, p.alg = o.alg,
           \A g \in Owned(o.alg) : p[g] = o[g]
    PROVE  Freed(p) = Freed(o)
BY DEF Freed, Pointers
-----------------------------------------------------------------------------
Late == {"KEYED", "KEY_SET", "LABEL_SET", "OUTPUT"}

LEMMA InWhen ==
    ASSUME NEW accepted \in BOOLEAN, NEW o, NEW p \in When(accepted, o)
    PROVE  accepted /\ p = o
BY DEF When

(* What every accepted input leaves alone, and how the states go on.       *)
Progress(o, p, step) ==
    /\ p.alg = o.alg /\ p.capacity = o.capacity
    /\ p.can_output_key = o.can_output_key
    /\ p.agreement = o.agreement
    /\ o.state # "OUTPUT" /\ p.state # "OUTPUT"
    /\ o.state \in Late => p.state \in Late
    /\ step = "SECRET" => o.state \notin Late /\ p.state \in Late
    /\ p.info_set => o.info_set \/ step = "INFO"
    /\ p.state = "KEYED" => o.state = "KEYED" \/ step = "SECRET"
    /\ p.state \in {"KEY_SET", "LABEL_SET"}
            => o.state \in {"KEY_SET", "LABEL_SET"} \/ step = "SECRET"
    /\ p.alg = "HKDF_EXTRACT" /\ p.state # "INIT"
            => o.state # "INIT" \/ step = "SALT"
    /\ p.alg \in Tls12s /\ p.state # "INIT"
            => o.state # "INIT" \/ step = "SEED"
    /\ p.state = "LABEL_SET" => o.state = "LABEL_SET" \/ step = "LABEL"

LEMMA HkdfInputs ==
    ASSUME NEW o \in Operation, NEW n \in Nat, Unused(o), o.alg \in Hkdfs,
           NEW step \in {"SALT", "SECRET"},
           NEW p \in IF step = "SALT" THEN HkdfSalt(o, n) ELSE HkdfSecret(o, n)
    PROVE  /\ p \in Operation /\ Unused(p) /\ Progress(o, p, step)
           /\ Freed(p) = Freed(o)
<1>1. Value("SALT", n) \in Datum /\ Value("SECRET", n) \in Datum
    BY ValueIsDatum DEF Steps
<1>2. HashLength \in 0 .. HashLength /\ 0 \in 0 .. HashLength /\ 0 \in 0 .. LastBlock
    BY KdfAssumption
<1>3. CASE step = "SALT"
    <2>1. o.state = "INIT" /\ p = [o EXCEPT !.salt = Value("SALT", n),
                                             !.state = "STARTED"]
        BY <1>3, InWhen DEF HkdfSalt
    <2>2. p \in Operation
        BY <1>1, <2>1 DEF Operation
    <2>3. Freed(p) = Freed(o)
        BY <2>1, SamePointers DEF Owned, Operation
    <2> QED
        BY <1>3, <2>1, <2>2, <2>3 DEF Unused, Progress, Late, Operation, Hkdfs, Tls12s
<1>4. CASE step = "SECRET"
    <2> DEFINE secret == Value("SECRET", n)
               prk == IF o.alg = "HKDF_EXPAND" THEN secret ELSE <<o.salt, secret>>
               left == IF o.alg = "HKDF_EXTRACT" THEN HashLength ELSE 0
               block == IF o.alg = "HKDF_EXTRACT" THEN [NoBlock EXCEPT !.key = prk]
                        ELSE o.block
    <2>1. /\ o.state \in {"INIT", "STARTED"}
          /\ o.alg = "HKDF_EXTRACT" => o.state = "STARTED"
          /\ p = [o EXCEPT !.key = prk, !.state = "KEYED", !.block_number = 0,
                           !.left = left, !.block = block]
        BY <1>4, InWhen DEF HkdfSecret
    <2>2. prk \in (Datum \X Datum) \cup Datum
        BY <1>1 DEF Operation
    <2> HIDE DEF prk
    <2>3. block \in Block
        <3>1. <<>> \in Datum /\ <<>> \in Seq(Nat)
            BY DEF Datum
        <3> QED
            BY <2>2, <3>1 DEF Operation, Block, NoBlock
    <2>4. left \in 0 .. HashLength
        BY <1>2
    <2> HIDE DEF block
    <2>5. p \in Operation
        <3> HIDE DEF left
        <3> QED BY <1>2, <2>1, <2>2, <2>3, <2>4 DEF Operation
    <2>6. Freed(p) = Freed(o)
        <3>1. o.alg = p.alg /\ o.info = p.info
            BY <2>1 DEF Operation
        <3> QED BY <3>1, SamePointers DEF Owned
    <2> QED
        BY <1>4, <2>1, <2>5, <2>6 DEF Unused, Progress, Late, Operation, Hkdfs, Tls12s
<1> QED
    BY <1>3, <1>4

LEMMA HkdfInfoInput ==
    ASSUME NEW o \in Operation, NEW n \in Nat, Unused(o), o.alg \in Hkdfs,
           NEW p \in HkdfInfo(o, n)
    PROVE  /\ p \in Operation /\ Unused(p) /\ Progress(o, p, "INFO")
           /\ Freed(p) = Freed(o) + IF n # 0 THEN 1 ELSE 0
<1>1. /\ Value("INFO", n) \in Datum
      /\ Value("INFO", n) = <<>> <=> n = 0
    BY ValueIsDatum DEF Steps
<1>2. /\ o.state # "OUTPUT" /\ ~o.info_set
      /\ p = [o EXCEPT !.info = Value("INFO", n), !.info_set = TRUE]
    BY InWhen DEF HkdfInfo, Operation
<1>3. o.info = <<>>
    BY <1>2 DEF Unused
<1>4. p \in Operation
    BY <1>1, <1>2 DEF Operation
<1>5. p.alg = o.alg /\ p.info = Value("INFO", n) /\ Owned(o.alg) = {"info"}
    BY <1>2 DEF Operation, Owned
<1>6. Freed(p) = Freed(o) + IF n # 0 THEN 1 ELSE 0
    <2>1. CASE n = 0
        BY <1>1, <1>3, <1>5, <2>1, SamePointers, PointersAreFinite
    <2>2. CASE n # 0
        BY <1>1, <1>3, <1>5, <2>2, OneMorePointer
    <2> QED
        BY <2>1, <2>2
<1>7. Unused(p) /\ Progress(o, p, "INFO")
    BY <1>2 DEF Unused, Progress, Late, Operation, Hkdfs, Tls12s
<1> QED
    BY <1>4, <1>6, <1>7
(* The seed, the other secret and the label of TLS 1.2.                    *)
LEMMA Tls12Inputs ==
    ASSUME NEW o \in Operation, NEW n \in Nat, Unused(o), o.alg \in Tls12s,
           NEW step \in {"SEED", "OTHER_SECRET", "LABEL"},
           NEW p \in CASE step = "SEED" -> Tls12Seed(o, n)
                       [] step = "OTHER_SECRET" -> Tls12OtherSecret(o, n)
                       [] OTHER -> Tls12Label(o, n)
    PROVE  /\ p \in Operation /\ Unused(p) /\ Progress(o, p, step)
           /\ Freed(p) = Freed(o) + IF n # 0 THEN 1 ELSE 0
<1> DEFINE v == Value(step, n)
           f == CASE step = "SEED" -> "seed"
                  [] step = "OTHER_SECRET" -> "other_secret"
                  [] OTHER -> "label"
<1>1. v \in Datum /\ (v = <<>> <=> n = 0)
    BY ValueIsDatum DEF Steps
<1>2. /\ step = "SEED" => o.state = "INIT" /\ p = [o EXCEPT !.seed = v,
                                                    !.state = "SEED_SET"]
      /\ step = "OTHER_SECRET" =>
            /\ o.state = "SEED_SET"
            /\ p = [o EXCEPT !.other_secret = v, !.state = "OTHER_KEY_SET"]
      /\ step = "LABEL" => o.state = "KEY_SET" /\ p = [o EXCEPT !.label = v,
                                                      !.state = "LABEL_SET"]
    BY InWhen DEF Tls12Seed, Tls12OtherSecret, Tls12Label
<1> HIDE DEF v
<1>3. p \in Operation
    <2>1. CASE step = "SEED"
        <3>1. p = [o EXCEPT !.seed = v, !.state = "SEED_SET"]
            BY <1>2, <2>1
        <3> QED
            BY <1>1, <3>1 DEF Operation
    <2>2. CASE step = "OTHER_SECRET"
        <3>1. p = [o EXCEPT !.other_secret = v, !.state = "OTHER_KEY_SET"]
            BY <1>2, <2>2
        <3> QED
            BY <1>1, <3>1 DEF Operation
    <2>3. CASE step = "LABEL"
        <3>1. p = [o EXCEPT !.label = v, !.state = "LABEL_SET"]
            BY <1>2, <2>3
        <3> QED
            BY <1>1, <3>1 DEF Operation
    <2> QED
        BY <2>1, <2>2, <2>3
<1>4. Unused(p) /\ Progress(o, p, step)
    BY <1>2 DEF Unused, Progress, Late, Operation, Hkdfs, Tls12s
<1>5. /\ p.alg = o.alg /\ f \in Owned(o.alg)
      /\ o[f] = <<>> /\ p[f] = v
      /\ \A g \in Owned(o.alg) \ {f} : p[g] = o[g]
    <2>1. Owned(o.alg) = {"key", "seed", "label", "other_secret"}
        BY DEF Owned, Hkdfs, Tls12s
    <2>2. CASE step = "SEED"
        BY <1>2, <2>1, <2>2 DEF Unused, Operation
    <2>3. CASE step = "OTHER_SECRET"
        BY <1>2, <2>1, <2>3 DEF Unused, Operation
    <2>4. CASE step = "LABEL"
        BY <1>2, <2>1, <2>4 DEF Unused, Operation
    <2> QED
        BY <2>2, <2>3, <2>4
<1> HIDE DEF f
<1>6. Freed(p) = Freed(o) + IF n # 0 THEN 1 ELSE 0
    <2>1. CASE n = 0
        BY <1>1, <1>5, <2>1, SamePointers, PointersAreFinite
    <2>2. CASE n # 0
        BY <1>1, <1>5, <2>2, OneMorePointer
    <2> QED
        BY <2>1, <2>2
<1> QED
    BY <1>3, <1>4, <1>6

LEMMA Tls12SecretInput ==
    ASSUME NEW o \in Operation, NEW n \in Nat, Unused(o), o.alg \in Tls12s,
           NEW p \in Tls12Secret(o, n)
    PROVE  /\ p \in Operation /\ Unused(p) /\ Progress(o, p, "SECRET")
           /\ Freed(p) = Freed(o) + IF n # 0 \/ o.alg = "TLS12_PSK_TO_MS"
                                    THEN 1 ELSE 0
<1> DEFINE psk == Value("SECRET", n)
           other == IF o.state = "OTHER_KEY_SET" THEN o.other_secret
                                                 ELSE Value("zeros", n)
           key == IF o.alg = "TLS12_PSK_TO_MS" THEN <<other, psk>> ELSE psk
<1>1. /\ psk \in Datum /\ (psk = <<>> <=> n = 0)
      /\ other \in Datum
    BY ValueIsDatum DEF Steps, Operation
<1>2. /\ o.state \in {"SEED_SET", "OTHER_KEY_SET"}
      /\ p = [o EXCEPT !.key = key, !.state = "KEY_SET"]
    <2> DEFINE acc == /\ o.state \in {"SEED_SET", "OTHER_KEY_SET"}
                      /\ o.alg = "TLS12_PSK_TO_MS" => n <= PskMaxSize
    <2>1. p \in When(acc, [o EXCEPT !.key = key, !.state = "KEY_SET"])
        BY DEF Tls12Secret
    <2>2. acc \in BOOLEAN
        OBVIOUS
    <2>3. acc /\ p = [o EXCEPT !.key = key, !.state = "KEY_SET"]
        <3> HIDE DEF acc, key
        <3> QED BY <2>1, <2>2, InWhen
    <2> QED
        BY <2>3
<1> HIDE DEF psk, other
<1>3. /\ key \in (Datum \X Datum) \cup Datum
      /\ key = <<>> <=> n = 0 /\ o.alg # "TLS12_PSK_TO_MS"
    <2>1. Len(<<other, psk>>) = 2 /\ Len(<<>>) = 0
        OBVIOUS
    <2> QED
        BY <1>1, <2>1
<1> HIDE DEF key
<1>4. p \in Operation
    BY <1>2, <1>3 DEF Operation
<1>5. Unused(p) /\ Progress(o, p, "SECRET")
    BY <1>2 DEF Unused, Progress, Late, Operation, Hkdfs, Tls12s
<1>6. /\ p.alg = o.alg /\ "key" \in Owned(o.alg)
      /\ o["key"] = <<>> /\ p["key"] = key
      /\ \A g \in Owned(o.alg) \ {"key"} : p[g] = o[g]
    <2>1. Owned(o.alg) = {"key", "seed", "label", "other_secret"}
        BY DEF Owned, Hkdfs, Tls12s
    <2> QED
        BY <1>2, <2>1 DEF Unused, Operation
<1>7. Freed(p) = Freed(o) + IF n # 0 \/ o.alg = "TLS12_PSK_TO_MS" THEN 1 ELSE 0
    <2>1. CASE key = <<>>
        BY <1>3, <1>6, <2>1, SamePointers, PointersAreFinite
    <2>2. CASE key # <<>>
        BY <1>3, <1>6, <2>2, OneMorePointer
    <2> QED
        BY <1>3, <2>1, <2>2
<1> QED
    BY <1>4, <1>5, <1>7

LEMMA AcceptedInputs ==
    ASSUME NEW o \in Operation, Unused(o), NEW step \in Steps, NEW n \in Nat,
           NEW p \in Accepted(o, step, n)
    PROVE  /\ p \in Operation /\ Unused(p) /\ Progress(o, p, step)
           /\ Freed(p) = Freed(o) + IF Allocates(o.alg, step, n) THEN 1 ELSE 0
<1> USE DEF Hkdfs, Tls12s
<1>1. \/ o.alg \in Hkdfs /\ step \in {"SALT", "SECRET", "INFO"}
      \/ o.alg \in Tls12s /\ step \in {"SEED", "OTHER_SECRET", "LABEL", "SECRET"}
    BY DEF Accepted, Steps
<1>2. CASE o.alg \in Hkdfs /\ step \in {"SALT", "SECRET"}
    <2>1. p \in IF step = "SALT" THEN HkdfSalt(o, n) ELSE HkdfSecret(o, n)
        BY <1>2 DEF Accepted
    <2>2. ~Allocates(o.alg, step, n)
        BY <1>2 DEF Allocates
    <2> QED
        BY <1>2, <2>1, <2>2, HkdfInputs, PointersAreFinite
<1>3. CASE o.alg \in Hkdfs /\ step = "INFO"
    <2>1. p \in HkdfInfo(o, n)
        BY <1>3 DEF Accepted
    <2>2. Allocates(o.alg, step, n) <=> n # 0
        BY <1>3 DEF Allocates
    <2> QED
        BY <1>3, <2>1, <2>2, HkdfInfoInput
<1>4. CASE o.alg \in Tls12s /\ step \in {"SEED", "OTHER_SECRET", "LABEL"}
    <2>1. p \in CASE step = "SEED" -> Tls12Seed(o, n)
                  [] step = "OTHER_SECRET" -> Tls12OtherSecret(o, n)
                  [] OTHER -> Tls12Label(o, n)
        BY <1>4 DEF Accepted
    <2>2. Allocates(o.alg, step, n) <=> n # 0
        BY <1>4 DEF Allocates
    <2> QED
        BY <1>4, <2>1, <2>2, Tls12Inputs
<1>5. CASE o.alg \in Tls12s /\ step = "SECRET"
    <2>1. p \in Tls12Secret(o, n)
        BY <1>5 DEF Accepted
    <2>2. Allocates(o.alg, step, n) <=> n # 0 \/ o.alg = "TLS12_PSK_TO_MS"
        BY <1>5 DEF Allocates
    <2> QED
        BY <1>5, <2>1, <2>2, Tls12SecretInput
<1> QED
    BY <1>1, <1>2, <1>3, <1>4, <1>5

-----------------------------------------------------------------------------
LEMMA CapacityIsNat ==
    ASSUME NEW alg PROVE MaxCapacity(alg) \in Nat
<1>1. BlocksOf(alg) \in Nat
    BY KdfAssumption DEF BlocksOf
<1> HIDE DEF BlocksOf
<1> QED
    BY <1>1, KdfAssumption DEF MaxCapacity

Inputs ==
    [lengths : [Steps -> Lengths \cup {-1}], from_key : BOOLEAN, offered : BOOLEAN]

(* A prepared operation that has no call under way satisfies the invariant *)
LEMMA BlankHolds ==
    ASSUME NEW alg \in Hkdfs \cup Tls12s \cup {NoAlg}, NEW a \in BOOLEAN,
           NEW c \in Nat, c <= MaxCapacity(alg), NEW k \in BOOLEAN,
           alg = NoAlg => ~a /\ c = 0 /\ ~failed',
           op' = Prepared(alg, a, c, k),
           call' = Idle, held' = 0, given' \in Inputs, k => given'.offered,
           out' = <<>>, allowed' = c, failed' \in BOOLEAN, failed' => c = 0,
           made' \in SUBSET {"key", "offered"}
    PROVE  KdfInv'
<1>1. op' \in Operation /\ <<>> \in Seq(Byte)
    BY BlankIsOperation
<1>2. TypeOK'
    BY <1>1 DEF TypeOK, Idle, Inputs
<1>3. Freed(op') = 0
    BY BlankFreesNothing
<1>4. /\ op'.alg = alg /\ op'.state = "INIT" /\ op'.block_number = 0
      /\ op'.left = 0 /\ op'.capacity = c /\ ~op'.info_set
      /\ op'.can_output_key = k /\ op'.info = <<>> /\ op'.seed = <<>>
      /\ op'.other_secret = <<>> /\ op'.key = <<>> /\ op'.label = <<>>
    BY DEF Blank, Prepared
<1>5. Unused(op)'
    BY <1>4 DEF Unused
<1>6. Position(op') = 0
    BY <1>4, KdfAssumption DEF Position
<1>7. Accounts'
    BY <1>4, <1>6 DEF Accounts, Idle, InRead
<1>8. StateMatchesInputs' /\ KeysAllowed'
    BY <1>4 DEF StateMatchesInputs, KeysAllowed, Idle, Hkdfs, Tls12s
<1>9. CallMatchesState'
    <2>1. alg = NoAlg => op' = Prepared(NoAlg, FALSE, 0, k)
        OBVIOUS
    <2> QED
        BY <1>4, <2>1 DEF CallMatchesState, Idle
<1> QED
    BY <1>2, <1>3, <1>5, <1>7, <1>8, <1>9 DEF KdfInv, InputsAreOwned

LEMMA NothingGivenTyped ==
    NothingGiven \in Inputs
BY DEF NothingGiven, Inputs

LEMMA InitHolds == Init => KdfInv
<1> SUFFICES ASSUME Init PROVE KdfInv
    OBVIOUS
<1>1. op \in Operation
    BY BlankIsPrepared, BlankIsOperation DEF Init
<1>2. TypeOK
    <2>1. <<>> \in Seq(Byte)
        OBVIOUS
    <2> QED
        BY <1>1, <2>1, NothingGivenTyped DEF TypeOK, Init, Idle, Inputs
<1>3. InputsAreOwned
    <2>1. op = Prepared(NoAlg, FALSE, 0, FALSE)
        BY BlankIsPrepared DEF Init
    <2>2. Freed(op) = 0
        BY <2>1, BlankFreesNothing
    <2> QED
        BY <2>2 DEF Init, InputsAreOwned
<1>4. Accounts
    <2>1. MaxCapacity(NoAlg) \in Nat
        BY CapacityIsNat
    <2>2. /\ op.alg = NoAlg /\ op.capacity = 0 /\ op.block_number = 0
          /\ op.left = 0
        BY DEF Init, Blank
    <2>3. Position(op) = 0
        BY <2>2, KdfAssumption DEF Position, NoAlg
    <2> QED
        BY <2>1, <2>2, <2>3 DEF Accounts, Init, Idle, InRead
<1>5. Unused(op) /\ StateMatchesInputs
    BY DEF Init, Blank, NoAlg, Unused, StateMatchesInputs, Hkdfs, Tls12s
<1>6. KeysAllowed
    BY DEF Init, Blank, Idle, KeysAllowed
<1>7. CallMatchesState
    <2>1. op = Prepared(NoAlg, FALSE, 0, FALSE) /\ ~op.can_output_key
        BY BlankIsPrepared DEF Init, Blank
    <2>2. op.can_output_key = FALSE
        BY DEF Init, Blank
    <2> QED
        BY <2>1, <2>2 DEF Init, Idle, CallMatchesState
<1> QED
    BY <1>2, <1>3, <1>4, <1>5, <1>6, <1>7 DEF KdfInv

LEMMA AbortKeeps ==
    ASSUME KdfInv, call.pc = "idle", Abort PROVE KdfInv'
<1>1. held' = 0
    BY PointersAreFinite DEF KdfInv, InputsAreOwned, Abort
<1>2. call' = Idle
    BY DEF KdfInv, CallMatchesState, Abort
<1>3. op' = Prepared(NoAlg, FALSE, 0, FALSE)
    BY BlankIsPrepared DEF Abort
<1>4. made' \in SUBSET {"key", "offered"}
    BY DEF Abort
<1>5. /\ 0 \in Nat /\ 0 <= MaxCapacity(NoAlg)
      /\ NoAlg \in Hkdfs \cup Tls12s \cup {NoAlg} /\ FALSE \in BOOLEAN
    BY CapacityIsNat
<1>6. /\ given' = NothingGiven /\ out' = <<>> /\ allowed' = 0
      /\ failed' = FALSE /\ failed' \in BOOLEAN
    BY DEF Abort
<1> QED
    BY <1>1, <1>2, <1>3, <1>4, <1>5, <1>6, NothingGivenTyped, BlankHolds

LEMMA OutputFailsKeeps ==
    ASSUME KdfInv, op.alg # NoAlg, OutputFails PROVE KdfInv'
<1>1. held' = 0
    BY PointersAreFinite DEF KdfInv, InputsAreOwned, OutputFails
<1>2. op' = Prepared(op.alg, op.agreement, 0, FALSE)
    BY BlankIsPrepared DEF OutputFails
<1>3. made' \in SUBSET {"key", "offered"}
    BY DEF OutputFails
<1>4. 0 \in Nat /\ 0 <= MaxCapacity(op.alg)
    BY CapacityIsNat
<1>5. /\ op.alg \in Hkdfs \cup Tls12s \cup {NoAlg}
      /\ op.agreement \in BOOLEAN
    BY DEF KdfInv, TypeOK, Operation
<1>6. /\ call' = Idle /\ given' = NothingGiven /\ out' = <<>>
      /\ allowed' = 0 /\ failed' = TRUE /\ failed' \in BOOLEAN
    BY DEF OutputFails
<1> QED
    BY <1>1, <1>2, <1>3, <1>4, <1>5, <1>6, NothingGivenTyped, BlankHolds

LEMMA SetupKeeps ==
    ASSUME KdfInv, NEW alg \in Hkdfs \cup Tls12s, NEW agreement \in BOOLEAN,
           Setup(alg, agreement)
    PROVE  KdfInv'
<1>1. op = Prepared(NoAlg, FALSE, 0, op.can_output_key) /\ ~failed
    BY DEF KdfInv, CallMatchesState, Setup
<1>2. /\ op.state = "INIT" /\ op.block_number = 0 /\ op.left = 0
      /\ op.alg = NoAlg
    BY <1>1 DEF Prepared, Blank
<1>3. call' = Idle
    BY <1>2 DEF KdfInv, CallMatchesState, Setup
<1>4. out' = <<>>
    <2>1. Position(op) = 0
        BY <1>2, KdfAssumption DEF Position, NoAlg
    <2>2. out \in Seq(Byte) /\ Len(out) = 0
        BY <1>3, <2>1 DEF KdfInv, TypeOK, Accounts, Idle, InRead, Setup
    <2> QED
        BY <2>2, EmptySeq DEF Setup
<1>5. held' = 0
    <2>1. Freed(op) = 0
        BY <1>1, BlankFreesNothing
    <2> QED
        BY <2>1 DEF KdfInv, InputsAreOwned, Setup
<1>6. made' \in SUBSET {"key", "offered"}
    BY DEF KdfInv, TypeOK, KeysAllowed, Setup
<1>7. MaxCapacity(alg) \in Nat /\ MaxCapacity(alg) <= MaxCapacity(alg)
    BY CapacityIsNat
<1>8. /\ alg \in Hkdfs \cup Tls12s \cup {NoAlg} /\ alg # NoAlg
      /\ failed' = FALSE /\ failed' \in BOOLEAN
    BY <1>1 DEF NoAlg, Hkdfs, Tls12s, Setup, KdfInv, TypeOK
<1>9. /\ op' = Prepared(alg, agreement, MaxCapacity(alg), op.can_output_key)
      /\ allowed' = MaxCapacity(alg)
      /\ given' \in Inputs
    BY DEF Setup, Prepared, KdfInv, TypeOK, Inputs
<1>10. /\ op.can_output_key \in BOOLEAN
       /\ op.can_output_key => given'.offered
    BY <1>2 DEF Setup, KdfInv, TypeOK, Operation, KeysAllowed
<1> QED
    BY <1>3, <1>4, <1>5, <1>6, <1>7, <1>8, <1>9, <1>10, BlankHolds

(* An input refused by an operation that is not set up.                    *)
LEMMA UnusedInputKeeps ==
    ASSUME KdfInv, call.pc = "idle", NEW step, NEW is_key \in BOOLEAN,
           op.alg = NoAlg,
           op' = [op EXCEPT !.can_output_key = @ \/ Unlocks(step, is_key)],
           given' = [given EXCEPT !.offered = @ \/ (is_key /\ step = "SECRET")],
           UNCHANGED <<call, held, out, allowed, failed, made>>
    PROVE  KdfInv'
<1> DEFINE old == op.can_output_key
           new == old \/ Unlocks(step, is_key)
<1>1. op = Prepared(NoAlg, FALSE, 0, old) /\ ~failed /\ call = Idle
    BY DEF KdfInv, CallMatchesState
<1>2. old \in BOOLEAN /\ new \in BOOLEAN /\ given' \in Inputs
    BY DEF KdfInv, TypeOK, Operation, Inputs, Unlocks
<1>3. op' = Prepared(NoAlg, FALSE, 0, new)
    BY <1>1 DEF Prepared, Blank
<1>4. new => given'.offered
    <2>1. old => given.offered
        BY UnusedIsBlank DEF KdfInv, KeysAllowed
    <2> QED
        BY <2>1 DEF KdfInv, TypeOK, Unlocks
<1>5. held' = 0
    BY <1>1, BlankFreesNothing DEF KdfInv, InputsAreOwned
<1>6. out' = <<>> /\ allowed' = 0
    <2>1. /\ op.alg # "HKDF_EXTRACT" /\ op.block_number = 0 /\ op.left = 0
          /\ op.capacity = 0
        BY <1>1 DEF Prepared, Blank, NoAlg
    <2>2. Position(op) = 0 /\ InRead(call) = 0 /\ call.want = 0
        BY <1>1, <2>1, KdfAssumption DEF Position, InRead, Idle
    <2>3. Len(out) = 0 /\ out \in Seq(Byte) /\ allowed = 0
        BY <2>1, <2>2, LenProperties DEF KdfInv, TypeOK, Accounts
    <2> QED
        BY <2>3, EmptySeq
<1>7. /\ made' \in SUBSET {"key", "offered"}
      /\ failed' = FALSE /\ failed' \in BOOLEAN /\ call' = Idle
    BY <1>1 DEF KdfInv, TypeOK, KeysAllowed
<1>8. /\ 0 \in Nat /\ 0 <= MaxCapacity(NoAlg)
      /\ NoAlg \in Hkdfs \cup Tls12s \cup {NoAlg} /\ FALSE \in BOOLEAN
    BY CapacityIsNat
<1> HIDE DEF new, old
<1> QED
    BY <1>2, <1>3, <1>4, <1>5, <1>6, <1>7, <1>8, BlankHolds

LEMMA InputKeeps ==
    ASSUME KdfInv, call.pc = "idle", NEW step \in Steps, NEW n \in Lengths,
           NEW type, NEW is_key \in BOOLEAN, Input(step, type, n, is_key)
    PROVE  KdfInv'
<1>1. CASE Abort
    BY <1>1, AbortKeeps
<1>2. ASSUME NEW o \in Accepted(op, step, n),
             op' = [o EXCEPT !.can_output_key = @ \/ Unlocks(step, is_key)],
             held' = held + IF Allocates(op.alg, step, n) THEN 1 ELSE 0,
             given' = [given EXCEPT !.lengths[step] = n,
                                    !.from_key = IF step = "SECRET" THEN is_key
                                                                    ELSE @],
             UNCHANGED <<call, out, allowed, failed, made>>
      PROVE  KdfInv'
    <2>1. /\ op \in Operation /\ Unused(op) /\ n \in Nat
          /\ held = Freed(op)
        BY KdfAssumption DEF KdfInv, TypeOK, InputsAreOwned
    <2>2. /\ o \in Operation /\ Unused(o) /\ Progress(op, o, step)
          /\ Freed(o) = Freed(op) + IF Allocates(op.alg, step, n) THEN 1 ELSE 0
        BY <2>1, AcceptedInputs
    <2>3. /\ op' \in Operation
          /\ \A f \in {"alg", "state", "capacity", "block_number", "left",
                        "info_set", "info", "seed", "other_secret", "key",
                        "label"} : op'[f] = o[f]
          /\ op'.can_output_key = (o.can_output_key \/ Unlocks(step, is_key))
        BY <1>2, <2>2 DEF Operation, Unlocks
    <2>4. TypeOK'
        <3>1. given' \in Inputs
            BY <1>2 DEF KdfInv, TypeOK, Inputs
        <3>2. held' \in Nat
            BY <1>2 DEF KdfInv, TypeOK
        <3> QED
            BY <1>2, <2>3, <3>1, <3>2 DEF KdfInv, TypeOK, Inputs
    <2>5. Unused(op)'
        BY <2>2, <2>3 DEF Unused
    <2>6. InputsAreOwned'
        <3>1. Freed(op') = Freed(o)
            BY <2>3, SamePointers DEF Owned
        <3> QED
            BY <1>2, <2>1, <2>2, <3>1 DEF InputsAreOwned
    <2>7. Accounts'
        <3>1. Position(op) = 0 /\ Position(op') = 0
            BY <2>1, <2>2, <2>3, <2>5, KdfAssumption
               DEF Position, Unused, Progress, Operation
        <3> QED
            BY <1>2, <2>2, <2>3, <3>1 DEF KdfInv, Accounts, Progress
    <2>8. StateMatchesInputs'
        <3>1. /\ given'.lengths[step] # -1
              /\ \A s \in Steps \ {step} : given'.lengths[s] = given.lengths[s]
            BY <1>2, KdfAssumption DEF KdfInv, TypeOK
        <3>2. \A s \in Steps : Seen(s) \/ s = step => Seen(s)'
            BY <3>1 DEF Seen
        <3> HIDE DEF Seen
        <3>3. StateMatchesInputs
            BY DEF KdfInv
        <3> QED
            BY <2>2, <2>3, <3>2, <3>3
               DEF StateMatchesInputs, Progress, Late, Steps, Hkdfs, Tls12s
    <2>9. KeysAllowed'
        <3>1. /\ given'.from_key = IF step = "SECRET" THEN is_key ELSE given.from_key
              /\ given'.offered = given.offered
            BY <1>2 DEF KdfInv, TypeOK
        <3>2. call = Idle
            BY DEF KdfInv, CallMatchesState
        <3> QED
            BY <1>2, <2>2, <2>3, <3>1, <3>2
               DEF KdfInv, KeysAllowed, Progress, Late, Unlocks, Idle
    <2>10. CallMatchesState'
        <3>1. op.alg # NoAlg
            BY <1>2 DEF Accepted, NoAlg, Hkdfs, Tls12s
        <3> QED
            BY <1>2, <2>2, <2>3, <3>1 DEF KdfInv, CallMatchesState, Progress
    <2> QED
        BY <2>4, <2>5, <2>6, <2>7, <2>8, <2>9, <2>10 DEF KdfInv
<1>3. ASSUME op.alg = NoAlg,
             op' = [op EXCEPT !.can_output_key = @ \/ Unlocks(step, is_key)],
             given' = [given EXCEPT !.offered = @ \/ (is_key /\ step = "SECRET")],
             UNCHANGED <<call, held, out, allowed, failed, made>>
      PROVE  KdfInv'
    BY <1>3, UnusedInputKeeps
<1> QED
    BY <1>1, <1>2, <1>3 DEF Input

LEMMA SetCapacityKeeps ==
    ASSUME KdfInv, call.pc = "idle", NEW n \in ReadLengths, SetCapacity(n)
    PROVE  KdfInv'
<1>1. /\ op \in Operation /\ n \in Nat /\ n <= op.capacity
      /\ op' = [op EXCEPT !.capacity = n]
      /\ allowed' = Len(out) + n
      /\ UNCHANGED <<call, held, given, out, failed, made>>
    BY KdfAssumption DEF KdfInv, TypeOK, SetCapacity
<1>2. /\ op' \in Operation /\ op'.capacity = n
      /\ \A f \in {"alg", "state", "block_number", "left", "info_set", "info",
                    "seed", "other_secret", "key", "label",
                    "can_output_key"} : op'[f] = op[f]
    BY <1>1 DEF Operation
<1>3. TypeOK'
    <2>1. Len(out) \in Nat
        BY LenProperties DEF KdfInv, TypeOK
    <2> QED
        BY <1>1, <1>2, <2>1 DEF KdfInv, TypeOK
<1>4. Unused(op)'
    BY <1>2 DEF KdfInv, Unused
<1>5. InputsAreOwned'
    <2>1. Freed(op') = Freed(op)
        BY <1>2, SamePointers DEF Owned
    <2> QED
        BY <1>1, <2>1 DEF KdfInv, InputsAreOwned
<1>6. Accounts'
    <2>1. Position(op') = Position(op) /\ MaxCapacity(op'.alg) = MaxCapacity(op.alg)
        BY <1>2 DEF Position
    <2>2. /\ op.capacity \in Nat /\ call = Idle /\ Len(out) \in Nat
          /\ allowed \in Nat /\ MaxCapacity(op.alg) \in Nat
        BY CapacityIsNat, LenProperties
           DEF KdfInv, TypeOK, CallMatchesState, Operation
    <2>3. InRead(Idle) = 0 /\ Idle.want = 0
        BY DEF InRead, Idle
    <2> QED
        BY <1>1, <1>2, <2>1, <2>2, <2>3 DEF KdfInv, Accounts
<1>7. StateMatchesInputs' /\ KeysAllowed'
    BY <1>1, <1>2 DEF KdfInv, StateMatchesInputs, Seen, KeysAllowed
<1>8. CallMatchesState'
    BY <1>1, <1>2 DEF KdfInv, CallMatchesState, SetCapacity
<1> QED
    BY <1>3, <1>4, <1>5, <1>6, <1>7, <1>8 DEF KdfInv

-----------------------------------------------------------------------------
(* Output.                                                                 *)

(* An output begins when no other is under way: the operation is idle, or  *)
(* bytes are drawn again for a key.                                        *)
LEMMA OutputBeginKeeps ==
    ASSUME KdfInv, call.pc # "read", NEW n \in Nat, NEW for_key \in BOOLEAN,
           for_key => given.from_key \/ given.offered, OutputBegin(n, for_key)
    PROVE  KdfInv'
<1>1. op.alg # NoAlg
    BY DEF OutputBegin
<1>2. CASE OutputFails
    BY <1>1, <1>2, OutputFailsKeeps
<1>3. ASSUME n <= op.capacity, Readable(op),
             op' = [op EXCEPT !.capacity = @ - n, !.state = "OUTPUT"],
             call' = [pc |-> "read", want |-> n, for_key |-> for_key,
                      bytes |-> <<>>],
             UNCHANGED <<held, given, out, allowed, failed, made>>
      PROVE  KdfInv'
    <2>1. op \in Operation /\ op.capacity \in Nat
        BY DEF KdfInv, TypeOK, Operation
    <2>2. /\ op' \in Operation /\ op'.state = "OUTPUT"
          /\ op'.capacity = op.capacity - n
          /\ \A f \in {"alg", "block_number", "left", "info_set", "info",
                        "seed", "other_secret", "key", "label",
                        "can_output_key"} : op'[f] = op[f]
        <3> DEFINE rest == op.capacity - n
        <3>1. rest \in Nat /\ op' = [op EXCEPT !.capacity = rest,
                                                !.state = "OUTPUT"]
            BY <1>3, <2>1
        <3> HIDE DEF rest
        <3>2. /\ op' \in Operation /\ op'.state = "OUTPUT"
              /\ op'.capacity = rest
              /\ \A f \in {"alg", "block_number", "left", "info_set", "info",
                            "seed", "other_secret", "key", "label",
                            "can_output_key"} : op'[f] = op[f]
            BY <2>1, <3>1 DEF Operation
        <3> QED
            BY <3>2 DEF rest
    <2>3. TypeOK'
        <3>1. <<>> \in Seq(Byte)
            OBVIOUS
        <3> QED
            BY <1>3, <2>2, <3>1 DEF KdfInv, TypeOK
    <2>4. Unused(op)'
        BY <1>3, <2>2 DEF KdfInv, Unused
    <2>5. InputsAreOwned'
        <3>1. Freed(op') = Freed(op)
            BY <2>2, SamePointers DEF Owned
        <3> QED
            BY <1>3, <3>1 DEF KdfInv, InputsAreOwned
    <2>6. Accounts'
        <3>1. Position(op') = Position(op) /\ MaxCapacity(op'.alg) = MaxCapacity(op.alg)
            <4>1. op.alg = "HKDF_EXTRACT" => op.state \in {"KEYED", "OUTPUT"}
                BY <1>3 DEF Readable, Hkdfs
            <4> QED
                BY <2>2, <4>1 DEF Position
        <3>2. InRead(call) = 0 /\ call.want = 0 /\ InRead(call') = 0 /\ call'.want = n
            BY <1>3 DEF KdfInv, CallMatchesState, InRead
        <3>3. /\ Len(out) \in Nat /\ allowed \in Nat
              /\ MaxCapacity(op.alg) \in Nat
            BY CapacityIsNat, LenProperties DEF KdfInv, TypeOK
        <3> QED
            BY <1>3, <2>1, <2>2, <3>1, <3>2, <3>3 DEF KdfInv, Accounts
    <2>7. StateMatchesInputs'
        BY <1>3, <2>2
           DEF KdfInv, StateMatchesInputs, Seen, Readable, Hkdfs, Tls12s
    <2>8. KeysAllowed'
        BY <1>3, <2>2 DEF KdfInv, KeysAllowed
    <2>9. CallMatchesState'
        BY <1>1, <1>3, <2>2 DEF CallMatchesState
    <2> QED
        BY <2>3, <2>4, <2>5, <2>6, <2>7, <2>8, <2>9 DEF KdfInv
<1> QED
    BY <1>2, <1>3 DEF OutputBegin

LEMMA SameTotals ==
    ASSUME NEW capacity \in Nat, NEW want \in Nat, NEW want2 \in Nat,
           NEW given_out \in Nat, NEW read \in Nat, NEW read2 \in Nat,
           NEW position \in Int, NEW position2 \in Int,
           want2 + read2 = want + read, read2 - read = position2 - position,
           given_out + read = position
    PROVE  /\ capacity + want2 + given_out + read2
                = capacity + want + given_out + read
           /\ given_out + read2 = position2
OBVIOUS

LEMMA PositionIsInt ==
    ASSUME NEW o \in Operation PROVE Position(o) \in Int
<1>1. o.block_number * HashLength \in Int
    BY KdfAssumption DEF Operation
<1> QED
    BY <1>1, KdfAssumption DEF Position, Operation

(* A step of the loop changes the block and what was read, nothing else.   *)
LoopStep(left, number, block) ==
    /\ call.pc = "read"
    /\ call' \in [pc : {"read"}, want : Nat, for_key : {call.for_key},
                  bytes : Seq(Byte)]
    /\ left \in 0 .. HashLength /\ number \in 0 .. LastBlock /\ block \in Block
    /\ op' = [op EXCEPT !.left = left, !.block_number = number, !.block = block]
    /\ op.alg = "HKDF_EXTRACT" => number = 0
    /\ call'.want + Len(call'.bytes) = call.want + Len(call.bytes)
    /\ Len(call'.bytes) - Len(call.bytes) = Position(op') - Position(op)
    /\ UNCHANGED <<held, given, out, allowed, failed, made>>

LEMMA LoopKeeps ==
    ASSUME KdfInv, NEW left, NEW number, NEW block, LoopStep(left, number, block)
    PROVE  KdfInv'
<1>1. /\ op \in Operation /\ op.state = "OUTPUT" /\ op.alg # NoAlg
    BY UsedInOutput DEF KdfInv, TypeOK, CallMatchesState, LoopStep
<1>2. /\ op' \in Operation /\ op'.left = left /\ op'.block_number = number
      /\ \A f \in {"alg", "state", "capacity", "info_set", "info", "seed",
                    "other_secret", "key", "label",
                    "can_output_key"} : op'[f] = op[f]
    BY <1>1 DEF Operation, LoopStep
<1>3. /\ call.pc = "read" /\ call'.pc = "read" /\ call'.for_key = call.for_key
      /\ call'.want \in Nat /\ call'.bytes \in Seq(Byte)
      /\ call' \in [pc : {"idle", "read", "drawn"}, want : Nat,
                    for_key : BOOLEAN, bytes : Seq(Byte)]
    BY DEF KdfInv, TypeOK, LoopStep
<1>4. UNCHANGED <<held, given, out, allowed, failed, made>>
    BY DEF LoopStep
<1>5. TypeOK'
    BY <1>2, <1>3, <1>4 DEF KdfInv, TypeOK
<1>6. Unused(op)'
    BY <1>1, <1>2 DEF KdfInv, Unused, LoopStep
<1>7. InputsAreOwned'
    <2>1. Freed(op') = Freed(op)
        BY <1>2, SamePointers DEF Owned
    <2> QED
        BY <1>4, <2>1 DEF KdfInv, InputsAreOwned
<1>8. Accounts'
    <2>1. /\ Len(out) \in Nat /\ Len(call.bytes) \in Nat
          /\ Len(call'.bytes) \in Nat /\ op.capacity \in Nat /\ call.want \in Nat
        BY <1>1, <1>3, LenProperties DEF KdfInv, TypeOK, Operation
    <2>2. Position(op) \in Int /\ Position(op') \in Int
        BY <1>1, <1>2, PositionIsInt
    <2>3. InRead(call) = Len(call.bytes) /\ InRead(call') = Len(call'.bytes)
        BY <1>3 DEF InRead
    <2>4. /\ op.capacity + call.want + Len(out) + Len(call.bytes) = allowed
          /\ Len(out) + Len(call.bytes) = Position(op)
          /\ allowed <= MaxCapacity(op.alg) /\ (failed => allowed = 0)
        BY <2>3 DEF KdfInv, Accounts
    <2>5. /\ call'.want + Len(call'.bytes) = call.want + Len(call.bytes)
          /\ Len(call'.bytes) - Len(call.bytes) = Position(op') - Position(op)
        BY DEF LoopStep
    <2>6. /\ op.capacity + call'.want + Len(out) + Len(call'.bytes)
                = op.capacity + call.want + Len(out) + Len(call.bytes)
          /\ Len(out) + Len(call'.bytes) = Position(op')
        <3> DEFINE c == op.capacity
                   w == call.want
                   w2 == call'.want
                   g == Len(out)
                   r == Len(call.bytes)
                   r2 == Len(call'.bytes)
                   p == Position(op)
                   p2 == Position(op')
        <3>1. /\ c \in Nat /\ w \in Nat /\ w2 \in Nat /\ g \in Nat
              /\ r \in Nat /\ r2 \in Nat /\ p \in Int /\ p2 \in Int
              /\ w2 + r2 = w + r /\ r2 - r = p2 - p /\ g + r = p
            BY <1>3, <2>1, <2>2, <2>4, <2>5
        <3> HIDE DEF c, w, w2, g, r, r2, p, p2
        <3>2. c + w2 + g + r2 = c + w + g + r /\ g + r2 = p2
            BY <3>1, SameTotals
        <3> QED
            BY <3>2 DEF c, w, w2, g, r, r2, p, p2
    <2> QED
        BY <1>2, <1>4, <2>3, <2>4, <2>6 DEF Accounts
<1>9. StateMatchesInputs' /\ KeysAllowed'
    BY <1>2, <1>3, <1>4 DEF KdfInv, StateMatchesInputs, Seen, KeysAllowed
<1>10. CallMatchesState'
    BY <1>1, <1>2, <1>3, <1>4 DEF CallMatchesState
<1> QED
    BY <1>5, <1>6, <1>7, <1>8, <1>9, <1>10 DEF KdfInv

LEMMA CopyBytesKeeps ==
    ASSUME KdfInv, CopyBytes PROVE KdfInv'
<1> DEFINE n == Lesser(op.left, call.want)
           first == HashLength - op.left
           piece == [i \in 1 .. n |-> [block |-> op.block, offset |-> first + i]]
<1>1. /\ op \in Operation /\ op.state = "OUTPUT"
      /\ op.left \in 1 .. HashLength /\ call.want \in Nat \ {0}
    BY DEF KdfInv, TypeOK, CallMatchesState, CopyBytes, Operation
<1>2. n \in Nat /\ n <= op.left /\ n <= call.want
    BY <1>1 DEF Lesser
<1> HIDE DEF n
<1>3. piece \in Seq(Byte) /\ Len(piece) = n
    <2>1. \A i \in 1 .. n : [block |-> op.block, offset |-> first + i] \in Byte
        BY <1>1, <1>2, KdfAssumption DEF Operation, Byte
    <2> QED
        BY <1>2, <2>1
<1> HIDE DEF piece
<1>4. call.bytes \in Seq(Byte)
    BY DEF KdfInv, TypeOK
<1>5. call' = [call EXCEPT !.want = @ - n, !.bytes = @ \o piece]
    BY DEF CopyBytes, n, piece
<1>6. /\ call' \in [pc : {"read"}, want : Nat, for_key : {call.for_key},
                     bytes : Seq(Byte)]
      /\ call'.want = call.want - n /\ call'.bytes = call.bytes \o piece
    <2>1. call.bytes \o piece \in Seq(Byte) /\ call.want - n \in Nat
        BY <1>1, <1>2, <1>3, <1>4, ConcatProperties
    <2> DEFINE whole == call.bytes \o piece
               rest == call.want - n
    <2>2. call' = [call EXCEPT !.want = rest, !.bytes = whole]
        BY <1>5
    <2>3. call.pc = "read" /\ call \in [pc : {"idle", "read", "drawn"}, want : Nat,
                                       for_key : BOOLEAN, bytes : Seq(Byte)]
        BY DEF KdfInv, TypeOK, CopyBytes
    <2> HIDE DEF whole, rest
    <2>4. /\ call' \in [pc : {"read"}, want : Nat, for_key : {call.for_key},
                         bytes : Seq(Byte)]
          /\ call'.want = rest /\ call'.bytes = whole
        <3>1. whole \in Seq(Byte) /\ rest \in Nat
            BY <2>1 DEF whole, rest
        <3> QED
            BY <2>2, <2>3, <3>1
    <2> QED
        BY <2>4 DEF whole, rest
<1>7. Len(call'.bytes) = Len(call.bytes) + n /\ Len(call.bytes) \in Nat
    <2>1. Len(call.bytes \o piece) = Len(call.bytes) + Len(piece)
        BY <1>3, <1>4, ConcatProperties
    <2>2. call'.bytes = call.bytes \o piece
        BY <1>6
    <2> QED
        BY <1>3, <1>4, <2>1, <2>2, LenProperties
<1>8. op' = [op EXCEPT !.left = op.left - n, !.block_number = op.block_number,
                       !.block = op.block]
    <2>1. op' = [op EXCEPT !.left = op.left - n]
        BY DEF CopyBytes, n
    <2> QED
        BY <1>1, <2>1 DEF Operation
<1>9. /\ op.left - n \in 0 .. HashLength /\ op.block_number \in 0 .. LastBlock
      /\ op.block \in Block
    BY <1>1, <1>2, KdfAssumption DEF Operation
<1>10. Position(op') - Position(op) = n
    <2>1. /\ op'.left = op.left - n /\ op'.block_number = op.block_number
          /\ op'.alg = op.alg /\ op'.state = "OUTPUT"
        BY <1>1, <1>8 DEF Operation
    <2>2. op.block_number * HashLength \in Int
        BY <1>9, KdfAssumption
    <2> QED
        BY <1>1, <1>2, <2>1, <2>2, KdfAssumption DEF Position
<1>11. op.alg = "HKDF_EXTRACT" => op.block_number = 0
    BY DEF KdfInv, Unused
<1>12. /\ call'.want + Len(call'.bytes) = call.want + Len(call.bytes)
       /\ Len(call'.bytes) - Len(call.bytes) = Position(op') - Position(op)
    BY <1>1, <1>2, <1>6, <1>7, <1>10
<1> QED
    BY <1>6, <1>8, <1>9, <1>11, <1>12, LoopKeeps DEF LoopStep, CopyBytes

LEMMA NextBlockKeeps ==
    ASSUME KdfInv, NextBlock PROVE KdfInv'
<1> DEFINE number == op.block_number + 1
           chain == IF number = 1 THEN <<1>> ELSE Append(op.block.chain, number)
           block == [key |-> op.key, text |-> Text(op), chain |-> chain]
<1>1. /\ op \in Operation /\ op.state = "OUTPUT" /\ op.left = 0
      /\ call.pc = "read"
      /\ op.block_number # LastBlockNumber(op.alg)
    BY DEF KdfInv, TypeOK, CallMatchesState, NextBlock, AtBlockEnd
<1>2. op.alg # "HKDF_EXTRACT"
    BY <1>1 DEF KdfInv, Unused, LastBlockNumber
<1>3. number \in 0 .. LastBlock
    BY <1>1, <1>2, KdfAssumption DEF LastBlockNumber, Operation
<1>4. block \in Block
    <2>1. chain \in Seq(Nat)
        BY <1>1, <1>3, AppendProperties DEF Operation, Block
    <2>2. Text(op) \in Datum
        BY <1>1, ConcatProperties DEF Text, Operation, Datum
    <2> HIDE DEF chain
    <2> QED
        BY <1>1, <2>1, <2>2 DEF Operation, Block
<1>5. op' = [op EXCEPT !.left = HashLength, !.block_number = number,
                       !.block = block]
    BY DEF NextBlock
<1> HIDE DEF block
<1>6. Position(op') - Position(op) = 0
    <2>1. /\ op'.left = HashLength /\ op'.block_number = number
          /\ op'.alg = op.alg
        BY <1>1, <1>5 DEF Operation
    <2>2. /\ op.block_number * HashLength \in Int
          /\ number * HashLength = op.block_number * HashLength + HashLength
        BY <1>1, KdfAssumption DEF Operation
    <2> QED
        BY <1>1, <1>2, <2>1, <2>2, KdfAssumption DEF Position
<1>7. HashLength \in 0 .. HashLength
    BY KdfAssumption
<1>8. /\ call' \in [pc : {"read"}, want : Nat, for_key : {call.for_key},
                     bytes : Seq(Byte)]
      /\ call'.want + Len(call'.bytes) = call.want + Len(call.bytes)
      /\ Len(call'.bytes) - Len(call.bytes) = Position(op') - Position(op)
    <2>1. call' = call /\ call.bytes \in Seq(Byte)
        BY DEF NextBlock, KdfInv, TypeOK
    <2>2. Len(call.bytes) - Len(call.bytes) = 0
        BY <2>1, LenProperties
    <2> QED
        BY <1>1, <1>6, <2>1, <2>2 DEF KdfInv, TypeOK
<1> QED
    BY <1>1, <1>2, <1>3, <1>4, <1>5, <1>7, <1>8, LoopKeeps DEF LoopStep, NextBlock

LEMMA OutputDoneKeeps ==
    ASSUME KdfInv, OutputDone PROVE KdfInv'
<1>1. /\ call.pc = "read" /\ call.want = 0 /\ op.state = "OUTPUT"
      /\ op.alg # NoAlg
      /\ out \in Seq(Byte) /\ call.bytes \in Seq(Byte)
    BY UsedInOutput DEF KdfInv, TypeOK, CallMatchesState, OutputDone
<1>2. /\ out' \in Seq(Byte) /\ Len(out') = Len(out) + Len(call.bytes)
    BY <1>1, ConcatProperties DEF OutputDone
<1>3. /\ call' = IF call.for_key THEN [call EXCEPT !.pc = "drawn"] ELSE Idle
      /\ UNCHANGED <<op, held, given, allowed, failed, made>>
    BY DEF OutputDone
<1>4. /\ call' \in [pc : {"idle", "drawn"}, want : {0}, for_key : BOOLEAN,
                     bytes : Seq(Byte)]
      /\ call'.pc = "drawn" <=> call.for_key
      /\ call'.pc = "idle" => call' = Idle
      /\ call'.for_key => call.for_key
    BY <1>1, <1>3 DEF KdfInv, TypeOK, Idle
<1>5. TypeOK'
    BY <1>2, <1>3, <1>4 DEF KdfInv, TypeOK
<1>6. Unused(op)' /\ InputsAreOwned' /\ StateMatchesInputs'
    BY <1>3 DEF KdfInv, Unused, InputsAreOwned, StateMatchesInputs, Seen
<1>7. Accounts'
    <2>1. InRead(call) = Len(call.bytes) /\ InRead(call') = 0 /\ call'.want = 0
        BY <1>1, <1>4 DEF InRead
    <2>2. /\ Len(out) \in Nat /\ Len(call.bytes) \in Nat /\ op.capacity \in Nat
        BY <1>1, LenProperties DEF KdfInv, TypeOK, Operation
    <2>3. /\ op.capacity + call.want + Len(out) + Len(call.bytes) = allowed
          /\ Len(out) + Len(call.bytes) = Position(op)
          /\ allowed <= MaxCapacity(op.alg) /\ (failed => allowed = 0)
        BY <2>1 DEF KdfInv, Accounts
    <2>4. /\ op.capacity + 0 + Len(out') + 0 = allowed
          /\ Len(out') + 0 = Position(op)
        <3> DEFINE g == Len(out)
                   r == Len(call.bytes)
        <3>1. /\ g \in Nat /\ r \in Nat /\ op.capacity + 0 + g + r = allowed
              /\ Len(out') = g + r /\ g + r = Position(op)
            BY <1>1, <1>2, <2>2, <2>3
        <3> HIDE DEF g, r
        <3> QED
            BY <2>2, <3>1
    <2> QED
        BY <1>3, <2>1, <2>3, <2>4 DEF Accounts
<1>8. KeysAllowed' /\ CallMatchesState'
    BY <1>1, <1>3, <1>4 DEF KdfInv, KeysAllowed, CallMatchesState
<1> QED
    BY <1>5, <1>6, <1>7, <1>8 DEF KdfInv

LEMMA KeyDoneKeeps ==
    ASSUME KdfInv, KeyDone PROVE KdfInv'
<1>1. /\ call.pc = "drawn" /\ call' = Idle
      /\ made' \in SUBSET {"key", "offered"}
      /\ UNCHANGED <<op, held, given, out, allowed, failed>>
    <2>1. made \in SUBSET {"key", "offered"} /\ Secret \in {"key", "offered"}
        BY DEF KdfInv, TypeOK, KeysAllowed, KeyDone, Secret
    <2>2. made' \in SUBSET {"key", "offered"}
        BY <2>1 DEF KeyDone
    <2> QED
        BY <2>2 DEF KeyDone
<1>2. call.want = 0 /\ InRead(call) = 0 /\ InRead(call') = 0 /\ call'.want = 0
    BY <1>1 DEF KdfInv, CallMatchesState, InRead, Idle
<1>3. TypeOK'
    <2>1. <<>> \in Seq(Byte)
        OBVIOUS
    <2> QED
        BY <1>1, <2>1 DEF KdfInv, TypeOK, Idle
<1>4. Unused(op)' /\ InputsAreOwned' /\ StateMatchesInputs'
    BY <1>1 DEF KdfInv, Unused, InputsAreOwned, StateMatchesInputs, Seen
<1>5. Accounts'
    BY <1>1, <1>2 DEF KdfInv, Accounts, Position
<1>6. KeysAllowed' /\ CallMatchesState'
    BY <1>1 DEF KdfInv, KeysAllowed, CallMatchesState, Idle
<1> QED
    BY <1>3, <1>4, <1>5, <1>6 DEF KdfInv

LEMMA ApplicationKeeps ==
    ASSUME KdfInv, call.pc = "idle", Application PROVE KdfInv'
<1>1. CASE \E alg \in Hkdfs \cup Tls12s, agreement \in BOOLEAN :
                Setup(alg, agreement)
    BY <1>1, SetupKeeps
<1>2. CASE \E step \in Steps, n \in Lengths : InputBytes(step, n)
    BY <1>2, InputKeeps DEF InputBytes
<1>3. CASE \E step \in Steps, n \in Lengths, type \in {"DERIVE", "RAW_DATA"} :
                InputKey(step, type, n)
    BY <1>3, InputKeeps, AbortKeeps DEF InputKey
<1>4. CASE \E step \in Steps, n \in Lengths : KeyAgreement(step, n)
    BY <1>4, InputKeeps, AbortKeeps DEF KeyAgreement
<1>5. CASE \E n \in ReadLengths : SetCapacity(n)
    BY <1>5, SetCapacityKeeps
<1>6. CASE \E n \in ReadLengths : OutputBytes(n)
    BY <1>6, OutputBeginKeeps, KdfAssumption DEF OutputBytes
<1>7. CASE \E n \in ReadLengths : OutputKey(n)
    <2>1. PICK n \in ReadLengths : OutputKey(n)
        BY <1>7
    <2>2. n \in Nat /\ (given.from_key \/ given.offered)
        BY <2>1, KdfAssumption DEF OutputKey, KdfInv, KeysAllowed
    <2> QED
        BY <2>1, <2>2, OutputBeginKeeps DEF OutputKey
<1>8. CASE Abort
    BY <1>8, AbortKeeps
<1> QED
    BY <1>1, <1>2, <1>3, <1>4, <1>5, <1>6, <1>7, <1>8 DEF Application

LEMMA StepKeeps ==
    ASSUME KdfInv, [Next]_vars PROVE KdfInv'
<1>1. CASE call.pc = "idle" /\ Application
    BY <1>1, ApplicationKeeps
<1>2. CASE CopyBytes
    BY <1>2, CopyBytesKeeps
<1>3. CASE NextBlock
    BY <1>3, NextBlockKeeps
<1>4. CASE BlockFails
    <2>1. op.alg # NoAlg
        BY <1>4, UsedInOutput DEF KdfInv, CallMatchesState, BlockFails, AtBlockEnd
    <2> QED
        BY <1>4, <2>1, OutputFailsKeeps DEF BlockFails
<1>5. CASE OutputDone
    BY <1>5, OutputDoneKeeps
<1>6. CASE KeyDone
    BY <1>6, KeyDoneKeeps
<1>7. CASE Redraw
    <2>1. /\ Len(call.bytes) \in Nat /\ call.pc # "read"
          /\ given.from_key \/ given.offered
        BY <1>7, LenProperties DEF KdfInv, TypeOK, KeysAllowed, Redraw
    <2> QED
        BY <1>7, <2>1, OutputBeginKeeps DEF Redraw
<1>8. CASE UNCHANGED vars
    <2>1. TypeOK' /\ Unused(op)' /\ InputsAreOwned' /\ Accounts'
        BY <1>8 DEF vars, KdfInv, TypeOK, Unused, InputsAreOwned, Accounts,
                    Position, InRead
    <2>2. StateMatchesInputs' /\ KeysAllowed' /\ CallMatchesState'
        BY <1>8 DEF vars, KdfInv, StateMatchesInputs, Seen, KeysAllowed,
                    CallMatchesState
    <2> QED
        BY <2>1, <2>2 DEF KdfInv
<1> QED
    BY <1>1, <1>2, <1>3, <1>4, <1>5, <1>6, <1>7, <1>8 DEF Next

(* The invariant of all the theorems below.                                *)
LEMMA InvariantHolds == Spec => []KdfInv
BY InitHolds, StepKeeps, PTL DEF Spec

-----------------------------------------------------------------------------
(* The operation, the call under way and the histories have their types,   *)
(* whatever the lengths: in particular no capacity and no count of blocks  *)
(* to free goes below zero.                                                *)
THEOREM TypeCorrect == Spec => []TypeOK
<1>1. KdfInv => TypeOK
    BY DEF KdfInv
<1> QED
    BY <1>1, InvariantHolds, PTL

(* An operation never gives more bytes than the application left it.       *)
THEOREM StaysWithinAllowance == Spec => []WithinAllowance
<1>1. KdfInv => WithinAllowance
    <2> SUFFICES ASSUME KdfInv PROVE WithinAllowance
        OBVIOUS
    <2>1. /\ op.capacity \in Nat /\ call.want \in Nat /\ Len(out) \in Nat
          /\ Len(call.bytes) \in Nat
        BY LenProperties DEF KdfInv, TypeOK, Operation
    <2>2. InRead(call) \in Nat
        BY <2>1 DEF InRead
    <2> QED
        BY <2>1, <2>2 DEF KdfInv, Accounts, WithinAllowance
<1> QED
    BY <1>1, InvariantHolds, PTL

(* The comment in hkdf_read, that the capacity check keeps an output from  *)
(* wanting more after the last block, is right for every hash length.      *)
THEOREM LastBlockIsEnough == Spec => []LastBlockSuffices
<1>1. KdfInv => LastBlockSuffices
    <2> SUFFICES ASSUME KdfInv, AtBlockEnd,
                        op.block_number = LastBlockNumber(op.alg)
                 PROVE  FALSE
        BY DEF LastBlockSuffices
    <2>1. /\ op.capacity \in Nat /\ call.want \in Nat \ {0} /\ op.left = 0
          /\ op.state = "OUTPUT"
        BY DEF KdfInv, TypeOK, Operation, AtBlockEnd, CallMatchesState
    <2>2. Position(op) = MaxCapacity(op.alg)
        <3>1. LastBlock * HashLength \in Int
            BY KdfAssumption
        <3> QED
            BY <2>1, <3>1, KdfAssumption
               DEF Position, LastBlockNumber, MaxCapacity, BlocksOf
    <2>3. Len(out) \in Nat /\ InRead(call) \in Nat
        BY LenProperties DEF KdfInv, TypeOK, InRead
    <2> QED
        BY <2>1, <2>2, <2>3 DEF KdfInv, Accounts
<1> QED
    BY <1>1, InvariantHolds, PTL

(* Abort frees what was allocated, all of it and once.                     *)
THEOREM NoInputLeaks == Spec => []InputsAreOwned
<1>1. KdfInv => InputsAreOwned
    BY DEF KdfInv
<1> QED
    BY <1>1, InvariantHolds, PTL

(* No byte is given before the inputs that the algorithm needs.            *)
THEOREM InputsComeFirst == Spec => []OutputNeedsInputs
<1>1. KdfInv => OutputNeedsInputs
    <2> SUFFICES ASSUME KdfInv, out # <<>>,
                        NEW step \in Mandatory(op.alg)
                 PROVE  given.lengths[step] # -1
        BY DEF OutputNeedsInputs
    <2>1. Len(out) \in Nat /\ Len(out) # 0
        BY LenProperties, EmptySeq DEF KdfInv, TypeOK
    <2>2. InRead(call) \in Nat
        BY LenProperties DEF KdfInv, TypeOK, InRead
    <2>3. op.state = "OUTPUT"
        <3> SUFFICES ASSUME op.state # "OUTPUT" PROVE Position(op) = 0
            BY <2>1, <2>2 DEF KdfInv, Accounts
        <3> QED
            BY KdfAssumption DEF KdfInv, Unused, Position
    <2>4. op.alg \in Hkdfs \cup Tls12s
        BY <2>3, UsedInOutput DEF KdfInv, TypeOK, Operation
    <2> QED
        BY <2>3, <2>4
           DEF KdfInv, StateMatchesInputs, Seen, Mandatory, Hkdfs, Tls12s
<1> QED
    BY <1>1, InvariantHolds, PTL

(* A key that was made of bytes shows that a key was passed before the     *)
(* setup, and that the application went on after its refusal: nothing else *)
(* leaves can_output_key behind.                                           *)
THEOREM KeysAreMadeWithKeys == Spec => []KeysNeedKeys
<1>1. KdfInv => KeysNeedKeys
    BY DEF KdfInv, KeysAllowed, KeysNeedKeys
<1> QED
    BY <1>1, InvariantHolds, PTL

(* Nothing comes out of an operation whose output has failed.              *)
THEOREM FailureIsFinal == Spec => []NothingAfterFailure
<1>1. KdfInv => NothingAfterFailure
    <2> SUFFICES ASSUME KdfInv, failed PROVE out = <<>>
        BY DEF NothingAfterFailure
    <2>1. /\ op.capacity \in Nat /\ call.want \in Nat /\ Len(out) \in Nat
          /\ InRead(call) \in Nat /\ out \in Seq(Byte)
        BY LenProperties DEF KdfInv, TypeOK, Operation, InRead
    <2>2. Len(out) = 0
        BY <2>1 DEF KdfInv, Accounts
    <2> QED
        BY <2>1, <2>2, EmptySeq
<1> QED
    BY <1>1, InvariantHolds, PTL

-----------------------------------------------------------------------------
(* The stream.                                                             *)

StreamByte(i) ==
    [block |-> StreamBlock(((i - 1) \div HashLength) + 1),
     offset |-> ((i - 1) % HashLength) + 1]

(* The operation holds the inputs that were accepted.                      *)
FieldsAreGiven ==
    /\ op.salt = GivenValue("SALT")
    /\ op.info = GivenValue("INFO")
    /\ op.seed = GivenValue("SEED")
    /\ op.label = GivenValue("LABEL")
    /\ op.other_secret = GivenValue("OTHER_SECRET")
    /\ op.state \in {"INIT", "SEED_SET"} => given.lengths["OTHER_SECRET"] = -1
    /\ op.state = "OTHER_KEY_SET" => given.lengths["OTHER_SECRET"] # -1
    /\ op.state \in Late => op.key = StreamKey
    /\ op.alg = NoAlg => given.lengths = NothingGiven.lengths

(* The block in hand is the one of its number; that of HKDF-Extract is     *)
(* there as soon as the key is.                                            *)
BlockIsStreams ==
    IF op.alg = "HKDF_EXTRACT"
    THEN op.state \in {"KEYED", "OUTPUT"} => op.block = StreamBlock(1)
    ELSE op.block_number # 0 => op.block = StreamBlock(op.block_number)

BytesAreStreams ==
    /\ \A i \in 1 .. Len(out) : out[i] = StreamByte(i)
    /\ call.pc = "read" =>
            \A i \in 1 .. Len(call.bytes) :
                call.bytes[i] = StreamByte(Len(out) + i)

StreamInv == FieldsAreGiven /\ BlockIsStreams /\ BytesAreStreams

-----------------------------------------------------------------------------
LEMMA DivisionIsUnique ==
    ASSUME NEW h \in Nat \ {0}, NEW b \in Nat, NEW r \in 0 .. h - 1
    PROVE  (b * h + r) \div h = b /\ (b * h + r) % h = r
<1> DEFINE x == b * h + r
           q == x \div h
           s == x % h
<1>1. x \in Nat
    OBVIOUS
<1>2. q \in Int /\ s \in 0 .. h - 1 /\ x = h * q + s
    BY <1>1
<1> HIDE DEF q, s
<1>3. h * (q - b) = r - s
    BY <1>2
<1>4. q - b < 1
    <2> SUFFICES ASSUME q - b >= 1 PROVE FALSE
        BY <1>2
    <2>1. h * (q - b) >= h
        BY <1>2
    <2> QED
        BY <1>2, <1>3, <2>1
<1>5. b - q < 1
    <2> SUFFICES ASSUME b - q >= 1 PROVE FALSE
        BY <1>2
    <2>1. h * (b - q) >= h /\ h * (b - q) = s - r
        BY <1>2
    <2> QED
        BY <1>2, <2>1
<1>6. q = b
    BY <1>2, <1>4, <1>5
<1>7. s = r
    BY <1>2, <1>3, <1>6
<1> QED
    BY <1>6, <1>7 DEF q, s

(* The stream is a function of the algorithm and the inputs.               *)
LEMMA SameStream ==
    ASSUME op'.alg = op.alg, given' = given
    PROVE  /\ StreamKey' = StreamKey
           /\ \A step : GivenValue(step)' = GivenValue(step)
           /\ \A n : StreamBlock(n)' = StreamBlock(n)
           /\ \A i : StreamByte(i)' = StreamByte(i)
<1>1. \A step : GivenValue(step)' = GivenValue(step)
    BY DEF GivenValue
<1>2. StreamKey' = StreamKey
    BY <1>1 DEF StreamKey
<1>3. \A n : StreamBlock(n)' = StreamBlock(n)
    BY <1>1, <1>2 DEF StreamBlock
<1> QED
    BY <1>1, <1>2, <1>3 DEF StreamByte

LEMMA NothingGivenIsEmpty ==
    ASSUME given.lengths = NothingGiven.lengths
    PROVE  /\ \A step \in Steps : GivenValue(step) = <<>>
           /\ given.lengths["OTHER_SECRET"] = -1
BY DEF NothingGiven, GivenValue, Steps

(* A blank operation has given nothing.                                    *)
LEMMA BlankStreams ==
    ASSUME NEW alg, NEW a, NEW c, NEW k, op = Prepared(alg, a, c, k), call = Idle,
           given.lengths = NothingGiven.lengths, out = <<>>
    PROVE  StreamInv
<1>1. /\ op.alg = alg /\ op.state = "INIT" /\ op.block_number = 0
      /\ op.salt = <<>> /\ op.info = <<>> /\ op.seed = <<>> /\ op.label = <<>>
      /\ op.other_secret = <<>>
    BY DEF Prepared, Blank
<1>2. FieldsAreGiven
    BY <1>1, NothingGivenIsEmpty DEF FieldsAreGiven, Steps, Late
<1>3. BlockIsStreams
    BY <1>1 DEF BlockIsStreams
<1>4. BytesAreStreams
    BY DEF BytesAreStreams, Idle
<1> QED
    BY <1>2, <1>3, <1>4 DEF StreamInv

LEMMA BlankStreamsNext ==
    ASSUME NEW alg, NEW a, NEW c, NEW k, op' = Prepared(alg, a, c, k), call' = Idle,
           given'.lengths = NothingGiven.lengths, out' = <<>>
    PROVE  StreamInv'
<1>1. /\ op'.alg = alg /\ op'.state = "INIT" /\ op'.block_number = 0
      /\ op'.salt = <<>> /\ op'.info = <<>> /\ op'.seed = <<>>
      /\ op'.label = <<>> /\ op'.other_secret = <<>>
    BY DEF Prepared, Blank
<1>2. /\ \A step \in Steps : GivenValue(step)' = <<>>
      /\ given'.lengths["OTHER_SECRET"] = -1
    BY DEF NothingGiven, GivenValue, Steps
<1>3. FieldsAreGiven'
    BY <1>1, <1>2 DEF FieldsAreGiven, Steps, Late
<1>4. BlockIsStreams'
    BY <1>1 DEF BlockIsStreams
<1>5. BytesAreStreams'
    BY DEF BytesAreStreams, Idle
<1> QED
    BY <1>3, <1>4, <1>5 DEF StreamInv

-----------------------------------------------------------------------------
(* What an accepted input changes.                                         *)
KeyAfter(o, n) ==
    CASE o.alg \in {"HKDF", "HKDF_EXTRACT"} -> <<o.salt, Value("SECRET", n)>>
      [] o.alg = "TLS12_PSK_TO_MS" ->
            <<IF o.state = "OTHER_KEY_SET" THEN o.other_secret
                                           ELSE Value("zeros", n),
              Value("SECRET", n)>>
      [] OTHER -> Value("SECRET", n)

Fields(o, p, step, n) ==
    /\ p.salt = IF step = "SALT" THEN Value("SALT", n) ELSE o.salt
    /\ p.info = IF step = "INFO" THEN Value("INFO", n) ELSE o.info
    /\ p.seed = IF step = "SEED" THEN Value("SEED", n) ELSE o.seed
    /\ p.label = IF step = "LABEL" THEN Value("LABEL", n) ELSE o.label
    /\ p.other_secret = IF step = "OTHER_SECRET" THEN Value("OTHER_SECRET", n)
                                                 ELSE o.other_secret
    /\ p.key = IF step = "SECRET" THEN KeyAfter(o, n) ELSE o.key
    /\ step = "SECRET" /\ o.alg = "HKDF_EXTRACT"
            => p.block = [NoBlock EXCEPT !.key = p.key]
    /\ p.alg = "HKDF_EXTRACT" /\ p.state = "KEYED" => step = "SECRET"
    /\ p.state \in Late => step = "SECRET" \/ o.state \in Late
    /\ step \in {"SALT", "OTHER_SECRET"} => p.state \notin Late
    /\ p.state \in {"INIT", "SEED_SET"} =>
            step # "OTHER_SECRET" /\ o.state \in {"INIT", "SEED_SET"}
    /\ p.state = "OTHER_KEY_SET" =>
            step = "OTHER_SECRET" \/ o.state = "OTHER_KEY_SET"
    /\ step = "SECRET" /\ o.alg = "TLS12_PSK_TO_MS" =>
            o.state \in {"SEED_SET", "OTHER_KEY_SET"}

LEMMA AcceptedFields ==
    ASSUME NEW o \in Operation, NEW step \in Steps, NEW n \in Nat,
           NEW p \in Accepted(o, step, n)
    PROVE  Fields(o, p, step, n)
<1> USE DEF Hkdfs, Tls12s
<1>1. \/ o.alg \in Hkdfs /\ step \in {"SALT", "SECRET", "INFO"}
      \/ o.alg \in Tls12s /\ step \in {"SEED", "OTHER_SECRET", "LABEL", "SECRET"}
    BY DEF Accepted, Steps
<1>2. CASE o.alg \in Hkdfs /\ step = "SALT"
    <2>1. /\ o.state = "INIT"
          /\ p = [o EXCEPT !.salt = Value("SALT", n), !.state = "STARTED"]
        BY <1>2, InWhen DEF Accepted, HkdfSalt
    <2> QED
        BY <1>2, <2>1 DEF Fields, Operation, Late
<1>3. CASE o.alg \in Hkdfs /\ step = "SECRET"
    <2> DEFINE secret == Value("SECRET", n)
               prk == IF o.alg = "HKDF_EXPAND" THEN secret ELSE <<o.salt, secret>>
               left == IF o.alg = "HKDF_EXTRACT" THEN HashLength ELSE 0
               block == IF o.alg = "HKDF_EXTRACT" THEN [NoBlock EXCEPT !.key = prk]
                        ELSE o.block
    <2>1. /\ o.state \in {"INIT", "STARTED"}
          /\ p = [o EXCEPT !.key = prk, !.state = "KEYED", !.block_number = 0,
                           !.left = left, !.block = block]
        BY <1>3, InWhen DEF Accepted, HkdfSecret
    <2>2. prk = KeyAfter(o, n)
        BY <1>3 DEF KeyAfter
    <2> HIDE DEF prk, left
    <2>3. p.block = block /\ p.key = prk
        <3> HIDE DEF block
        <3> QED
            BY <2>1 DEF Operation
    <2>4. /\ p.salt = o.salt /\ p.info = o.info /\ p.seed = o.seed
          /\ p.label = o.label /\ p.other_secret = o.other_secret
          /\ p.state = "KEYED" /\ p.alg = o.alg
        <3> HIDE DEF block
        <3> QED
            BY <2>1 DEF Operation
    <2> QED
        BY <1>3, <2>1, <2>2, <2>3, <2>4 DEF Fields, Late
<1>4. CASE o.alg \in Hkdfs /\ step = "INFO"
    <2>1. /\ o.alg # "HKDF_EXTRACT"
          /\ p = [o EXCEPT !.info = Value("INFO", n), !.info_set = TRUE]
        <3>1. p \in HkdfInfo(o, n)
            BY <1>4 DEF Accepted
        <3> QED
            BY <3>1, InWhen DEF HkdfInfo, Operation
    <2> QED
        BY <1>4, <2>1 DEF Fields, Operation
<1>5. CASE o.alg \in Tls12s /\ step = "SEED"
    <2>1. /\ o.state = "INIT"
          /\ p = [o EXCEPT !.seed = Value("SEED", n), !.state = "SEED_SET"]
        BY <1>5, InWhen DEF Accepted, Tls12Seed
    <2> QED
        BY <1>5, <2>1 DEF Fields, Operation, Late
<1>6. CASE o.alg \in Tls12s /\ step = "OTHER_SECRET"
    <2>1. /\ o.state = "SEED_SET"
          /\ p = [o EXCEPT !.other_secret = Value("OTHER_SECRET", n),
                           !.state = "OTHER_KEY_SET"]
        BY <1>6, InWhen DEF Accepted, Tls12OtherSecret
    <2> QED
        BY <1>6, <2>1 DEF Fields, Operation, Late
<1>7. CASE o.alg \in Tls12s /\ step = "LABEL"
    <2>1. /\ o.state = "KEY_SET"
          /\ p = [o EXCEPT !.label = Value("LABEL", n), !.state = "LABEL_SET"]
        BY <1>7, InWhen DEF Accepted, Tls12Label
    <2> QED
        BY <1>7, <2>1 DEF Fields, Operation, Late
<1>8. CASE o.alg \in Tls12s /\ step = "SECRET"
    <2> DEFINE acc == /\ o.state \in {"SEED_SET", "OTHER_KEY_SET"}
                      /\ o.alg = "TLS12_PSK_TO_MS" => n <= PskMaxSize
               key == KeyAfter(o, n)
    <2>1. p \in When(acc, [o EXCEPT !.key = key, !.state = "KEY_SET"])
        BY <1>8 DEF Accepted, Tls12Secret, KeyAfter
    <2>2. acc \in BOOLEAN
        OBVIOUS
    <2>3. acc /\ p = [o EXCEPT !.key = key, !.state = "KEY_SET"]
        <3> HIDE DEF acc, key
        <3> QED
            BY <2>1, <2>2, InWhen
    <2>4. o.state \in {"SEED_SET", "OTHER_KEY_SET"}
        BY <2>3
    <2> QED
        BY <1>8, <2>3, <2>4 DEF Fields, Operation, Late
<1> QED
    BY <1>1, <1>2, <1>3, <1>4, <1>5, <1>6, <1>7, <1>8

LEMMA InputStreams ==
    ASSUME KdfInv, StreamInv, call.pc = "idle", NEW step \in Steps,
           NEW n \in Lengths, NEW is_key \in BOOLEAN,
           NEW p \in Accepted(op, step, n),
           op' = [p EXCEPT !.can_output_key = @ \/ Unlocks(step, is_key)],
           given' = [given EXCEPT !.lengths[step] = n,
                                  !.from_key = IF step = "SECRET" THEN is_key
                                                                  ELSE @],
           UNCHANGED <<call, out>>
    PROVE  StreamInv'
<1>1. op \in Operation /\ Unused(op) /\ n \in Nat
    BY KdfAssumption DEF KdfInv, TypeOK
<1>2. /\ p \in Operation /\ Unused(p) /\ Progress(op, p, step)
      /\ Fields(op, p, step, n)
    BY <1>1, AcceptedInputs, AcceptedFields
<1>3. \A f \in {"alg", "state", "salt", "info", "seed", "label", "other_secret",
                "key", "block", "block_number"} : op'[f] = p[f]
    BY <1>2 DEF Operation
<1>4. /\ given'.lengths[step] = n
      /\ \A s \in Steps \ {step} : given'.lengths[s] = given.lengths[s]
      /\ given'.lengths[step] # -1
    BY <1>1 DEF KdfInv, TypeOK
<1>5. \A s \in Steps :
            GivenValue(s)' = IF s = step THEN Value(step, n) ELSE GivenValue(s)
    BY <1>4 DEF GivenValue
<1>6. op.alg # NoAlg /\ op'.alg = op.alg
    BY <1>2, <1>3 DEF Accepted, NoAlg, Hkdfs, Tls12s, Progress
<1>7. op'.state \in Late => op'.key = StreamKey'
    <2> SUFFICES ASSUME op'.state \in Late PROVE op'.key = StreamKey'
        OBVIOUS
    <2>1. CASE step = "SECRET"
        <3>1. /\ op'.key = KeyAfter(op, n)
              /\ GivenValue("SALT")' = op.salt
              /\ GivenValue("SECRET")' = Value("SECRET", n)
              /\ GivenValue("OTHER_SECRET")' = op.other_secret
              /\ given'.lengths["SECRET"] = n
              /\ op.alg = "TLS12_PSK_TO_MS" =>
                    (given'.lengths["OTHER_SECRET"] = -1
                        <=> op.state # "OTHER_KEY_SET")
            BY <1>2, <1>3, <1>4, <1>5, <2>1
               DEF StreamInv, FieldsAreGiven, Fields, Steps
        <3> QED
            BY <1>6, <3>1 DEF StreamKey, KeyAfter
    <2>2. CASE step # "SECRET"
        <3>1. /\ op.state \in Late /\ op'.key = op.key /\ op.key = StreamKey
              /\ step \notin {"SALT", "OTHER_SECRET"}
            BY <1>2, <1>3, <2>2 DEF StreamInv, FieldsAreGiven, Fields
        <3>2. \A s \in {"SALT", "OTHER_SECRET", "SECRET"} :
                    /\ GivenValue(s)' = GivenValue(s)
                    /\ given'.lengths[s] = given.lengths[s]
            BY <1>4, <1>5, <2>2, <3>1 DEF Steps
        <3> QED
            BY <1>6, <3>1, <3>2 DEF StreamKey
    <2> QED
        BY <2>1, <2>2
<1>8. FieldsAreGiven'
    <2>1. /\ op'.salt = GivenValue("SALT")' /\ op'.info = GivenValue("INFO")'
          /\ op'.seed = GivenValue("SEED")' /\ op'.label = GivenValue("LABEL")'
          /\ op'.other_secret = GivenValue("OTHER_SECRET")'
        BY <1>2, <1>3, <1>5 DEF StreamInv, FieldsAreGiven, Fields, Steps
    <2>2. /\ op'.state \in {"INIT", "SEED_SET"}
                => given'.lengths["OTHER_SECRET"] = -1
          /\ op'.state = "OTHER_KEY_SET" => given'.lengths["OTHER_SECRET"] # -1
        BY <1>2, <1>3, <1>4 DEF StreamInv, FieldsAreGiven, Fields, Steps
    <2> QED
        BY <1>6, <1>7, <2>1, <2>2 DEF FieldsAreGiven
<1>9. BlockIsStreams'
    <2>1. op'.block_number = 0 /\ op'.state # "OUTPUT"
        BY <1>2, <1>3 DEF Unused, Progress
    <2>2. ASSUME op.alg = "HKDF_EXTRACT", op'.state = "KEYED"
          PROVE  op'.block = StreamBlock(1)'
        <3>1. op'.block = [NoBlock EXCEPT !.key = op'.key]
            BY <1>2, <1>3, <1>6, <2>2 DEF Fields
        <3>2. op'.key = StreamKey'
            BY <1>7, <2>2 DEF Late
        <3> QED
            BY <1>6, <2>2, <3>1, <3>2 DEF StreamBlock
    <2> QED
        BY <1>6, <2>1, <2>2 DEF BlockIsStreams
<1>10. BytesAreStreams'
    <2>1. Position(op) = 0
        BY <1>1, <1>2, KdfAssumption DEF Position, Unused, Progress
    <2>2. InRead(call) = 0 /\ Len(out) \in Nat
        BY LenProperties DEF InRead, KdfInv, TypeOK
    <2>3. Len(out) = 0
        BY <2>1, <2>2 DEF KdfInv, Accounts
    <2> QED
        BY <2>3 DEF BytesAreStreams
<1> QED
    BY <1>8, <1>9, <1>10 DEF StreamInv

-----------------------------------------------------------------------------
(* The output leaves the algorithm, the inputs and the fields alone.       *)
LEMMA SameFields ==
    ASSUME StreamInv, given' = given,
           \A f \in {"alg", "salt", "info", "seed", "label", "other_secret",
                     "key"} : op'[f] = op[f],
           op'.state # op.state => op'.state = "OUTPUT" /\ op.state \in Late
    PROVE  FieldsAreGiven'
<1>1. op'.alg = op.alg
    OBVIOUS
<1>2. /\ StreamKey' = StreamKey
      /\ \A step : GivenValue(step)' = GivenValue(step)
    BY <1>1, SameStream
<1>3. op'.state \in Late => op.state \in Late
    BY DEF Late
<1>4. op'.state \in {"INIT", "SEED_SET", "OTHER_KEY_SET"} => op'.state = op.state
    OBVIOUS
<1> QED
    BY <1>2, <1>3, <1>4 DEF StreamInv, FieldsAreGiven

LEMMA BeginStreams ==
    ASSUME KdfInv, StreamInv, Readable(op), NEW n, NEW for_key,
           op' = [op EXCEPT !.capacity = @ - n, !.state = "OUTPUT"],
           call' = [pc |-> "read", want |-> n, for_key |-> for_key,
                    bytes |-> <<>>],
           UNCHANGED <<given, out>>
    PROVE  StreamInv'
<1>1. op \in Operation
    BY DEF KdfInv, TypeOK
<1>2. /\ op'.state = "OUTPUT"
      /\ \A f \in {"alg", "salt", "info", "seed", "label", "other_secret", "key",
                    "block", "block_number"} : op'[f] = op[f]
    <2> DEFINE rest == op.capacity - n
    <2>1. op' = [op EXCEPT !.capacity = rest, !.state = "OUTPUT"]
        OBVIOUS
    <2> HIDE DEF rest
    <2> QED
        BY <1>1, <2>1 DEF Operation
<1>3. /\ op.state \in Late
      /\ op.alg = "HKDF_EXTRACT" => op.state \in {"KEYED", "OUTPUT"}
    BY DEF Readable, Late, Hkdfs
<1>4. /\ \A m : StreamBlock(m)' = StreamBlock(m)
      /\ \A i : StreamByte(i)' = StreamByte(i)
    BY <1>2, SameStream
<1>5. FieldsAreGiven'
    BY <1>2, <1>3, SameFields
<1>6. BlockIsStreams'
    BY <1>2, <1>3, <1>4 DEF StreamInv, BlockIsStreams
<1>7. BytesAreStreams'
    BY <1>4 DEF StreamInv, BytesAreStreams
<1> QED
    BY <1>5, <1>6, <1>7 DEF StreamInv

LEMMA ByteOfBlock ==
    ASSUME NEW i \in Int, NEW number \in Nat, NEW r \in 0 .. HashLength - 1,
           i - 1 = number * HashLength + r
    PROVE  StreamByte(i) = [block |-> StreamBlock(number + 1), offset |-> r + 1]
<1>1. /\ (number * HashLength + r) \div HashLength = number
      /\ (number * HashLength + r) % HashLength = r
    BY DivisionIsUnique, KdfAssumption
<1>2. (i - 1) \div HashLength = number /\ (i - 1) % HashLength = r
    BY <1>1
<1> QED
    BY <1>2 DEF StreamByte

(* Where the next byte of the block in hand stands in the stream.          *)
LEMMA PlaceInStream ==
    ASSUME KdfInv, StreamInv, call.pc = "read", op.left # 0,
           NEW j \in 1 .. op.left
    PROVE  StreamByte(Position(op) + j)
                = [block |-> op.block, offset |-> HashLength - op.left + j]
<1>1. /\ op \in Operation /\ op.state = "OUTPUT"
      /\ op.left \in 1 .. HashLength /\ op.block_number \in Nat
    BY DEF KdfInv, TypeOK, Operation, CallMatchesState
<1> DEFINE r == HashLength - op.left + j - 1
           i == Position(op) + j
<1>2. r \in 0 .. HashLength - 1
    BY <1>1, KdfAssumption
<1>3. HashLength \in Nat \ {0}
    BY KdfAssumption
<1>4. CASE op.alg = "HKDF_EXTRACT"
    <2>1. i - 1 = 0 * HashLength + r
        BY <1>1, <1>3, <1>4 DEF Position
    <2>2. op.block = StreamBlock(0 + 1)
        BY <1>1, <1>4 DEF StreamInv, BlockIsStreams
    <2>3. r + 1 = HashLength - op.left + j
        BY <1>1, <1>3
    <2>4. i \in Int /\ 0 \in Nat
        BY <1>1, PositionIsInt
    <2> HIDE DEF r, i
    <2>5. StreamByte(i) = [block |-> StreamBlock(0 + 1), offset |-> r + 1]
        BY <1>2, <2>1, <2>4, ByteOfBlock
    <2> QED
        BY <2>2, <2>3, <2>5 DEF i
<1>5. CASE op.alg # "HKDF_EXTRACT"
    <2> DEFINE b == op.block_number - 1
    <2>1. op.block_number # 0
        <3> SUFFICES ASSUME op.block_number = 0 PROVE FALSE
            OBVIOUS
        <3>1. Position(op) = 0 - op.left
            BY <1>1, <1>3, <1>5 DEF Position
        <3>2. Len(out) \in Nat /\ InRead(call) \in Nat
            BY LenProperties DEF KdfInv, TypeOK, InRead
        <3> QED
            BY <1>1, <3>1, <3>2 DEF KdfInv, Accounts
    <2>2. b \in Nat
        BY <1>1, <2>1
    <2>3. i - 1 = b * HashLength + r
        <3>1. op.block_number * HashLength = b * HashLength + HashLength
            BY <1>1, <1>3
        <3>2. b * HashLength \in Int
            BY <1>3, <2>2
        <3>3. Position(op) = op.block_number * HashLength - op.left
            BY <1>5 DEF Position
        <3> HIDE DEF b
        <3> QED
            BY <1>1, <1>3, <3>1, <3>2, <3>3
    <2>4. op.block = StreamBlock(b + 1)
        BY <1>1, <1>5, <2>1 DEF StreamInv, BlockIsStreams
    <2>5. r + 1 = HashLength - op.left + j
        BY <1>1, <1>3
    <2>6. i \in Int
        BY <1>1, PositionIsInt
    <2> HIDE DEF r, b, i
    <2>7. StreamByte(i) = [block |-> StreamBlock(b + 1), offset |-> r + 1]
        BY <1>2, <2>2, <2>3, <2>6, ByteOfBlock
    <2> QED
        BY <2>4, <2>5, <2>7 DEF i
<1> QED
    BY <1>4, <1>5

LEMMA CopyStreams ==
    ASSUME KdfInv, StreamInv, CopyBytes PROVE StreamInv'
<1> DEFINE n == Lesser(op.left, call.want)
           piece == [i \in 1 .. n |->
                        [block |-> op.block, offset |-> HashLength - op.left + i]]
<1>1. /\ op \in Operation /\ op.left \in 1 .. HashLength /\ call.pc = "read"
      /\ call.want \in Nat /\ call.bytes \in Seq(Byte) /\ Len(out) \in Nat
      /\ Len(call.bytes) \in Nat
    BY LenProperties DEF KdfInv, TypeOK, Operation, CopyBytes
<1>2. n \in Nat /\ n <= op.left
    BY <1>1 DEF Lesser
<1>3. /\ op' = [op EXCEPT !.left = op.left - n]
      /\ call' = [call EXCEPT !.want = @ - n, !.bytes = @ \o piece]
      /\ UNCHANGED <<given, out>>
    BY DEF CopyBytes
<1> HIDE DEF n
<1>4. \A f \in {"alg", "state", "salt", "info", "seed", "label", "other_secret",
                "key", "block", "block_number"} : op'[f] = op[f]
    BY <1>1, <1>3 DEF Operation
<1>5. /\ \A m : StreamBlock(m)' = StreamBlock(m)
      /\ \A i : StreamByte(i)' = StreamByte(i)
    BY <1>3, <1>4, SameStream
<1>6. FieldsAreGiven'
    <2>1. /\ op'.state = op.state /\ given' = given
          /\ \A f \in {"alg", "salt", "info", "seed", "label", "other_secret",
                        "key"} : op'[f] = op[f]
        BY <1>3, <1>4
    <2> QED
        BY <2>1, SameFields
<1>7. BlockIsStreams'
    BY <1>4, <1>5 DEF StreamInv, BlockIsStreams
<1>8. piece \in Seq(Byte) /\ Len(piece) = n
    <2>1. \A i \in 1 .. n :
            [block |-> op.block, offset |-> HashLength - op.left + i] \in Byte
        BY <1>1, <1>2, KdfAssumption DEF Operation, Byte
    <2> QED
        BY <1>2, <2>1
<1>9. \A i \in 1 .. n : piece[i] = StreamByte(Position(op) + i)
    BY <1>1, <1>2, PlaceInStream
<1> HIDE DEF piece
<1>10. call'.bytes = call.bytes \o piece
    BY <1>3 DEF KdfInv, TypeOK
<1>11. Position(op) = Len(out) + Len(call.bytes)
    BY <1>1 DEF KdfInv, Accounts, InRead
<1>12. ASSUME NEW i \in 1 .. Len(call'.bytes)
       PROVE  call'.bytes[i] = StreamByte(Len(out) + i)
    <2>1. Len(call.bytes \o piece) = Len(call.bytes) + n
        BY <1>1, <1>8, ConcatProperties
    <2>2. i \in Nat /\ i <= Len(call.bytes) + n /\ i >= 1
        BY <1>1, <1>2, <1>10, <2>1
    <2>3. CASE i <= Len(call.bytes)
        <3>1. (call.bytes \o piece)[i] = call.bytes[i]
            BY <1>1, <1>8, <2>2, <2>3, ConcatProperties
        <3> QED
            BY <1>1, <1>10, <2>2, <2>3, <3>1 DEF StreamInv, BytesAreStreams
    <2>4. CASE i > Len(call.bytes)
        <3> DEFINE k == i - Len(call.bytes)
        <3>1. k \in 1 .. n /\ Len(out) + Len(call.bytes) + k = Len(out) + i
            <4> DEFINE g == Len(out)
                       l == Len(call.bytes)
            <4>1. g \in Nat /\ l \in Nat /\ i <= l + n /\ i > l /\ i \in Nat
                BY <1>1, <2>2, <2>4
            <4> HIDE DEF g, l
            <4>2. i - l \in 1 .. n /\ g + l + (i - l) = g + i
                BY <1>2, <4>1
            <4> QED
                BY <4>2 DEF g, l
        <3>2. (call.bytes \o piece)[i] = piece[k]
            BY <1>1, <1>8, <2>1, <2>2, <2>4, ConcatProperties
        <3> HIDE DEF k
        <3>3. piece[k] = StreamByte(Len(out) + i)
            BY <1>9, <1>11, <3>1
        <3> QED
            BY <1>10, <3>2, <3>3
    <2> QED
        BY <1>1, <2>2, <2>3, <2>4
<1>13. BytesAreStreams'
    BY <1>3, <1>5, <1>12 DEF StreamInv, BytesAreStreams
<1> QED
    BY <1>6, <1>7, <1>13 DEF StreamInv

LEMMA NextStreams ==
    ASSUME KdfInv, StreamInv, NextBlock PROVE StreamInv'
<1> DEFINE number == op.block_number + 1
           chain == IF number = 1 THEN <<1>> ELSE Append(op.block.chain, number)
           block == [key |-> op.key, text |-> Text(op), chain |-> chain]
<1>1. /\ op \in Operation /\ op.state = "OUTPUT"
      /\ op.block_number \in Nat
      /\ op.block_number # LastBlockNumber(op.alg)
      /\ UNCHANGED <<call, given, out>>
    BY DEF KdfInv, TypeOK, Operation, CallMatchesState, NextBlock, AtBlockEnd
<1>2. op.alg # "HKDF_EXTRACT" /\ op.alg \in Hkdfs \cup Tls12s
    BY <1>1, UsedInOutput DEF KdfInv, TypeOK, Operation, Unused, LastBlockNumber
<1>3. op' = [op EXCEPT !.left = HashLength, !.block_number = number,
                       !.block = block]
    BY DEF NextBlock
<1>4. chain = [i \in 1 .. number |-> i]
    <2>1. CASE number = 1
        BY <2>1
    <2>2. CASE number # 1
        <3>1. op.block_number \in Nat \ {0}
            BY <1>1, <2>2
        <3>2. op.block.chain = [i \in 1 .. op.block_number |-> i]
            <4>1. op.block = StreamBlock(op.block_number)
                BY <1>2, <3>1 DEF StreamInv, BlockIsStreams
            <4>2. CASE op.alg \in {"HKDF", "HKDF_EXPAND"}
                <5>1. StreamBlock(op.block_number)
                        = [key |-> StreamKey, text |-> GivenValue("INFO"),
                           chain |-> [i \in 1 .. op.block_number |-> i]]
                    BY <1>2, <4>2 DEF StreamBlock
                <5> QED
                    BY <4>1, <5>1
            <4>3. CASE op.alg \notin {"HKDF", "HKDF_EXPAND"}
                BY <1>2, <4>1, <4>3 DEF StreamBlock
            <4> QED
                BY <4>2, <4>3
        <3>3. Append([i \in 1 .. op.block_number |-> i], number)
                = [i \in 1 .. number |-> i]
            BY <3>1
        <3> QED
            BY <2>2, <3>2, <3>3
    <2> QED
        BY <2>1, <2>2
<1>5. Text(op) = IF op.alg \in Hkdfs THEN GivenValue("INFO")
                 ELSE GivenValue("LABEL") \o GivenValue("SEED")
    BY DEF StreamInv, FieldsAreGiven, Text
<1>6. op.key = StreamKey
    BY <1>1 DEF StreamInv, FieldsAreGiven, Late
<1> HIDE DEF chain
<1>7. block = StreamBlock(number)
    BY <1>2, <1>4, <1>5, <1>6 DEF StreamBlock, Hkdfs, Tls12s
<1> HIDE DEF block, number
<1>8. /\ \A f \in {"alg", "state", "salt", "info", "seed", "label",
                    "other_secret", "key"} : op'[f] = op[f]
      /\ op'.block = block /\ op'.block_number = number
    BY <1>1, <1>3 DEF Operation
<1>9. /\ \A m : StreamBlock(m)' = StreamBlock(m)
      /\ \A i : StreamByte(i)' = StreamByte(i)
    BY <1>1, <1>8, SameStream
<1>10. FieldsAreGiven'
    <2>1. /\ op'.state = op.state /\ given' = given
          /\ \A f \in {"alg", "salt", "info", "seed", "label", "other_secret",
                        "key"} : op'[f] = op[f]
        BY <1>1, <1>8
    <2> QED
        BY <2>1, SameFields
<1>11. BlockIsStreams'
    BY <1>2, <1>7, <1>8, <1>9 DEF BlockIsStreams
<1>12. BytesAreStreams'
    BY <1>1, <1>9 DEF StreamInv, BytesAreStreams
<1> QED
    BY <1>10, <1>11, <1>12 DEF StreamInv

LEMMA DoneStreams ==
    ASSUME KdfInv, StreamInv, OutputDone PROVE StreamInv'
<1>1. /\ out \in Seq(Byte) /\ call.bytes \in Seq(Byte) /\ call.pc = "read"
      /\ Len(out) \in Nat /\ Len(call.bytes) \in Nat
    BY LenProperties DEF KdfInv, TypeOK, OutputDone
<1>2. /\ UNCHANGED <<op, given>> /\ out' = out \o call.bytes
      /\ call'.pc # "read"
    BY DEF KdfInv, TypeOK, OutputDone, Idle
<1>3. /\ \A m : StreamBlock(m)' = StreamBlock(m)
      /\ \A i : StreamByte(i)' = StreamByte(i)
    BY <1>2, SameStream
<1>4. FieldsAreGiven' /\ BlockIsStreams'
    <2>1. /\ op'.state = op.state /\ given' = given
          /\ \A f \in {"alg", "salt", "info", "seed", "label", "other_secret",
                        "key"} : op'[f] = op[f]
        BY <1>2
    <2> QED
        BY <1>2, <1>3, <2>1, SameFields DEF StreamInv, BlockIsStreams
<1>5. ASSUME NEW i \in 1 .. Len(out \o call.bytes)
      PROVE  (out \o call.bytes)[i] = StreamByte(i)
    <2>1. Len(out \o call.bytes) = Len(out) + Len(call.bytes)
        BY <1>1, ConcatProperties
    <2>2. CASE i <= Len(out)
        <3>1. (out \o call.bytes)[i] = out[i] /\ i \in 1 .. Len(out)
            BY <1>1, <2>1, <2>2, ConcatProperties
        <3> QED
            BY <3>1 DEF StreamInv, BytesAreStreams
    <2>3. CASE i > Len(out)
        <3> DEFINE g == Len(out)
                   k == i - g
        <3>1. g \in Nat /\ i \in 1 .. g + Len(call.bytes) /\ i > g
            BY <1>1, <2>1, <2>3
        <3>2. (out \o call.bytes)[i] = call.bytes[k]
            BY <1>1, <2>1, <2>3, ConcatProperties
        <3> HIDE DEF g
        <3>3. k \in 1 .. Len(call.bytes) /\ g + k = i
            BY <1>1, <3>1
        <3> HIDE DEF k
        <3>4. call.bytes[k] = StreamByte(g + k)
            BY <1>1, <3>3 DEF StreamInv, BytesAreStreams, g
        <3> QED
            BY <3>2, <3>3, <3>4
    <2> QED
        BY <1>1, <2>1, <2>2, <2>3
<1>6. BytesAreStreams'
    BY <1>2, <1>3, <1>5 DEF BytesAreStreams
<1> QED
    BY <1>4, <1>6 DEF StreamInv

LEMMA QuietStreams ==
    ASSUME StreamInv, given' = given, out' = out, call'.pc # "read" \/ call' = call,
           \A f \in {"alg", "salt", "info", "seed", "label", "other_secret",
                     "key", "state", "block", "block_number"} : op'[f] = op[f]
    PROVE  StreamInv'
<1>1. /\ op'.state = op.state
      /\ \A f \in {"alg", "salt", "info", "seed", "label", "other_secret",
                    "key"} : op'[f] = op[f]
    OBVIOUS
<1>2. FieldsAreGiven'
    BY <1>1, SameFields
<1>3. /\ \A m : StreamBlock(m)' = StreamBlock(m)
      /\ \A i : StreamByte(i)' = StreamByte(i)
    BY <1>1, SameStream
<1> QED
    BY <1>2, <1>3 DEF StreamInv, BlockIsStreams, BytesAreStreams

LEMMA FailStreams ==
    ASSUME OutputFails PROVE StreamInv'
<1>1. /\ op' = Prepared(op.alg, op.agreement, 0, FALSE) /\ call' = Idle
      /\ given' = NothingGiven /\ out' = <<>>
    BY BlankIsPrepared DEF OutputFails
<1> QED
    BY <1>1, BlankStreamsNext

LEMMA OutputStreams ==
    ASSUME KdfInv, StreamInv, NEW n, NEW for_key, OutputBegin(n, for_key)
    PROVE  StreamInv'
<1>1. CASE OutputFails
    BY <1>1, FailStreams
<1>2. CASE /\ Readable(op)
           /\ op' = [op EXCEPT !.capacity = @ - n, !.state = "OUTPUT"]
           /\ call' = [pc |-> "read", want |-> n, for_key |-> for_key,
                       bytes |-> <<>>]
           /\ UNCHANGED <<held, given, out, allowed, failed, made>>
    BY <1>2, BeginStreams
<1> QED
    BY <1>1, <1>2 DEF OutputBegin

LEMMA AbortStreams ==
    ASSUME KdfInv, call.pc = "idle", Abort PROVE StreamInv'
<1>1. /\ op' = Prepared(NoAlg, FALSE, 0, FALSE) /\ call' = Idle
      /\ given' = NothingGiven /\ out' = <<>>
    BY BlankIsPrepared DEF KdfInv, CallMatchesState, Abort
<1> QED
    BY <1>1, BlankStreamsNext

LEMMA NothingOutBeforeSetup ==
    ASSUME KdfInv, call.pc = "idle", op.alg = NoAlg PROVE out = <<>>
<1>1. op.alg # "HKDF_EXTRACT" /\ op.block_number = 0 /\ op.left = 0
    BY DEF KdfInv, CallMatchesState, Prepared, Blank, NoAlg
<1>2. Position(op) = 0 /\ InRead(call) = 0
    BY <1>1, KdfAssumption DEF Position, InRead
<1>3. Len(out) = 0 /\ out \in Seq(Byte)
    BY <1>2, LenProperties DEF KdfInv, TypeOK, Accounts
<1> QED
    BY <1>3, EmptySeq

LEMMA UnusedInputStreams ==
    ASSUME KdfInv, StreamInv, call.pc = "idle", NEW step, NEW is_key,
           op.alg = NoAlg,
           op' = [op EXCEPT !.can_output_key = @ \/ Unlocks(step, is_key)],
           given' = [given EXCEPT !.offered = @ \/ (is_key /\ step = "SECRET")],
           UNCHANGED <<call, held, out, allowed, failed, made>>
    PROVE  StreamInv'
<1>1. call' = Idle /\ out' = <<>>
    BY NothingOutBeforeSetup DEF KdfInv, CallMatchesState
<1>2. given'.lengths = NothingGiven.lengths
    BY DEF KdfInv, TypeOK, StreamInv, FieldsAreGiven
<1> DEFINE old == op.can_output_key
           new == old \/ Unlocks(step, is_key)
<1>3. op = Prepared(NoAlg, FALSE, 0, old)
    BY DEF KdfInv, CallMatchesState
<1>4. op' = Prepared(NoAlg, FALSE, 0, new)
    BY <1>3 DEF Prepared, Blank
<1> HIDE DEF old, new
<1>5. PICK k : op' = Prepared(NoAlg, FALSE, 0, k)
    BY <1>4
<1>6. ASSUME NEW alg, NEW a, NEW c, op' = Prepared(alg, a, c, k)
      PROVE  StreamInv'
    BY ONLY <1>1, <1>2, <1>6, BlankStreamsNext
<1> QED
    BY <1>5, <1>6

LEMMA AnyInputStreams ==
    ASSUME KdfInv, StreamInv, call.pc = "idle", NEW step \in Steps,
           NEW n \in Lengths, NEW type, NEW is_key \in BOOLEAN,
           Input(step, type, n, is_key)
    PROVE  StreamInv'
<1>1. CASE Abort
    BY <1>1, AbortStreams
<1>2. CASE /\ \E o \in Accepted(op, step, n) :
                op' = [o EXCEPT !.can_output_key = @ \/ Unlocks(step, is_key)]
           /\ given' = [given EXCEPT !.lengths[step] = n,
                                     !.from_key = IF step = "SECRET" THEN is_key
                                                                     ELSE @]
           /\ UNCHANGED <<call, out, allowed, failed, made>>
    BY <1>2, InputStreams
<1>3. CASE /\ op.alg = NoAlg
           /\ op' = [op EXCEPT !.can_output_key = @ \/ Unlocks(step, is_key)]
           /\ given' = [given EXCEPT !.offered = @ \/ (is_key /\ step = "SECRET")]
           /\ UNCHANGED <<call, held, out, allowed, failed, made>>
    BY <1>3, UnusedInputStreams
<1> QED
    BY <1>1, <1>2, <1>3 DEF Input

LEMMA SetupStreams ==
    ASSUME KdfInv, StreamInv, call.pc = "idle", NEW alg, NEW a, Setup(alg, a)
    PROVE  StreamInv'
<1>1. op.alg = NoAlg
    BY DEF Setup
<1>2. call' = Idle /\ given'.lengths = NothingGiven.lengths
    BY <1>1 DEF KdfInv, CallMatchesState, StreamInv, FieldsAreGiven, Setup
<1>3. out' = <<>>
    BY <1>1, NothingOutBeforeSetup DEF Setup
<1>4. op' = Prepared(alg, a, MaxCapacity(alg), op.can_output_key)
    BY DEF Setup, Prepared
<1> QED
    BY <1>2, <1>3, <1>4, BlankStreamsNext

LEMMA ApplicationStreams ==
    ASSUME KdfInv, StreamInv, call.pc = "idle", Application PROVE StreamInv'
<1>1. CASE \E alg \in Hkdfs \cup Tls12s, agreement \in BOOLEAN :
                Setup(alg, agreement)
    BY <1>1, SetupStreams
<1>2. CASE \E step \in Steps, n \in Lengths : InputBytes(step, n)
    BY <1>2, AnyInputStreams DEF InputBytes
<1>3. CASE \E step \in Steps, n \in Lengths, type \in {"DERIVE", "RAW_DATA"} :
                InputKey(step, type, n)
    BY <1>3, AnyInputStreams, AbortStreams DEF InputKey
<1>4. CASE \E step \in Steps, n \in Lengths : KeyAgreement(step, n)
    BY <1>4, AnyInputStreams, AbortStreams DEF KeyAgreement
<1>5. CASE \E n \in ReadLengths : SetCapacity(n)
    <2>1. /\ UNCHANGED <<call, given, out>>
          /\ \A f \in {"alg", "salt", "info", "seed", "label", "other_secret",
                        "key", "state", "block", "block_number"} : op'[f] = op[f]
        BY <1>5 DEF SetCapacity, KdfInv, TypeOK, Operation
    <2> QED
        BY <2>1, QuietStreams
<1>6. CASE \E n \in ReadLengths : OutputBytes(n) \/ OutputKey(n)
    BY <1>6, OutputStreams DEF OutputBytes, OutputKey
<1>7. CASE Abort
    BY <1>7, AbortStreams
<1> QED
    BY <1>1, <1>2, <1>3, <1>4, <1>5, <1>6, <1>7 DEF Application

LEMMA StreamStep ==
    ASSUME KdfInv, StreamInv, [Next]_vars PROVE StreamInv'
<1>1. CASE call.pc = "idle" /\ Application
    BY <1>1, ApplicationStreams
<1>2. CASE CopyBytes
    BY <1>2, CopyStreams
<1>3. CASE NextBlock
    BY <1>3, NextStreams
<1>4. CASE BlockFails
    BY <1>4, FailStreams DEF BlockFails
<1>5. CASE OutputDone
    BY <1>5, DoneStreams
<1>6. CASE KeyDone
    <2>1. /\ UNCHANGED <<op, given, out>> /\ call'.pc # "read"
        BY <1>6 DEF KeyDone, Idle
    <2> QED
        BY <2>1, QuietStreams
<1>7. CASE Redraw
    BY <1>7, OutputStreams DEF Redraw
<1>8. CASE UNCHANGED vars
    <2>1. UNCHANGED <<op, given, out, call>>
        BY <1>8 DEF vars
    <2> QED
        BY <2>1, QuietStreams
<1> QED
    BY <1>1, <1>2, <1>3, <1>4, <1>5, <1>6, <1>7, <1>8 DEF Next

(* The bytes that output_bytes and output_key have handed out are the      *)
(* stream that the RFCs define for the inputs, in order and without gaps.  *)
THEOREM OutputIsTheStream == Spec => []OutputIsStream
<1>1. Init => StreamInv
    <2> SUFFICES ASSUME Init PROVE StreamInv
        OBVIOUS
    <2>1. op = Prepared(NoAlg, FALSE, 0, FALSE)
        BY BlankIsPrepared DEF Init
    <2>2. call = Idle /\ given.lengths = NothingGiven.lengths /\ out = <<>>
        BY DEF Init
    <2> QED
        BY <2>1, <2>2, BlankStreams
<1>2. KdfInv /\ StreamInv /\ [Next]_vars => StreamInv'
    BY StreamStep
<1>3. StreamInv => OutputIsStream
    BY DEF StreamInv, BytesAreStreams, StreamByte, OutputIsStream
<1> QED
    BY <1>1, <1>2, <1>3, InvariantHolds, PTL DEF Spec
=============================================================================
