-------------------------- MODULE RecursionProofs ---------------------------
(***************************************************************************)
(* Induction over the first naturals, from their order being well-founded, *)
(* and from it what TLAPS has to be told of a function that is defined by  *)
(* recursion over them: that there is one.                                 *)
(***************************************************************************)
EXTENDS Integers, WellFoundedInduction, TLAPS

LEMMA LeastExists ==
    ASSUME NEW T \in SUBSET Nat, T # {}
    PROVE  \E x \in T : \A y \in T : x <= y
<1> DEFINE R == OpToRel(<, Nat)
<1>1. IsWellFoundedOn(R, Nat)
  BY NatLessThanWellFounded
<1>2. ASSUME NEW x \in Nat, NEW y \in Nat, y < x PROVE <<y, x>> \in R
  BY <1>2 DEF OpToRel
<1> HIDE DEF R
<1>3. PICK x \in T : \A y \in T : ~(<<y, x>> \in R)
  BY <1>1, WFMin
<1>4. ASSUME NEW y \in T PROVE x <= y
  <2>1. x \in Nat /\ y \in Nat /\ ~(<<y, x>> \in R)
    BY <1>3
  <2>2. ~(y < x)
    BY <1>2, <2>1, Zenon
  <2>3. QED
    BY <2>1, <2>2
<1>5. QED
  BY <1>4

LEMMA RangeInduction ==
    ASSUME NEW n \in Nat, NEW S \in SUBSET Nat, 0 \in S,
           \A i \in 0 .. n - 1 : i \in S => i + 1 \in S
    PROVE  \A i \in 0 .. n : i \in S
<1> DEFINE T == (0 .. n) \ S
<1>1. SUFFICES ASSUME T # {} PROVE FALSE
  OBVIOUS
<1>2. PICK x \in T : \A y \in T : x <= y
  <2>1. T \in SUBSET Nat
    OBVIOUS
  <2> HIDE DEF T
  <2>2. QED
    BY <1>1, <2>1, LeastExists
<1>3. x # 0 /\ x - 1 \in 0 .. n - 1 /\ x - 1 \in 0 .. n /\ ~(x <= x - 1)
  OBVIOUS
<1>4. x - 1 \in S
  BY <1>2, <1>3
<1>5. (x - 1) + 1 \in S
  BY <1>3, <1>4
<1>6. QED
  BY <1>3, <1>5

LEMMA GreatestExists ==
    ASSUME NEW n \in Nat, NEW T \in SUBSET (0 .. n), T # {}
    PROVE  \E x \in T : \A y \in T : y <= x
<1> DEFINE U == {u \in Nat : \A y \in T : y <= u}
<1>1. n \in U
  OBVIOUS
<1>2. PICK u \in U : \A v \in U : u <= v
  <2>1. U \in SUBSET Nat /\ U # {}
    BY <1>1
  <2> HIDE DEF U
  <2>2. QED
    BY <2>1, LeastExists
<1>3. ASSUME u \notin T PROVE FALSE
  <2>1. PICK y \in T : TRUE
    OBVIOUS
  <2>2. u # 0 /\ u - 1 \in Nat
    BY <1>3, <2>1
  <2>3. \A z \in T : z <= u - 1
    BY <1>3
  <2>4. u - 1 \in U
    BY <2>2, <2>3
  <2>5. QED
    BY <1>2, <2>2, <2>4
<1>4. QED
  BY <1>3

(* f starts at a, and G gives each of its values from the one before.      *)
IsRecursive(f, n, D, a, G) ==
    /\ f \in [0 .. n -> D] /\ f[0] = a
    /\ \A i \in 1 .. n : f[i] = G[i][f[i - 1]]

LEMMA RecursionExists ==
    ASSUME NEW n \in Nat, NEW D, NEW a \in D, NEW G \in [Nat -> [D -> D]]
    PROVE  \E f : IsRecursive(f, n, D, a, G)
<1> DEFINE Upto(m, f) == IsRecursive(f, m, D, a, G)
           S == {m \in Nat : \E f : Upto(m, f)}
<1>1. 0 \in S
  <2>1. Upto(0, [i \in 0 .. 0 |-> a])
    BY DEF IsRecursive
  <2>2. QED
    BY <2>1
<1>2. ASSUME NEW m \in Nat, m \in S PROVE m + 1 \in S
  <2>1. PICK f : Upto(m, f)
    BY <1>2
  <2> DEFINE g == [i \in 0 .. m + 1 |->
                      IF i = m + 1 THEN G[m + 1][f[m]] ELSE f[i]]
  <2>2. f[m] \in D /\ G[m + 1][f[m]] \in D
    BY <2>1 DEF IsRecursive
  <2>3. g \in [0 .. m + 1 -> D] /\ g[0] = a
    <3>1. \A i \in 0 .. m + 1 : i = m + 1 \/ i \in 0 .. m
      OBVIOUS
    <3>2. \A i \in 0 .. m + 1 :
             (IF i = m + 1 THEN G[m + 1][f[m]] ELSE f[i]) \in D
      BY <2>1, <2>2, <3>1 DEF IsRecursive
    <3>3. 0 \in 0 .. m + 1 /\ 0 # m + 1
      OBVIOUS
    <3>4. QED
      BY <2>1, <3>2, <3>3 DEF IsRecursive
  <2>4. ASSUME NEW i \in 1 .. m + 1 PROVE g[i] = G[i][g[i - 1]]
    <3>1. i - 1 \in 0 .. m /\ i - 1 # m + 1 /\ i - 1 \in 0 .. m + 1
      OBVIOUS
    <3>2. g[i - 1] = f[i - 1]
      BY <3>1
    <3>3. CASE i = m + 1
      <4>1. i - 1 = m /\ i \in 0 .. m + 1
        BY <3>3
      <4>2. QED
        BY <3>2, <3>3, <4>1
    <3>4. CASE i # m + 1
      <4>1. i \in 1 .. m /\ i \in 0 .. m + 1
        BY <3>4
      <4>2. QED
        BY <2>1, <3>2, <3>4, <4>1 DEF IsRecursive
    <3>5. QED
      BY <3>3, <3>4
  <2>5. Upto(m + 1, g)
    BY <2>3, <2>4 DEF IsRecursive
  <2> HIDE DEF g, Upto
  <2>6. QED
    BY <2>5
<1>3. n \in S
  <2>1. S \in SUBSET Nat /\ \A i \in 0 .. n - 1 : i \in S => i + 1 \in S
    BY <1>2
  <2>2. n \in 0 .. n
    OBVIOUS
  <2> HIDE DEF S
  <2>3. QED
    BY <1>1, <2>1, <2>2, RangeInduction
<1>4. QED
  BY <1>3
=============================================================================
