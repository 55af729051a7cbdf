-------------------------------- MODULE LowS --------------------------------
(***************************************************************************)
(* The normalisation of signatures in src/application/devnet/LowerS: the   *)
(* half s of an ECDSA signature is replaced by N - s when it is above half *)
(* of the group order N.  Numbers are arrays of digits, least significant  *)
(* first, with a length; the code has 64 digits of base 16.                *)
(***************************************************************************)
EXTENDS Integers

CONSTANTS
    Base,       \* 16
    Width,      \* digits of a number: 64
    N           \* the order of the group, Max_s

(* What a digit counts at each position: the powers of the base.           *)
Weight[i \in 0 .. Width] == IF i = 0 THEN 1 ELSE Base * Weight[i - 1]

ASSUME LowSAssumption ==
    /\ Base \in Nat \ {0, 1}
    /\ Width \in Nat \ {0}
    /\ N \in 3 .. Weight[Width] - 1
    /\ N % 2 = 1

Positions == 0 .. Width - 1
NumOf(value) ==
    [num |-> [i \in Positions |-> (value \div Weight[i]) % Base], len |-> Width]

(* The number that an array of digits stands for: all of its parts, each   *)
(* of which adds a digit to the one before.                                *)
Parts(num) ==
    LET part[i \in 0 .. Width] ==
            IF i = 0 THEN 0 ELSE part[i - 1] + num[i - 1] * Weight[i - 1]
    IN  part
ValueOf(num) == Parts(num)[Width]

Lower_S == NumOf((N - 1) \div 2)
Max_s == NumOf(N)

-----------------------------------------------------------------------------
(* 1, 0 or -1 as a is above, equal to or below b: the longer number is the *)
(* larger, else the most significant digit in which they differ decides.   *)
Comp(a, b) ==
    LET differ == {i \in 0 .. a.len - 1 : a.num[i] # b.num[i]}
        top == CHOOSE i \in differ : \A j \in differ : j <= i
        Sign(x, y) == IF x > y THEN 1 ELSE -1
    IN  IF a.len # b.len THEN Sign(a.len, b.len)
        ELSE IF differ = {} THEN 0
        ELSE Sign(a.num[top], b.num[top])

(* What the subtraction of each digit borrows from the next position.      *)
Borrows(a, b) ==
    LET borrow[i \in 0 .. Width] ==
            IF i = 0 THEN 0
            ELSE IF a.num[i - 1] - b.num[i - 1] - borrow[i - 1] < 0 THEN 1
            ELSE 0
    IN  borrow

(* Digit by digit with a borrow; zeros at the top are not counted in len.  *)
Sub(a, b) ==
    LET borrow == Borrows(a, b)
        c == [i \in Positions |->
                 a.num[i] - b.num[i] - borrow[i] + Base * borrow[i + 1]]
        lens == {l \in 1 .. Width : \A i \in l .. Width - 1 : c[i] = 0}
    IN  [num |-> c, len |-> CHOOSE l \in lens : \A m \in lens : l <= m]

(* InitBinary takes all digits of the buffer, zeros at the top included.   *)
InitBinary(b) == [num |-> b, len |-> Width]

(* printBuf writes Width digits whatever the length.                       *)
printBuf(a) == [i \in Positions |-> a.num[i]]

LowsCalc_AtHalf(s) ==   \* mutant: half of the order itself is replaced too
    LET a == InitBinary(s)
    IN  IF Comp(Lower_S, a) <= 0 THEN printBuf(Sub(Max_s, a)) ELSE s

(* LowsCalc(s, s), as dev_register_confirm calls it: in place.             *)
LowsCalc(s) ==
    LET a == InitBinary(s)
    IN  IF Comp(Lower_S, a) < 0 THEN printBuf(Sub(Max_s, a)) ELSE s
=============================================================================
