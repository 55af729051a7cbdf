----------------------------- MODULE Operations -----------------------------
(***************************************************************************)
(* The cipher and hash operations of an application together.  They share  *)
(* the heap, and the cipher operations the key schedule.  A copy to or     *)
(* from NULL stops the processor, and the board starts anew.               *)
(***************************************************************************)
EXTENDS CipherOps, HashOps

vars == <<heap, cipherVars, hashVars>>

Init == HeapInit /\ CipherInit /\ HashInit

Panic ==
    /\ \E src, dst \in HashObjects :
            CanClone(src, dst) /\ CloneFaults(src, dst)
    /\ heap' = [b \in Blocks |-> FreeBlock]
    /\ cipher' = [o \in CipherObjects |-> CipherZero]
    /\ s' = NoKey
    /\ hash' \in FreshObjects
    /\ computed' = TRUE

Next ==
    \/ CipherNext /\ UNCHANGED hashVars
    \/ HashNext /\ UNCHANGED cipherVars
    \/ Panic

Spec == Init /\ [][Next]_vars

(* An application that minds the one key schedule: while an operation is   *)
(* active it sets up none under another key and makes no call that does.   *)
ScheduleHeld ==
    \A o \in CipherObjects : cipher[o].id /\ cipher'[o].id => s' = s

HeldNext == Next /\ ScheduleHeld
HeldSpec == Init /\ [][HeldNext]_vars

HeapTypeOK ==
    heap \in [Blocks -> {FreeBlock, AesBlock}
                            \cup {ShaBlock(m) : m \in Messages}]

(* One type invariant for the components and what they share.              *)
TypeOK == HeapTypeOK /\ CipherTypeOK /\ HashTypeOK
=============================================================================
