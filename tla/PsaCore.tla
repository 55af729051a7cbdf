------------------------------- MODULE PsaCore -------------------------------
(***************************************************************************)
(* What an application does with the operation objects of the PSA core     *)
(* (psa_crypto.c): it derives keys, or it uses MACs and AEADs under the    *)
(* policies of its keys.  No object of one kind is state of the other, so  *)
(* a behaviour is of one kind, and the objects of the other stay idle.     *)
(***************************************************************************)
EXTENDS MacAead, KeyDerivation

VARIABLE use    \* which of the two the application is about

coreVars == <<use, authVars, vars>>

CoreInit ==
    /\ use \in {"authenticate", "derive"}
    /\ AuthInit
    /\ Init

CoreNext ==
    \/ use = "authenticate" /\ AuthNext /\ UNCHANGED <<use, vars>>
    \/ use = "derive" /\ Next /\ UNCHANGED <<use, authVars>>

CoreSpec == CoreInit /\ [][CoreNext]_coreVars
=============================================================================
