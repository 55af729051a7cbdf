--------------------------- MODULE DeviceIdentity ---------------------------
(***************************************************************************)
(* What a device promises to those who receive its reports, whatever it is *)
(* built of: it gets an identity at most once and keeps it for life, it    *)
(* announces only the identity it has, and the two keys that a report may  *)
(* name, the one that signed it and the one beside the signature, are that *)
(* identity or are missing.                                                *)
(***************************************************************************)
CONSTANT Identities

Nobody == "none"

VARIABLES
    identity,   \* the device's identity, or Nobody
    announced,  \* the identities it has ever announced
    signer,     \* who signed the last report, or Nobody
    claimed     \* the identity the last report claims, or Nobody

deviceVars == <<identity, announced, signer, claimed>>

DeviceInit ==
    /\ identity = Nobody
    /\ announced = {}
    /\ signer = Nobody
    /\ claimed = Nobody

Adopt(k) ==
    /\ identity = Nobody
    /\ identity' = k
    /\ UNCHANGED <<announced, signer, claimed>>

Announce ==
    /\ identity # Nobody
    /\ announced' = announced \cup {identity}
    /\ UNCHANGED <<identity, signer, claimed>>

(* A device that was not announced yet may sign, but cannot claim.         *)
Report ==
    /\ signer' \in {Nobody, identity}
    /\ claimed' \in {Nobody} \cup announced
    /\ UNCHANGED <<identity, announced>>

DeviceNext == Announce \/ Report \/ \E k \in Identities : Adopt(k)

DeviceSpec == DeviceInit /\ [][DeviceNext]_deviceVars
=============================================================================
