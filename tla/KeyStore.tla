------------------------------ MODULE KeyStore ------------------------------
(***************************************************************************)
(* What the persistent key store promises, whatever flash it is built on:  *)
(* a partial map from key ids to key files in which a file is written once *)
(* into a free place, is visible only when it is whole, and disappears     *)
(* only by an erase.  The one concession to the medium is that a write may *)
(* be cut short, which leaves the place Torn: taken, and not readable.     *)
(***************************************************************************)
CONSTANTS Keys, Files

Absent == "absent"
Torn == "torn"
Idle == [busy |-> FALSE]

VARIABLES
    entry,      \* entry[k]: Absent, Torn or the file stored for k
    writer      \* the write under way, or Idle

storeVars == <<entry, writer>>

StoreInit ==
    /\ entry = [k \in Keys |-> Absent]
    /\ writer = Idle

Begin(k, f) ==
    /\ ~ writer.busy
    /\ entry[k] = Absent
    /\ writer' = [busy |-> TRUE, key |-> k, file |-> f]
    /\ UNCHANGED entry

Claim ==
    /\ writer.busy
    /\ entry[writer.key] = Absent
    /\ entry' = [entry EXCEPT ![writer.key] = Torn]
    /\ UNCHANGED writer

Fill ==
    /\ writer.busy
    /\ entry[writer.key] = Torn
    /\ entry' = [entry EXCEPT ![writer.key] = writer.file]
    /\ UNCHANGED writer

(* The write ends, complete or cut short by an error or a power failure.   *)
End ==
    /\ writer.busy
    /\ writer' = Idle
    /\ UNCHANGED entry

Erase(k) ==
    /\ ~ writer.busy
    /\ entry[k] # Absent
    /\ entry' = [entry EXCEPT ![k] = Absent]
    /\ UNCHANGED writer

StoreNext ==
    \/ Claim \/ Fill \/ End
    \/ \E k \in Keys : Erase(k) \/ \E f \in Files : Begin(k, f)

StoreTypeOK ==
    /\ entry \in [Keys -> Files \cup {Absent, Torn}]
    /\ writer \in {Idle} \cup [busy : {TRUE}, key : Keys, file : Files]

StoreSpec == StoreInit /\ [][StoreNext]_storeVars
=============================================================================
