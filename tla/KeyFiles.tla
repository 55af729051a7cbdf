------------------------------ MODULE KeyFiles ------------------------------
(***************************************************************************)
(* Persistent key files as the layer above sees them, call by call: one    *)
(* file per key, calls that end with a result of KeyFileResults, and power *)
(* failures, which touch no file but the one that is being saved.          *)
(***************************************************************************)
EXTENDS KeyFileResults

CONSTANTS Keys, Files

VARIABLES
    file,       \* file[k]: Absent, Torn or the file of key k
    call,       \* the call under way, or Idle
    result      \* the status of the last call that returned

filesVars == <<file, call, result>>

Idle == [op |-> "none"]

FilesInit ==
    /\ file = [k \in Keys |-> Absent]
    /\ call = Idle
    /\ result = "none"

Begin(c) ==
    /\ call = Idle
    /\ call' = c
    /\ result' = "none"
    /\ UNCHANGED file

Return(status) ==
    /\ call' = Idle
    /\ result' = status

SaveReturns ==
    /\ call.op = "save"
    /\ \E r \in SaveResults(file[call.key], call.file) :
          /\ file' = [file EXCEPT ![call.key] = r.file]
          /\ Return(r.status)

(* While a file is being destroyed it may already be gone: seen as one     *)
(* step, the call ends with one of DestroyResults.                         *)
FileGoes ==
    /\ call.op = "destroy"
    /\ file' = [file EXCEPT ![call.key] = Absent]
    /\ UNCHANGED <<call, result>>

DestroyReturns ==
    /\ call.op = "destroy"
    /\ Return(IF file[call.key] = Absent THEN "done" ELSE "failed")
    /\ UNCHANGED file

(* Calls that find there is nothing to do.                                 *)
ReturnAtOnce(k) ==
    /\ call = Idle
    /\ \/ file[k] # Absent /\ Return("failed")      \* saved already
       \/ file[k] = Absent /\ Return("done")        \* nothing to destroy
    /\ UNCHANGED file

PowerFailure ==
    /\ \/ UNCHANGED file
       \/ /\ call.op = "save"
          /\ \E f \in {Torn, call.file} : file' = [file EXCEPT ![call.key] = f]
    /\ Return("none")

FilesNext ==
    \/ \E k \in Keys :
          \/ \E f \in Files : Begin([op |-> "save", key |-> k, file |-> f])
          \/ Begin([op |-> "destroy", key |-> k])
          \/ ReturnAtOnce(k)
    \/ SaveReturns \/ FileGoes \/ DestroyReturns \/ PowerFailure

FilesSpec == FilesInit /\ [][FilesNext]_filesVars
=============================================================================
