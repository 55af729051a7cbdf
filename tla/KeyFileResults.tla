--------------------------- MODULE KeyFileResults ---------------------------
(***************************************************************************)
(* What the calls of psa_crypto_storage.h may do to a key file that was    *)
(* old before the call: the results that the key slots have to expect.     *)
(* A file is Absent, Torn (there, but it does not load) or whole.          *)
(***************************************************************************)
Absent == "absent"
Torn == "torn"

(* psa_save_persistent_key writes a file only where there is none.  When   *)
(* it fails it has done nothing, for want of memory or because of a file   *)
(* that is there, or was stopped between the two blobs.                    *)
SaveResults(old, f) ==
    {[status |-> "failed", file |-> old]}
    \cup IF old = Absent
         THEN {[status |-> "done", file |-> f], [status |-> "failed", file |-> Torn]}
         ELSE {}

(* psa_destroy_persistent_key; a file that is not there is destroyed.      *)
DestroyResults(old) ==
    {[status |-> "done", file |-> Absent], [status |-> "failed", file |-> old]}
=============================================================================
