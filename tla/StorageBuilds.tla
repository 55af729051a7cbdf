--------------------------- MODULE StorageBuilds ---------------------------
(***************************************************************************)
(* The builds of internal trusted storage: over NVS, with the key files of *)
(* KeyStorage on it, over files and over raw flash.  The configuration     *)
(* (src/include/config/iotex_layer_config.h) compiles one of them in; the  *)
(* state of the others does not exist, and stays as it is at first.        *)
(***************************************************************************)
EXTENDS KeyStorage, ItsFile, ItsFlash

VARIABLE build

buildVars == <<build, vars, fileVars, flashVars>>

BuildsTypeOK ==
    /\ build \in {"nvs", "file", "flash"}
    /\ FileTypeOK
    /\ FlashTypeOK

BuildsInit ==
    /\ build \in {"nvs", "file", "flash"}
    /\ Init
    /\ FileInit
    /\ FlashInit

BuildsNext ==
    \/ build = "nvs" /\ Next /\ UNCHANGED <<build, fileVars, flashVars>>
    \/ build = "file" /\ FileNext /\ UNCHANGED <<build, vars, flashVars>>
    \/ build = "flash" /\ FlashNext /\ UNCHANGED <<build, vars, fileVars>>

BuildsSpec == BuildsInit /\ [][BuildsNext]_buildVars
=============================================================================
