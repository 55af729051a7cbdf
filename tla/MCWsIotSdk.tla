----------------------------- MODULE MCWsIotSdk -----------------------------
(* One persistent key, the device's, and two private keys it may draw.     *)
EXTENDS WsIotSdk, TLC

CONSTANTS f1, f2       \* model values
MCSizeOf == (f1 :> 1) @@ (f2 :> 1)
=============================================================================
