CONSTANTS
    Uids = {k1}
    DeviceKey = k1
    f1 = f1
    f2 = f2
    Values = {f1, f2}
    SizeOf <- MCSizeOf
    Faults = {"set", "erase", "buffer"}
    Failures = {"init", "load", "export", "generate", "sign", "publish"}
    AppStatuses = {"DISCONNECTED", "CONNECTED", "BIND_STATUS_OK"}
    Base = 4
    Width = 3
    N = 61
    Marks = 25
SPECIFICATION FairSdkSpec
INVARIANTS
    SdkTypeOK
    ShownKeyCanSign
    LowSignature
PROPERTIES
    StartCompletes
    StartMovesOn
    ImplementsDeviceIdentity
