CONSTANTS
    Uids = {k1}
    DeviceKey = k1
    f1 = f1
    f2 = f2
    Values = {f1, f2}
    SizeOf <- MCSizeOf
    Faults = {}
    Failures = {}
    AppStatuses = {"DISCONNECTED", "CONNECTED", "BIND_STATUS_OK"}
    Base = 2
    Width = 2
    N = 3
    Marks = 2
SPECIFICATION SdkSpec
INVARIANT ReportsVerify
