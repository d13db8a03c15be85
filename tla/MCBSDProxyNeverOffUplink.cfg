SPECIFICATION Spec
CONSTANTS
    Addr = {a1}
    Uplink = en0
    Iface = {en0, bridge0}
    MaxForeign = 1
    MaxFaults = 0
    MaxCrashes = 0
INVARIANT
    NeverOffUplink
