SPECIFICATION Spec
CONSTANTS
    Addr = {a1, a2}
    Uplink = en0
    Iface = {en0, bridge0}
    MaxForeign = 2
    MaxFaults = 2
    MaxCrashes = 1
INVARIANTS
    ProxyTypeOK
    OffUplinkOnlyIfMoved
    OwnsOnlyWhatItAdded
PROPERTIES
    ForeignUntouched
    RefinesProxySync
