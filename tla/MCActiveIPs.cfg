SPECIFICATION RegistrySpec
CONSTANTS
    Addr = {a1, a2}
    NotIPv6 = {v4}
    Source = {docker, cni}
    Goroutine = {g1, g2}
    None = None
    QueueCap = 2
INVARIANTS
    RegistryInv
    PublishedAgrees
PROPERTY
    RefinesAddressView
