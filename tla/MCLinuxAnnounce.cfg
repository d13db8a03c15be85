SPECIFICATION Spec
CONSTANTS
    main = main
    dockerLoop = dockerLoop
    cniLoop = cniLoop
    docker = docker
    cni = cni
    p1 = p1
    u1 = u1
    s1 = s1
    m1 = m1
    gw = gw
    dad = dad
    Addr = {p1, u1}
    NotIPv6 = {}
    Source = {docker, cni}
    Goroutine = {main, dockerLoop, cniLoop}
    None = None
    QueueCap = 2
    StaticAddr = {s1}
    Prefix <- MCCLI
    Garbage = Garbage
    CLITargets <- MCCLI
    TargetFiles <- NoFiles
    HasTargetFile = FALSE
    HostsOnly = FALSE
    Main = main
    Collects <- MCCollects
    Public = {p1}
    MaxChanges = 2
    MaxEdits = 0
    MaxFailures = 0
    Solicited <- MCSolicited
    GatewayIP = gw
    Unspecified = dad
    Unadvertisable = {m1}
    CaptureCap = 1
INVARIANTS
    NewAddressesAnnounced
    NoInternalAdvertised

    
