SPECIFICATION FairSpec
CONSTANTS
    main = main
    dockerLoop = dockerLoop
    cniLoop = cniLoop
    docker = docker
    cni = cni
    p1 = p1
    u1 = u1
    s1 = s1
    m1 = m1
    gw = gw
    dad = dad
    Addr = {p1}
    NotIPv6 = {}
    Source = {docker}
    Goroutine = {main, dockerLoop}
    None = None
    QueueCap = 1
    StaticAddr = {p1, s1, m1}
    Prefix <- MCHosts
    Garbage = Garbage
    CLITargets <- MCCLI
    TargetFiles <- MCFewFiles
    HasTargetFile = TRUE
    HostsOnly = FALSE
    Main = main
    Collects <- MCCollects
    Public = {p1}
    MaxChanges = 2
    MaxEdits = 1
    MaxFailures = 1
    Solicited <- MCOneSolicited
    GatewayIP = None
    Unspecified = dad
    Unadvertisable = {m1}
    CaptureCap = 1
PROPERTIES
    StaticEventuallyAnnounced
    RuntimeEventuallyAnnounced
    StopsAfterSignal
    CaptureStops
INVARIANTS
    LinuxTypeOK
    StaticHostsAnnounced
    
