SPECIFICATION Spec
CONSTANTS
    main = main
    dockerLoop = dockerLoop
    cniLoop = cniLoop
    docker = docker
    cni = cni
    p1 = p1
    p2 = p2
    u1 = u1
    s1 = s1
    Addr = {p1, u1}
    NotIPv6 = {}
    Source = {docker, cni}
    Goroutine = {main, dockerLoop, cniLoop}
    None = None
    QueueCap = 0
    StaticAddr = {p1, s1}
    Prefix <- MCPrefix
    Garbage = Garbage
    CLITargets <- MCCLI
    TargetFiles <- MCFiles
    HasTargetFile = TRUE
    HostsOnly = TRUE
    Main = main
    Collects <- MCCollects
    Public = {p1}
    MaxChanges = 2
    MaxEdits = 1
    MaxFailures = 1
INVARIANTS
    BSDTypeOK
    
    NoLostWakeup
    ReadyMeansServing
    StoppedIsClean
    
PROPERTY
    MarkedOnlyWhenSynced
SYMMETRY MCSwap
