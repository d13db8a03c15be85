SPECIFICATION FairSpec
CONSTANTS
    Addr = {a1}
    Source = {"net1", "net2", "dir"}
    Networks <- MCNetworks
    Dirs <- MCDirs
    EventCap = 1
    MaxChanges = 2
INVARIANTS
    CollectorsTypeOK
    StartedMeansRead
PROPERTIES
    
    NoStaleOverwrite
    Converges
    LoopsStop
