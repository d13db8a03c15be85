SPECIFICATION FairSpec
CONSTANTS
    br = br
    em0 = em0
    em1 = em1
    old = old
    new = new
    Order <- ThreeLinks
    Requested = em0
    None = None
    Router = {old, new}
    DefaultRoute <- TwoDefaults
    Target = {t1, t2}
    Virtual = {br}
    MaxRetries = 2
    MaxChanges = 1
    MaxFaults = 1
INVARIANTS
    SelectionTypeOK
    CandidatesInOrder
    OneSocketLeft
    RequestedIsAuthoritative
    PinnedOnlyWhereSelected
    UplinkCarriesTargets
PROPERTIES
    PreferredGateway
    SelectionEnds
