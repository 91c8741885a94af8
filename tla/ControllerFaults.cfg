SPECIFICATION MCSpec
CONSTANTS
    n = n
    p = p
    None = None
    Models <- TwoModels
    Versioned = {n}
    MaxVersion = 2
    MaxWrites = 3
    MaxFaults = 2
    InOrder = FALSE
INVARIANTS TypesOK  RoutesFollow
PROPERTIES VersionsAdvance ReferencesCached 
    AdvertisedEventually
