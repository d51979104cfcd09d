SPECIFICATION Spec
CONSTANTS
    fact = fact
    opposite = opposite
    order = order
    Contents <- ThreeContents
    Facts <- FactsOf
    Overlap <- OverlapOf
    Negated <- Opposite
    Flagged <- Order
    Forgetting <- Order
    Weak <- None
    Ephemeral <- Order
    High <- Order
    Distrusted <- Fact
    Inbox <- Opposite
    Held <- None
    Low <- Opposite
    Direct <- Fact
    Bundles <- None
    MaxPrefrontal = 1
    MaxHippocampus = 1
    LoadLimit = 2
    MaxRows = 3
    MaxMishaps = 1
    Fading <- Fact
PROPERTIES ExpiredStaysExpired
CHECK_DEADLOCK FALSE
