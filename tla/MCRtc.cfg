SPECIFICATION FairSpec
CONSTANTS
    Freqs <- Boundaries
    AbandonPoints <- Unmasked
INVARIANTS
    ReadsPaced
    RegisterASelected
PROPERTIES
    RateRoundsUp
    ReadReturns
