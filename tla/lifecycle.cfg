SPECIFICATION FairSpec
INVARIANTS
    UsesOnlyLive
    NothingLeftRunning
PROPERTY SignalEndsProcess
