SPECIFICATION DaemonSpec
CONSTANT Handler = {h1}
INVARIANTS
    DaemonTypeOK
    StopClosesAll
    FailedStartCloses
    FlagMatchesListener
    OfflineIsUnregistered
    StopWithdraws
PROPERTIES
    StopEnds
    LoopsEnd
