CONSTANTS
    Plugin = {p1}
    Loadable = {p1}
    Control = {k1}
    MaxIds = 3
    MaxSession = 2
    None = None
    Channel = {0, 1}
    MainChannel = 0
    Capacity = 2
    MaxCycles = 3
    MaxStarts = 2
    MaxRestarts = 1
    MaxCutShort = 1
    Restored <- SpRestored
    Wave <- SpWave
    Hann <- SpHann
    Chunks = {3, 5}
    Gains = {1, 2}
    MaxChanges = 3
    MaxPlayed = 13
SPECIFICATION MCTimelySpec
INVARIANTS ChainsAgree PluginsAgree ReferencesResolve MissingIsReloaded TakesAreWhole
           SpectraShowOneMoment
PROPERTIES StreamsShowOneMoment
CHECK_DEADLOCK FALSE
