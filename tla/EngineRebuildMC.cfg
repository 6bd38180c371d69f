CONSTANTS
    Stream = {s1}
    Parameter = {fx, solo}
    Solo = {solo}
    Rest = Rest
    MaxBuilds = 4
    MaxEngines = 2
    Nothing = Nothing
    period_size = 2
    period_count = 2
    MaxTicks = 9
    MaxStarts = 3
    Silence <- MCSilence
    Input = {"i1", "i2"}
    Output = {"o1"}
    Supported <- MCSupported
    NumChannels <- MCNumChannels
    Confs <- MCConfs
    MaxPlugs = 1
    MaxBuses = 2
SPECIFICATION MCFairTimelySpec
INVARIANTS
    OnlyMidiWiresDangle
    EngineFollowsState
    LatencySurvivesXruns
    SelectionFits
PROPERTY RebuildsAndClosesEnd
CHECK_DEADLOCK FALSE
