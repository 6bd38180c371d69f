CONSTANTS
    Stream = {}
    Parameter = {fx}
    Solo = {}
    Rest = Rest
    MaxBuilds = 3
    MaxEngines = 1
    Nothing = Nothing
    period_size = 2
    period_count = 2
    MaxTicks = 9
    MaxStarts = 3
    Silence <- MCSilence
    Input = {"i1", "i2"}
    Output = {"o1"}
    Supported <- MCSupported
    NumChannels <- MCNumChannels
    Confs <- MCConfs
    MaxPlugs = 1
    MaxBuses = 2
SPECIFICATION MCTimelySpec
INVARIANT ExecutedProcessorsExist
CHECK_DEADLOCK FALSE
