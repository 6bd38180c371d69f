CONSTANT MaxPushes = 6
CONSTANT Channel = {"c1", "c2"}
CONSTANT Target = {"main", "device"}
CONSTANT Owner = {"main"}
CONSTANT MidiParam <- MCMidiParam
CONSTANT MaxChanges = 3
CONSTANT MaxRebuilds = 2
CONSTANT None = NoValue
CONSTANT Main = "main"
CONSTANT MixerChannel = {"c1", "c2"}
CONSTANT Nothing = "none"
CONSTANT Module = {"m1", "m2", "m3", "m4"}
CONSTANT Name = {"n"}
CONSTANT Inputs <- MCInputs
CONSTANT Chains <- MCChains
CONSTANT MaxActions = 2
CONSTANT MaxSwitches = 3
CONSTANT Node = {"n1", "n2", "n3"}
SPECIFICATION MCFairSpec
INVARIANTS
    NoTornRead
    ParametersAgree
    SoloGroupsAgree
    AnswersHasCycle
    ViewFollowsState
    CallsReachTheLiving
PROPERTIES
    ImplementsLatestValue
    EveryPushIsSuperseded
    Answers
CHECK_DEADLOCK FALSE
