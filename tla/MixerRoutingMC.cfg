SPECIFICATION MCSpec
CONSTANTS
    Channel = {main, c1, c2}
    Main = main
    Bus = {b1}
    UserName <- MCUserName
    Default = Default
    tool = tool
    amp = amp
    NoControl = NoControl
    knob = knob
    slider = slider
    Nothing = Nothing
    Device = {d1, d2}
    Port = {p1, p2}
    MaxPlugs = 2
    MaxRestarts = 1
SYMMETRY Symmetry
INVARIANTS
    ListsAgree
    RoutesResolve
    SessionComesBack
    EnabledDevicesWork
PROPERTIES
    OnlyRemovalClosesCycles
    NamedBusTakesWaiting
