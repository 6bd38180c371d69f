--------------------------- MODULE ChannelStrips ---------------------------
(***************************************************************************)
(* The strips of the mixer, composed with MixerRouting: what the edit      *)
(* strip of a channel shows of its routes, which places its menus offer,   *)
(* and what choosing an entry, which the strip knows by its index in the   *)
(* list it was given, does to the state; and the perform strip's sign that *)
(* a channel is muted by the solo of another.  A strip is what its         *)
(* selectors return on the state: that each change is shown is Views.      *)
(***************************************************************************)
EXTENDS MixerRouting, SequencesExt

CONSTANTS
    Loaded,     \* the ids of the two channels and three buses of the session
    MaxSteps    \* how many actions are taken

ASSUME LoadedAssumption ==
    LET cs == Loaded.channels bs == Loaded.buses
    IN  /\ {cs[1], cs[2]} \subseteq Channel \ {Main} /\ cs[1] # cs[2]
        /\ {bs[1], bs[2], bs[3]} \subseteq Bus
        /\ bs[1] # bs[2] /\ bs[2] # bs[3] /\ bs[1] # bs[3]

VARIABLES
    names,      \* the name of each channel
    solo,       \* the channels whose solo is on
    chosen,     \* the menu entry chosen last: its strip, direction and text
    steps

stripVars == <<names, solo, chosen>>

Mix == <<"Mix">>
None == <<"None">>

\* What a strip shows of a bus is told from what it shows of the mix.
ASSUME UserNameAssumption == Mix \notin UserName

NothingChosen == [channel |-> Main, dir |-> "none", text |-> None]
Chosen(c, dir, text) == [channel |-> c, dir |-> dir, text |-> text]

-----------------------------------------------------------------------------
\* What a strip shows.
DeviceRoutes(list, type) ==
    LET routes[n \in 0 .. Len(list)] ==
            IF n = 0 THEN <<>>
            ELSE IF buses[list[n]].bus_type = type THEN Append(routes[n - 1], list[n])
            ELSE routes[n - 1]
    IN  routes[Len(list)]

InputDeviceList(c) == DeviceRoutes(device_inputs, channels[c].bus_type)
OutputDeviceList == DeviceRoutes(device_outputs, "stereo")
InputChannelList(c) == SetToSeq({s \in DOMAIN channels : ValidSource(c, s)})
OutputChannelList(c) == SetToSeq({t \in DOMAIN channels : ValidTarget(c, t)})

\* The lists the strip keeps, to find what stands at an index of its menus.
Menus(c) ==
    [input_devices |-> InputDeviceList(c), input_channels |-> InputChannelList(c),
     output_devices |-> OutputDeviceList, output_channels |-> OutputChannelList(c)]

MenuText(a) == IF a \in Bus THEN buses[a].name ELSE names[a]

DefaultInputText(c) == IF channels[c].bus_type = "mono" THEN None ELSE Mix

Shown(state, name) == [state |-> state, name |-> name]

\* The names of what an address stands for; those of no device and no channel
\* differ between the directions.
SelectedDevice(a) == IF a \in Bus THEN Shown("valid", buses[a].name) ELSE Shown("invalid", a)

SelectedInput(c) ==
    LET a == channels[c].in
    IN  CASE a = Default -> Shown("valid", DefaultInputText(c))
          [] a \in Channel -> Shown("valid", names[a])
          [] OTHER -> SelectedDevice(a)

SelectedOutput(c) ==
    LET a == channels[c].out
    IN  CASE a = Default -> Shown("valid", None)
          [] a \in Channel ->
                Shown(IF channels[a].in = Default THEN "valid" ELSE "not_mixed", names[a])
          [] OTHER -> SelectedDevice(a)

CanMoveLeft(c) == c # Main /\ inputs # <<>> /\ c # Head(inputs)
CanMoveRight(c) == c # Main /\ inputs # <<>> /\ c # Last(inputs)

\* The solo group of an owner is what is sent to it.
SoloGroup(owner) == {c \in DOMAIN channels : channels[c].out = owner}

MutedBySolo(c) ==
    /\ channels[c].out \in Channel
    /\ SoloGroup(channels[c].out) \cap solo # {}
    /\ c \notin solo

EditStrip(c) ==
    [name |-> names[c], can_move_left |-> CanMoveLeft(c), can_move_right |-> CanMoveRight(c),
     default_input_is_valid |-> DefaultSourceValid(c),
     input |-> SelectedInput(c), output |-> SelectedOutput(c)]

PerformStrip(c) == [name |-> names[c], muted_by_solo |-> MutedBySolo(c)]

-----------------------------------------------------------------------------
\* The user at the strip of a channel.  A menu that would be empty, a default
\* that would close a cycle and a move beyond the end are disabled.
Choose(c, dir, text, chs) ==
    /\ channels' = chs
    /\ chosen' = Chosen(c, dir, text)
    /\ UNCHANGED <<inputs, deviceVars, names, solo>>

ChangeInputToDefault(c) ==
    /\ EditStrip(c).default_input_is_valid
    /\ Choose(c, "input", DefaultInputText(c), InputSet(c, Default))

\* Mutant of ChangeInputToDevice: the index is taken in the list of all buses.
ChangeInputToDeviceOfAll(c, index) ==
    LET list == Menus(c).input_devices
    IN  /\ index \in DOMAIN list
        /\ Choose(c, "input", MenuText(list[index]), InputSet(c, device_inputs[index]))

ChangeInputToDevice(c, index) ==
    LET list == Menus(c).input_devices
    IN  /\ index \in DOMAIN list
        /\ Choose(c, "input", MenuText(list[index]), InputSet(c, list[index]))

ChangeInputToChannel(c, index) ==
    LET list == Menus(c).input_channels
    IN  /\ index \in DOMAIN list
        /\ Choose(c, "input", MenuText(list[index]), InputSet(c, list[index]))

ChangeOutputToNone(c) == Choose(c, "output", None, OutputSet(c, Default))

ChangeOutputToDevice(c, index) ==
    LET list == Menus(c).output_devices
    IN  /\ index \in DOMAIN list
        /\ Choose(c, "output", MenuText(list[index]), OutputSet(c, list[index]))

ChangeOutputToChannel(c, index) ==
    LET list == Menus(c).output_channels
    IN  /\ index \in DOMAIN list
        /\ Choose(c, "output", MenuText(list[index]), OutputSet(c, list[index]))

ChangeName(c, name) ==
    /\ names' = [names EXCEPT ![c] = name]
    /\ chosen' = NothingChosen
    /\ UNCHANGED <<vars, solo>>

PlaceOf(c) == CHOOSE i \in DOMAIN inputs : inputs[i] = c

Move(c) ==
    /\ \/ EditStrip(c).can_move_left /\ MoveMixerChannelLeft(PlaceOf(c))
       \/ EditStrip(c).can_move_right /\ MoveMixerChannelRight(PlaceOf(c))
    /\ chosen' = NothingChosen
    /\ UNCHANGED <<names, solo>>

\* The strip of Main has no button for it.  The effects of the channel, which
\* are deleted first, are left out.
DeleteChannel(c) ==
    /\ RemoveMixerChannel(c)
    /\ names' = Without(names, c)
    /\ solo' = solo \ {c}
    /\ chosen' = NothingChosen

\* The mixer's buttons, which give the next name by the length of the list.
AddChannel(c, type) ==
    /\ AddMixerChannel(c, type, TRUE)
    /\ names' = With(names, c, <<"In", Len(inputs) + 1>>)
    /\ chosen' = NothingChosen
    /\ UNCHANGED solo

SetSolo(c) ==
    /\ solo' = IF c \in solo THEN solo \ {c} ELSE solo \cup {c}
    /\ chosen' = NothingChosen
    /\ UNCHANGED <<vars, names>>

\* The settings of the audio device change the buses.
ChangeBuses ==
    /\ \/ \E b \in Bus, dir \in Direction, type \in BusType : AddBus(b, dir, type)
       \/ \E b \in Bus : DeleteBus(b)
       \/ \E b \in Bus, name \in UserName : SetDeviceBusName(b, name)
    /\ chosen' = NothingChosen
    /\ UNCHANGED <<names, solo>>

StripNext ==
    /\ steps < MaxSteps /\ steps' = steps + 1
    /\ \/ \E c \in DOMAIN channels :
            \/ ChangeInputToDefault(c) \/ ChangeOutputToNone(c)
            \/ \E index \in 1 .. Cardinality(Bus) :
                ChangeInputToDevice(c, index) \/ ChangeOutputToDevice(c, index)
            \/ \E index \in 1 .. Cardinality(Channel) :
                ChangeInputToChannel(c, index) \/ ChangeOutputToChannel(c, index)
            \/ ChangeName(c, <<"Song">>) \/ Move(c) \/ DeleteChannel(c) \/ SetSolo(c)
       \/ \E c \in Channel, type \in BusType : AddChannel(c, type)
       \/ ChangeBuses

\* The state at the first start, before there is a session.
FirstInit ==
    /\ Init
    /\ names = [c \in {Main} |-> <<"Main">>]
    /\ solo = {} /\ chosen = NothingChosen /\ steps = 0

\* A session of two channels, sent to Main, and buses of both types.
LoadedInit ==
    LET one == Loaded.channels[1] two == Loaded.channels[2]
        mic == Loaded.buses[1] line == Loaded.buses[2] speakers == Loaded.buses[3]
        NamedBus(dir, n, type) == [name |-> DefaultName(dir, n, type), bus_type |-> type]
    IN  /\ \E type \in BusType : channels =
            [c \in {Main, one, two} |->
                [bus_type |-> IF c = one THEN type ELSE "stereo", in |-> Default,
                 out |-> IF c = Main THEN speakers ELSE Main]]
        /\ inputs = <<one, two>>
        /\ buses = [b \in {mic, line, speakers} |->
                CASE b = mic -> NamedBus("input", 1, "mono")
                  [] b = line -> NamedBus("input", 2, "stereo")
                  [] b = speakers -> NamedBus("output", 1, "stereo")]
        /\ device_inputs = <<mic, line>> /\ device_outputs = <<speakers>>
        /\ names = [c \in {Main, one, two} |->
                CASE c = Main -> <<"Main">> [] c = one -> <<"In", 1>> [] c = two -> <<"In", 2>>]
        /\ solo = {} /\ chosen = NothingChosen /\ steps = 0

StripInit == FirstInit \/ LoadedInit

StripSpec == StripInit /\ [][StripNext]_<<vars, stripVars, steps>>

-----------------------------------------------------------------------------
\* Each entry of a menu that was chosen is what the strip then shows.
ChoiceIsShown ==
    LET shown == IF chosen.dir = "input" THEN EditStrip(chosen.channel).input
                 ELSE EditStrip(chosen.channel).output
    IN  chosen.dir # "none" => shown.name = chosen.text /\ shown.state # "invalid"

\* As long as the routes have no cycle, the route a strip shows is one its menus
\* offer, or that of a missing bus, or of a bus that was renamed to what a
\* channel of the other type was waiting for.
ShownIsOffered ==
    ~RoutesHaveCycle(channels) =>
        \A c \in DOMAIN channels :
            LET in == channels[c].in out == channels[c].out menus == Menus(c)
            IN  /\ in \in Channel => in \in Range(menus.input_channels)
                /\ in \in Bus /\ buses[in].bus_type = channels[c].bus_type =>
                        in \in Range(menus.input_devices)
                /\ in = Default => EditStrip(c).default_input_is_valid
                /\ out \in Channel => out \in Range(menus.output_channels)
                /\ out \in Bus => out \in Range(menus.output_devices)

\* A channel is shown as not mixed exactly if the strip of the channel it sends
\* to shows another input than the mix.
NotMixedAgrees ==
    \A c \in DOMAIN channels :
        EditStrip(c).output.state = "not_mixed" <=>
            /\ channels[c].out \in Channel
            /\ EditStrip(channels[c].out).input.name # Mix

\* Of the channels that are shown with the same target none is muted by solo, or
\* else exactly those whose solo is off.
SoloAgrees ==
    \A c, d \in DOMAIN channels :
        channels[c].out = channels[d].out /\ PerformStrip(c).muted_by_solo =>
            PerformStrip(d).muted_by_solo <=> d \notin solo

StripsShowRoutes == ChoiceIsShown /\ ShownIsOffered /\ NotMixedAgrees /\ SoloAgrees
=============================================================================
