---------------------------- MODULE MixerRouting ----------------------------
(***************************************************************************)
(* The part of the state that says where the audio goes: the channels of   *)
(* the mixer with the address each takes its input from and the one it     *)
(* sends to, the device buses, and the lists that order them.  The actions *)
(* are the reducers of the runtime, enabled when the user interface offers *)
(* them.  An address is the default, a channel, a device bus, or the name  *)
(* of a device bus that is missing.  Effect chains and parameters are left *)
(* out, and so is the name of a channel, by which no route is found here.  *)
(***************************************************************************)
EXTENDS IoGraph, Naturals, Sequences, Functions

CONSTANTS
    Channel,    \* ids of mixer channels; a deleted channel's id may be reused
    Main,       \* the channel that is always there
    Bus,        \* ids of device buses, reused in the same way
    UserName,   \* names the user may give to a bus
    Default     \* the address of no device and no channel

BusType == {"mono", "stereo"}
Direction == {"input", "output"}

\* "In 3 M", "Speaker 2": the name a new bus gets from the length of its list.
DefaultName(dir, n, type) ==
    IF dir = "input" THEN <<"In", n, type>> ELSE <<"Speaker", n>>

ASSUME MainAssumption == Main \in Channel

BusName == UserName \cup ({"In"} \X Nat \X BusType) \cup ({"Speaker"} \X Nat)

ASSUME AddressAssumption ==
    /\ Default \notin Channel \cup Bus /\ Default \notin BusName
    /\ Channel \cap Bus = {}
    /\ \A a \in Channel \cup Bus : a \notin BusName

VARIABLES
    channels,   \* the mixer channels: bus_type, in and out
    inputs,     \* the order of the channels other than Main
    buses,      \* the device buses: name and bus_type
    device_inputs, device_outputs   \* the lists of the device buses

vars == <<channels, inputs, buses, device_inputs, device_outputs>>
mixerVars == <<channels, inputs>>
deviceVars == <<buses, device_inputs, device_outputs>>

Init ==
    /\ channels = [c \in {Main} |-> [bus_type |-> "stereo", in |-> Default, out |-> Default]]
    /\ inputs = <<>>
    /\ buses = <<>>
    /\ device_inputs = <<>>
    /\ device_outputs = <<>>

-----------------------------------------------------------------------------
\* The function f with k, a new key, mapped to v; f without the key k.
With(f, k, v) == [x \in DOMAIN f \cup {k} |-> IF x = k THEN v ELSE f[x]]
Without(f, k) == [x \in DOMAIN f \ {k} |-> f[x]]

\* remove_erase, of a list that holds nothing twice.
Erased(s, e) ==
    IF e \notin Range(s) THEN s
    ELSE LET at == CHOOSE i \in DOMAIN s : s[i] = e
         IN  [i \in 1 .. Len(s) - 1 |-> IF i < at THEN s[i] ELSE s[i + 1]]

-----------------------------------------------------------------------------
\* Adding and removing channels.
Taken(b) == \E c \in DOMAIN channels : channels[c].in = b

\* The input that is found for a new channel: the first free bus of its type.
AutoInput(type) ==
    LET free == {i \in DOMAIN device_inputs :
                    /\ ~Taken(device_inputs[i])
                    /\ buses[device_inputs[i]].bus_type = type}
    IN  IF free = {} THEN {Default}
        ELSE {device_inputs[i] : i \in {i \in free : \A j \in free : i <= j}}

\* Mutant of AddMixerChannel: the channel is put into the list of Main, too.
AddMixerChannelTwice(c, type, auto_assign_input) ==
    \E in \in IF auto_assign_input THEN AutoInput(type) ELSE {Default} :
        /\ c \notin DOMAIN channels
        /\ channels' = With(channels, c, [bus_type |-> type, in |-> in, out |-> Main])
        /\ inputs' = inputs \o <<c, Main>>
        /\ UNCHANGED deviceVars

AddMixerChannel(c, type, auto_assign_input) ==
    \E in \in IF auto_assign_input THEN AutoInput(type) ELSE {Default} :
        /\ c \notin DOMAIN channels
        /\ channels' = With(channels, c, [bus_type |-> type, in |-> in, out |-> Main])
        /\ inputs' = Append(inputs, c)
        /\ UNCHANGED deviceVars

\* The channel ch with other addresses.
Route(ch, in, out) == [bus_type |-> ch.bus_type, in |-> in, out |-> out]

\* The address a, in the directions ds, becomes b in every channel of chs.
Redirect(chs, ds, a, b) ==
    LET To(dir, addr) == IF dir \in ds /\ addr = a THEN b ELSE addr
    IN  [c \in DOMAIN chs |->
            Route(chs[c], To("input", chs[c].in), To("output", chs[c].out))]

\* Mutant of RemoveMixerChannel: what was sent to the channel stays so.
RemoveMixerChannelInputsOnly(c) ==
    /\ c \in DOMAIN channels \ {Main}
    /\ channels' = Redirect(Without(channels, c), {"input"}, c, Default)
    /\ inputs' = Erased(inputs, c)
    /\ UNCHANGED deviceVars

RemoveMixerChannel(c) ==
    /\ c \in DOMAIN channels \ {Main}
    /\ channels' = Redirect(Without(channels, c), Direction, c, Default)
    /\ inputs' = Erased(inputs, c)
    /\ UNCHANGED deviceVars

Swapped(s, i, j) == [s EXCEPT ![i] = s[j], ![j] = s[i]]

MoveMixerChannelLeft(i) ==
    /\ i \in 2 .. Len(inputs)
    /\ inputs' = Swapped(inputs, i, i - 1)
    /\ UNCHANGED <<channels, deviceVars>>

MoveMixerChannelRight(i) ==
    /\ i \in 1 .. Len(inputs) - 1
    /\ inputs' = Swapped(inputs, i, i + 1)
    /\ UNCHANGED <<channels, deviceVars>>

-----------------------------------------------------------------------------
\* Routing.  The user interface offers the channels that leave the routes
\* without a cycle.
RoutesHaveCycle(chs) == HasCycle(IoChildren(chs, Default))

\* The channels after c is given another input, or output.
InputSet(c, a) == [channels EXCEPT ![c] = Route(@, a, @.out)]
OutputSet(c, a) == [channels EXCEPT ![c] = Route(@, @.in, a)]

\* Mutant of ValidSource: the cycles that begin with the new route only.
ValidSourceNotMutual(c, s) ==
    /\ channels[c].bus_type # "mono"
    /\ s # c /\ channels[s].in # c

ValidSource(c, s) ==
    /\ channels[c].bus_type # "mono"
    /\ s # c
    /\ ~RoutesHaveCycle(InputSet(c, s))

ValidTarget(c, t) ==
    /\ channels[t].bus_type # "mono"
    /\ t # c
    /\ ~RoutesHaveCycle(OutputSet(c, t))

DefaultSourceValid(c) == ~RoutesHaveCycle(InputSet(c, Default))

InputDevices(type) == {b \in Range(device_inputs) : buses[b].bus_type = type}
OutputDevices == {b \in Range(device_outputs) : buses[b].bus_type = "stereo"}

ChangeInput(c, a) ==
    /\ \/ a = Default /\ DefaultSourceValid(c)
       \/ a \in InputDevices(channels[c].bus_type)
       \/ a \in DOMAIN channels /\ ValidSource(c, a)
    /\ channels' = InputSet(c, a)
    /\ UNCHANGED <<inputs, deviceVars>>

ChangeOutput(c, a) ==
    /\ \/ a = Default
       \/ a \in OutputDevices
       \/ a \in DOMAIN channels /\ ValidTarget(c, a)
    /\ channels' = OutputSet(c, a)
    /\ UNCHANGED <<inputs, deviceVars>>

-----------------------------------------------------------------------------
\* Device buses.  A bus that appears under a name takes over the channels that
\* wait for that name.
AddBus(b, dir, type) ==
    LET list == IF dir = "input" THEN device_inputs ELSE device_outputs
        name == DefaultName(dir, Len(list) + 1, type)
        resolved == Redirect(channels, {dir}, name, b)
    IN  /\ b \notin DOMAIN buses
        /\ dir = "output" => type = "stereo"
        /\ buses' = With(buses, b, [name |-> name, bus_type |-> type])
        /\ channels' =
            IF dir = "output" /\ resolved[Main].out = Default
            THEN [resolved EXCEPT ![Main] = Route(@, @.in, b)] ELSE resolved
        /\ device_inputs' =
            IF dir = "input" THEN Append(device_inputs, b) ELSE device_inputs
        /\ device_outputs' =
            IF dir = "output" THEN Append(device_outputs, b) ELSE device_outputs
        /\ UNCHANGED inputs

DeleteBus(b) ==
    /\ b \in DOMAIN buses
    /\ channels' = Redirect(channels, Direction, b, buses[b].name)
    /\ buses' = Without(buses, b)
    /\ device_inputs' = Erased(device_inputs, b)
    /\ device_outputs' = Erased(device_outputs, b)
    /\ UNCHANGED inputs

\* Mutant of SetDeviceBusName: the routes are left alone.
SetDeviceBusNameOnly(b, name) ==
    /\ b \in DOMAIN buses
    /\ buses' = [buses EXCEPT ![b] = [name |-> name, bus_type |-> @.bus_type]]
    /\ UNCHANGED <<channels, inputs, device_inputs, device_outputs>>

SetDeviceBusName(b, name) ==
    LET dir == IF b \in Range(device_inputs) THEN "input" ELSE "output"
    IN  /\ b \in DOMAIN buses
        /\ buses' = [buses EXCEPT ![b] = [name |-> name, bus_type |-> @.bus_type]]
        /\ channels' = Redirect(channels, {dir}, name, b)
        /\ UNCHANGED <<inputs, device_inputs, device_outputs>>

-----------------------------------------------------------------------------
Next ==
    \/ \E c \in Channel, type \in BusType, auto_assign_input \in BOOLEAN :
        AddMixerChannel(c, type, auto_assign_input)
    \/ \E c \in DOMAIN channels : RemoveMixerChannel(c)
    \/ \E i \in DOMAIN inputs : MoveMixerChannelLeft(i) \/ MoveMixerChannelRight(i)
    \/ \E c \in DOMAIN channels, a \in {Default} \cup Channel \cup Bus :
        ChangeInput(c, a) \/ ChangeOutput(c, a)
    \/ \E b \in Bus, dir \in Direction, type \in BusType : AddBus(b, dir, type)
    \/ \E b \in Bus : DeleteBus(b)
    \/ \E b \in Bus, name \in UserName : SetDeviceBusName(b, name)

Spec == Init /\ [][Next]_vars

-----------------------------------------------------------------------------
Address == {Default} \cup Channel \cup Bus \cup BusName

\* The type of each variable; the main channel is always there, and stereo.
TypeOK ==
    /\ Main \in DOMAIN channels /\ DOMAIN channels \subseteq Channel
    /\ channels \in [DOMAIN channels -> [bus_type : BusType, in : Address, out : Address]]
    /\ channels[Main].bus_type = "stereo"
    /\ inputs \in Seq(Channel)
    /\ DOMAIN buses \subseteq Bus
    /\ buses \in [DOMAIN buses -> [name : BusName, bus_type : BusType]]
    /\ device_inputs \in Seq(Bus)
    /\ device_outputs \in Seq(Bus)

\* Every channel but Main is once in the list the mixer shows; every device
\* bus is once in one of the lists of devices, and not in the other.
ListsAgree ==
    /\ IsInjective(inputs) /\ Range(inputs) = DOMAIN channels \ {Main}
    /\ IsInjective(device_inputs) /\ IsInjective(device_outputs)
    /\ Range(device_inputs) \cap Range(device_outputs) = {}
    /\ Range(device_inputs) \cup Range(device_outputs) = DOMAIN buses

\* An address names something that exists, and in its own direction: what the
\* engine looks up to connect a channel is there.
RoutesResolve ==
    \A c \in DOMAIN channels :
        /\ channels[c].in \in Channel => channels[c].in \in DOMAIN channels
        /\ channels[c].in \in Bus => channels[c].in \in Range(device_inputs)
        /\ channels[c].out \in Channel => channels[c].out \in DOMAIN channels
        /\ channels[c].out \in Bus => channels[c].out \in Range(device_outputs)

\* "mono mixer channels can't have input channels" and "can't be targets",
\* except that a channel is always created with Main, stereo, as its target.
MonoTakesNoChannel ==
    \A c \in DOMAIN channels : channels[c].bus_type = "mono" =>
        /\ channels[c].in \notin Channel
        /\ \A d \in DOMAIN channels : channels[d].out # c

\* No step but the removal of a channel closes a cycle of routes.
OnlyRemovalClosesCycles ==
    [][ RoutesHaveCycle(channels') /\ ~RoutesHaveCycle(channels)
            => DOMAIN channels \ DOMAIN channels' # {} ]_vars

\* A bus that appears, or is renamed, leaves no channel waiting for its name in
\* its direction, and takes nothing from the other direction.
NamedBusTakesWaiting ==
    [][ \A b \in DOMAIN buses' :
            (b \notin DOMAIN buses \/ buses[b].name # buses'[b].name) =>
                \A c \in DOMAIN channels' :
                    /\ b \in Range(device_inputs') =>
                        /\ channels'[c].in # buses'[b].name
                        /\ channels'[c].out = buses'[b].name
                            => channels[c].out = buses'[b].name
                    /\ b \in Range(device_outputs') =>
                        /\ channels'[c].out # buses'[b].name
                        /\ channels'[c].in = buses'[b].name
                            => channels[c].in = buses'[b].name ]_vars

\* What the engine's graph is built on, and asserts: no cycle of routes.
RoutesAreAcyclic == ~RoutesHaveCycle(channels)
=============================================================================
