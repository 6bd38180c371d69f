-------------------------- MODULE DeviceSelection --------------------------
(***************************************************************************)
(* The audio devices: what audio_engine_middleware does with the actions   *)
(* that choose a device or its configuration.  Each of them closes the     *)
(* device, asks the kernel again what the selected devices can do, and     *)
(* opens them with what both of them can.  And the buses, whose channels   *)
(* are channels of the selected device.                                    *)
(*                                                                         *)
(* The devices themselves are external: what each of them refines to is    *)
(* given, as a set of configurations <<rate, period size, period count>>.  *)
(* A rate, size or count of 0 is not valid.                                *)
(***************************************************************************)
EXTENDS Integers, Sequences, SequencesExt, FiniteSetsExt

CONSTANTS
    Input, Output,      \* all devices there are, of each direction
    Supported,          \* the configurations that a device can be set to
    NumChannels,        \* the most channels that a device can be set to
    Confs,              \* the configuration files that the program starts with
    MaxPlugs,           \* bound on the devices plugged and unplugged
    MaxBuses            \* bound on the buses

Dir == {"in", "out"}
npos == -1

\* A bus, in the state and in a file; npos is the index of no channel.
Bus == [type : {"mono", "stereo"}, left : Nat \cup {npos}, right : Nat \cup {npos}]

\* There are finitely many devices, and the buses of a file are buses.
ASSUME DevicesAssumption ==
    /\ IsFiniteSet(Input) /\ IsFiniteSet(Output)
    /\ Supported \in [Input \cup Output -> SUBSET (Nat \X Nat \X Nat)]
    /\ NumChannels \in [Input \cup Output -> Nat]
    /\ \A conf \in Confs : conf.buses \in [Dir -> Seq(Bus)]

VARIABLES
    plugged,            \* the devices that are there
    started,            \* the configuration file has been read
    pcm_devices,        \* the lists of devices, of each direction
    selected,           \* the index and the hw_params of each direction
    pcm_config,         \* <<sample_rate, period_size, period_count>>
    buses,              \* the buses, of each direction
    m_device,           \* the device that is open: its parts and configuration
    terminated,         \* an exception has left the store
    plugs               \* the bounded counter

deviceVars ==
    <<plugged, started, pcm_devices, selected, pcm_config, buses, m_device, terminated, plugs>>

Closed == [in |-> "", out |-> "", config |-> <<0, 0, 0>>, channels |-> [dir \in Dir |-> 0]]

-----------------------------------------------------------------------------
\* get_hw_params: the kernel refines the configurations that a device can be
\* set to by the rate and by the size that are given, if it has them.
ValuesOf(configs, field) == {c[field] : c \in configs}

RefinedBy(configs, field, value) ==
    IF value \in ValuesOf(configs, field) THEN {c \in configs : c[field] = value} ELSE configs

HwParams(device, rate, size) ==
    LET of_rate == RefinedBy(Supported[device], 1, rate)
        of_size == RefinedBy(of_rate, 2, size)
    IN  [num_channels |-> NumChannels[device],
         sample_rates |-> ValuesOf(Supported[device], 1),
         period_sizes |-> ValuesOf(of_rate, 2),
         period_counts |-> ValuesOf(of_size, 3)]

NoHwParams == [num_channels |-> 0, sample_rates |-> {}, period_sizes |-> {}, period_counts |-> {}]

\* sample_rates, period_sizes and period_counts: what both devices can.
Common(hw, values) == hw["in"][values] \cap hw["out"][values]

\* The lists of preferred values ascend.
Ascending(values) == SetToSortSeq(values, <)

\* find_or_get_first
NextValue(values, current) ==
    IF current \in values THEN current ELSE IF values = {} THEN 0 ELSE Min(values)

IndexOf(list, device) ==
    IF device \in ToSet(list) THEN SelectInSeq(list, LAMBDA d : d = device) ELSE npos

\* make_update_devices_action finds the devices in the new lists.
NextDevice(new_devices, index) ==
    [dir \in Dir |-> IF index[dir] = npos THEN npos
                     ELSE IndexOf(new_devices[dir], pcm_devices[dir][index[dir]])]

\* It asks for the parameters of those it has found.
NextHwParams(new_devices, index, rate, size) ==
    [dir \in Dir |-> IF index[dir] = npos THEN NoHwParams
                     ELSE HwParams(new_devices[dir][index[dir]], rate, size)]

\* A device that is not there cannot be asked: the exception is not caught.
Throws(new_devices, index) ==
    \E dir \in Dir : index[dir] # npos /\ new_devices[dir][index[dir]] \notin plugged

-----------------------------------------------------------------------------
\* update_devices: channels that the selected device does not have are gone.
UpdateChannel(ch, num_chs) == IF ch >= num_chs THEN npos ELSE ch

UpdateChannels(bus, num_chs) ==
    [bus EXCEPT !.left = UpdateChannel(@, num_chs), !.right = UpdateChannel(@, num_chs)]

\* Mutant: the channels are checked against the device that was selected before.
UpdateBusesEarly(list, hw) ==
    [dir \in Dir |-> [i \in DOMAIN list[dir] |->
        UpdateChannels(list[dir][i], selected[dir].hw_params.num_channels)]]

UpdateBuses(list, hw) ==
    [dir \in Dir |-> [i \in DOMAIN list[dir] |->
        UpdateChannels(list[dir][i], hw[dir].num_channels)]]

\* The rate, the size and the count are chosen one after the other, each from
\* what the devices can with those before it.
UpdateDevices(new_devices, current_index, current, list) ==
    LET index == NextDevice(new_devices, current_index)
        hw0 == NextHwParams(new_devices, index, 0, 0)
        rate == NextValue(Common(hw0, "sample_rates"), current[1])
        hw1 == IF rate # 0 THEN NextHwParams(new_devices, index, rate, 0) ELSE hw0
        size == NextValue(Common(hw1, "period_sizes"), current[2])
        hw2 == IF size # 0 THEN NextHwParams(new_devices, index, rate, size) ELSE hw1
        count == NextValue(Common(hw2, "period_counts"), current[3])
    IN  /\ ~Throws(new_devices, index)
        /\ pcm_devices' = new_devices
        /\ selected' = [dir \in Dir |-> [index |-> index[dir], hw_params |-> hw2[dir]]]
        /\ pcm_config' = <<rate, size, count>>
        /\ buses' = UpdateBuses(list, hw2)

\* set_hw_params throws unless the device can be set to what is asked for.
CanBeSet(device, configuration) == configuration \in Supported[device]

\* open_device and start_engine; make_device may fail for reasons of its own.
OpenDevice ==
    \/ m_device' = Closed
    \/ /\ \A dir \in Dir : selected'[dir].index # npos
       /\ 0 \notin {pcm_config'[1], pcm_config'[2], pcm_config'[3]}
       /\ LET in == pcm_devices'["in"][selected'["in"].index]
              out == pcm_devices'["out"][selected'["out"].index]
          IN  /\ in \in plugged /\ out \in plugged
              /\ m_device' = [in |-> in, out |-> out, config |-> pcm_config',
                              channels |-> [dir \in Dir |-> selected'[dir].hw_params.num_channels]]

\* A device action that asks for the parameters of these devices.
DeviceAction(new_devices, index, current, list) ==
    \/ /\ ~terminated
       /\ UpdateDevices(new_devices, index, current, list)
       /\ OpenDevice
       /\ UNCHANGED terminated
    \/ /\ ~terminated /\ Throws(new_devices, NextDevice(new_devices, index))
       /\ terminated' = TRUE /\ m_device' = Closed
       /\ UNCHANGED <<pcm_devices, selected, pcm_config, buses>>

Index == [dir \in Dir |-> selected[dir].index]

\* io_descriptors: the devices of all sound cards, in any order.
IoDescriptors ==
    {[in |-> inputs, out |-> outputs] :
        inputs \in SetToSeqs(plugged \cap Input), outputs \in SetToSeqs(plugged \cap Output)}

RefreshDevices ==
    /\ \E new_devices \in IoDescriptors : DeviceAction(new_devices, Index, pcm_config, buses)
    /\ UNCHANGED <<plugged, started, plugs>>

InitiateDeviceSelection(dir, index) ==
    /\ index \in DOMAIN pcm_devices[dir]
    /\ DeviceAction(pcm_devices, [Index EXCEPT ![dir] = index], pcm_config, buses)
    /\ UNCHANGED <<plugged, started, plugs>>

\* A list of choices as the selectors show it.
Offered(values) == Ascending(Common([dir \in Dir |-> selected[dir].hw_params], values))

SelectSampleRate(index) ==
    /\ index \in DOMAIN Offered("sample_rates")
    /\ DeviceAction(pcm_devices, Index,
                    [pcm_config EXCEPT ![1] = Offered("sample_rates")[index]], buses)
    /\ UNCHANGED <<plugged, started, plugs>>

SelectPeriodSize(index) ==
    /\ index \in DOMAIN Offered("period_sizes")
    /\ DeviceAction(pcm_devices, Index,
                    [pcm_config EXCEPT ![2] = Offered("period_sizes")[index]], buses)
    /\ UNCHANGED <<plugged, started, plugs>>

SelectPeriodCount(index) ==
    /\ index \in DOMAIN Offered("period_counts")
    /\ DeviceAction(pcm_devices, Index,
                    [pcm_config EXCEPT ![3] = Offered("period_counts")[index]], buses)
    /\ UNCHANGED <<plugged, started, plugs>>

-----------------------------------------------------------------------------
\* The buses: [type, left, right].

\* The buses of the file are added, an output always as a stereo bus.
BusConfigs(conf) ==
    [conf.buses EXCEPT !["out"] = [i \in DOMAIN @ |-> [@[i] EXCEPT !.type = "stereo"]]]

\* load_app_config, once: the devices are found by their names.
LoadAppConfig(conf) ==
    /\ ~started /\ started' = TRUE
    /\ DeviceAction(pcm_devices,
            [dir \in Dir |-> IndexOf(pcm_devices[dir], conf.device_name[dir])], conf.config,
            BusConfigs(conf))
    /\ UNCHANGED <<plugged, plugs>>

\* There is no such file.
LoadNothing ==
    /\ ~started /\ started' = TRUE
    /\ UNCHANGED <<plugged, pcm_devices, selected, pcm_config, buses, m_device, terminated, plugs>>

Assigned(list) == UNION {{list[i].left, list[i].right} : i \in DOMAIN list}

Unassigned(dir) == (0 .. selected[dir].hw_params.num_channels - 1) \ Assigned(buses[dir])

LeastOr(channels) == IF channels = {} THEN npos ELSE Min(channels)

\* default_channels: the first ones that no bus has.
DefaultChannels(dir, type) ==
    LET left == LeastOr(Unassigned(dir))
    IN  [type |-> type, left |-> left,
         right |-> IF type = "stereo" THEN LeastOr(Unassigned(dir) \ {left}) ELSE left]

AddBus(dir, type) ==
    /\ dir = "out" => type = "stereo"
    /\ Len(buses["in"]) + Len(buses["out"]) < MaxBuses
    /\ buses' = [buses EXCEPT ![dir] = Append(@, DefaultChannels(dir, type))]
    /\ UNCHANGED <<plugged, started, pcm_devices, selected, pcm_config, m_device, terminated,
                   plugs>>

\* The list offers no channel, and those of the device.
SelectBusChannel(dir, i, side, channel) ==
    /\ i \in DOMAIN buses[dir]
    /\ channel \in -1 .. selected[dir].hw_params.num_channels - 1
    /\ side = "mono" <=> buses[dir][i].type = "mono"
    /\ LET bus == buses[dir][i]
       IN  buses' = [buses EXCEPT ![dir][i] =
                [type |-> bus.type,
                 left |-> IF side \in {"mono", "left"} THEN channel ELSE bus.left,
                 right |-> IF side \in {"mono", "right"} THEN channel ELSE bus.right]]
    /\ UNCHANGED <<plugged, started, pcm_devices, selected, pcm_config, m_device, terminated,
                   plugs>>

-----------------------------------------------------------------------------
\* A device is plugged, or unplugged: then what is open fails.
Plug(device) ==
    /\ plugs < MaxPlugs /\ plugs' = plugs + 1
    /\ plugged' = IF device \in plugged THEN plugged \ {device} ELSE plugged \cup {device}
    /\ UNCHANGED <<started, pcm_devices, selected, pcm_config, buses, m_device, terminated>>

\* The program has listed the devices, none is selected yet.
DevicesInit ==
    /\ plugged = Input \cup Output
    /\ started = FALSE /\ terminated = FALSE /\ plugs = 0
    /\ pcm_devices \in IoDescriptors
    /\ selected = [dir \in Dir |-> [index |-> npos, hw_params |-> NoHwParams]]
    /\ pcm_config = <<0, 0, 0>>
    /\ buses = [dir \in Dir |-> <<>>]
    /\ m_device = Closed

UserAction ==
    \/ RefreshDevices
    \/ \E dir \in Dir, index \in 1 .. Max({Cardinality(Input), Cardinality(Output)}) :
            InitiateDeviceSelection(dir, index)
    \/ \E index \in 1 .. 2 :
            SelectSampleRate(index) \/ SelectPeriodSize(index) \/ SelectPeriodCount(index)
    \/ \E dir \in Dir, type \in {"mono", "stereo"} : AddBus(dir, type)
    \/ \E dir \in Dir, i \in 1 .. MaxBuses, side \in {"mono", "left", "right"} :
            \E channel \in -1 .. Max({NumChannels[d] : d \in Input \cup Output}) :
                SelectBusChannel(dir, i, side, channel)

DevicesNext ==
    \/ \E conf \in Confs : LoadAppConfig(conf)
    \/ LoadNothing
    \/ started /\ ~terminated /\ UserAction
    \/ \E device \in Input \cup Output : Plug(device)

DevicesSpec == DevicesInit /\ [][DevicesNext]_deviceVars
-----------------------------------------------------------------------------
\* The device that is open runs a configuration that both of its parts can be
\* set to, which is asked for in three steps, and it is the selected one.
OpenDeviceCanBeSet ==
    m_device # Closed =>
        /\ CanBeSet(m_device.in, m_device.config) /\ CanBeSet(m_device.out, m_device.config)
        /\ \A dir \in Dir : m_device[dir] = pcm_devices[dir][selected[dir].index]

\* No bus has a channel that the selected device lacks, whichever device was
\* selected when it was chosen; the engine takes it for an index.
BusChannelsExist ==
    \A dir \in Dir : \A i \in DOMAIN buses[dir] :
        {buses[dir][i].left, buses[dir][i].right}
            \subseteq -1 .. selected[dir].hw_params.num_channels - 1

\* Device, configuration and buses fit to each other.
SelectionFits == OpenDeviceCanBeSet /\ BusChannelsExist
=============================================================================
