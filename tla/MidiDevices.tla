----------------------------- MODULE MidiDevices -----------------------------
(***************************************************************************)
(* MIDI input devices: the ALSA sequencer with its announcements, the      *)
(* device manager, midi_control_middleware that enables the devices again  *)
(* that were enabled before, and the map of the ports that the engine is   *)
(* built with.  A user action, the timer or the start of the program puts  *)
(* actions into the queue of the store; ports come and go between any two  *)
(* of them, and between two announcements that are read.                   *)
(*                                                                         *)
(* A device has a name of its own, and any free port when it is plugged.   *)
(***************************************************************************)
EXTENDS Naturals, Sequences, SequencesExt, FiniteSets

CONSTANTS
    Device,             \* by name, "client:port" of the device manager
    Port,               \* addresses of the sequencer
    Nothing,
    MaxPlugs, MaxRestarts   \* the bounds

ASSUME MidiAssumption ==
    /\ IsFiniteSet(Device) /\ IsFiniteSet(Port)
    /\ Nothing \notin Device /\ \A names \in SUBSET Device : names # Nothing

VARIABLES
    plugged, subscribed, announced,         \* the sequencer
    m_initial_updates, m_alsa_input_devices,    \* the device manager
    midi_devices,                           \* the state
    m_enabled_devices,                      \* of midi_control_middleware
    updates,                                \* read and not yet handled
    queue,                                  \* actions of the main thread
    handler,                                \* of the engine, if one runs
    saved,                                  \* names in the file, if there is one
    next_id, plugs, restarts,               \* the bounded counters
    wished, failed,                         \* what the user wants, and what
                                            \* could not be connected
    twice                                   \* a port is scanned and announced

kernelVars == <<plugged, subscribed, announced>>
managerVars == <<m_initial_updates, m_alsa_input_devices, next_id>>
wishVars == <<wished, failed>>
midiVars == <<kernelVars, managerVars, midi_devices, m_enabled_devices, updates,
              queue, handler, saved, plugs, restarts, wishVars, twice>>

NoFunction == [x \in {} |-> x]
EnabledNames(devices) ==
    {devices[id].name : id \in {i \in DOMAIN devices : devices[i].enabled}}

Do(what) == [do |-> what, id |-> 0, name |-> Nothing]
Activation(id, name) == [do |-> "activate", id |-> id, name |-> name]

-----------------------------------------------------------------------------
(* The sequencer. *)

Plug(d, p) ==
    /\ plugs < MaxPlugs /\ plugs' = plugs + 1
    /\ plugged[p] = Nothing /\ \A q \in Port : plugged[q] # d
    /\ plugged' = [plugged EXCEPT ![p] = d]
    /\ announced' = Append(announced, [event |-> "start", port |-> p])
    /\ UNCHANGED subscribed

\* A port that leaves takes its subscription with it.
Unplug(p) ==
    /\ plugged[p] # Nothing
    /\ plugged' = [plugged EXCEPT ![p] = Nothing]
    /\ subscribed' = subscribed \ {p}
    /\ announced' = Append(announced, [event |-> "exit", port |-> p])
    /\ UNCHANGED plugs

\* connect_input: a port can be subscribed once.
ConnectInput(p) == plugged[p] # Nothing /\ p \notin subscribed

\* disconnect_input: an error is only logged.
DisconnectInput(p) == subscribed' = subscribed \ {p}

-----------------------------------------------------------------------------
(* The device manager. *)

ScanInputDevices == {p \in Port : plugged[p] # Nothing}

\* The constructor subscribes to the announcements and then scans: a port that
\* starts in between is in both.
Scan ==
    /\ Head(queue) = Do("scan")
    /\ LET found == ScanInputDevices
       IN  /\ m_initial_updates' = [i \in 1 .. Cardinality(found) |->
                [port |-> SetToSeq(found)[i], name |-> plugged[SetToSeq(found)[i]]]]
           /\ twice' = (\E i \in DOMAIN announced :
                            announced[i].event = "start" /\ announced[i].port \in found)
    /\ queue' = Tail(queue)
    /\ UNCHANGED <<kernelVars, m_alsa_input_devices, next_id, midi_devices, m_enabled_devices,
                   updates, handler, saved, wishVars>>

Added(port, name) ==
    /\ m_alsa_input_devices' =
        [id \in DOMAIN m_alsa_input_devices \cup {next_id} |->
            IF id = next_id THEN port ELSE m_alsa_input_devices[id]]
    /\ updates' = Append(updates, [what |-> "added", id |-> next_id, name |-> name])
    /\ next_id' = next_id + 1

Removed(id) ==
    /\ m_alsa_input_devices' =
        [other \in DOMAIN m_alsa_input_devices \ {id} |-> m_alsa_input_devices[other]]
    /\ updates' = Append(updates, [what |-> "removed", id |-> id, name |-> Nothing])
    /\ UNCHANGED next_id

Irrelevant == UNCHANGED <<m_alsa_input_devices, updates, next_id>>

\* The name of a port is asked for when its announcement is read.
Read ==
    /\ Head(queue) = Do("refresh")
    /\ \/ /\ m_initial_updates # <<>>
          /\ m_initial_updates' = Tail(m_initial_updates)
          /\ Added(Head(m_initial_updates).port, Head(m_initial_updates).name)
          /\ UNCHANGED announced
       \/ /\ m_initial_updates = <<>> /\ announced # <<>>
          /\ announced' = Tail(announced)
          /\ LET port == Head(announced).port
                 ids == {id \in DOMAIN m_alsa_input_devices : m_alsa_input_devices[id] = port}
             IN  IF Head(announced).event = "start"
                 THEN IF plugged[port] = Nothing THEN Irrelevant ELSE Added(port, plugged[port])
                 ELSE IF ids = {} THEN Irrelevant ELSE \E id \in ids : Removed(id)
          /\ UNCHANGED m_initial_updates
    /\ UNCHANGED <<plugged, subscribed, midi_devices, m_enabled_devices, queue, handler, saved,
                   wishVars, twice>>

\* make_input_event_handler: of two ids of a port the engine keeps one.
InputEventHandlers ==
    {h \in [Range(m_alsa_input_devices) -> DOMAIN m_alsa_input_devices] :
        \A p \in DOMAIN h : m_alsa_input_devices[h[p]] = p}

\* process_cc_event: whose event the engine takes one from a port for.
EventsOf(port) ==
    IF handler # Nothing /\ port \in subscribed
    THEN {handler[p] : p \in {port} \cap DOMAIN handler} ELSE {}

-----------------------------------------------------------------------------
(* midi_control_middleware, on top of audio_engine_middleware. *)

\* update_midi_devices::reduce
UpdateMidiDevices(devices, update) ==
    IF update.what = "added"
    THEN [id \in DOMAIN devices \cup {update.id} |->
            IF id \in DOMAIN devices THEN devices[id]
            ELSE [name |-> update.name, enabled |-> FALSE]]
    ELSE [id \in DOMAIN devices \ {update.id} |-> devices[id]]

\* The first of the names that is this one is erased.
EraseName(names, name) ==
    LET it == CHOOSE i \in DOMAIN names :
                names[i] = name /\ \A j \in 1 .. (i - 1) : names[j] # name
    IN  [i \in 1 .. (Len(names) - 1) |-> IF i < it THEN names[i] ELSE names[i + 1]]

\* The removed devices are looked up in the state without them.
HandleReduced(enabled, update) ==
    CASE update.what = "added" /\ update.name \in Range(enabled.names) ->
            [names |-> EraseName(enabled.names, update.name),
             dispatched |-> Append(enabled.dispatched, Activation(update.id, update.name))]
      [] /\ update.what = "removed"
         /\ update.id \in DOMAIN midi_devices \cap DOMAIN m_alsa_input_devices
         /\ midi_devices[update.id].enabled ->
            [enabled EXCEPT !.names = Append(@, midi_devices[update.id].name)]
      [] OTHER -> enabled

\* process_device_update: the state is the one before the updates.
Handle(enabled, update) ==
    CASE update.what = "added" /\ update.name \in Range(enabled.names) ->
            [names |-> EraseName(enabled.names, update.name),
             dispatched |-> Append(enabled.dispatched, Activation(update.id, update.name))]
      [] /\ update.what = "removed" /\ update.id \in DOMAIN midi_devices
         /\ midi_devices[update.id].enabled ->
            [enabled EXCEPT !.names = Append(@, midi_devices[update.id].name)]
      [] OTHER -> enabled

\* What the updates that were read make of the devices, the names and the queue.
Updated ==
    LET after[n \in 0 .. Len(updates)] ==
            IF n = 0
            THEN [devices |-> midi_devices,
                  enabled |-> [names |-> m_enabled_devices, dispatched |-> <<>>]]
            ELSE [devices |-> UpdateMidiDevices(after[n - 1].devices, updates[n]),
                  enabled |-> Handle(after[n - 1].enabled, updates[n])]
    IN  after[Len(updates)]

\* The actions dispatched while one is processed follow those that wait.
RefreshMidiDevices ==
    /\ Head(queue) = Do("refresh") /\ m_initial_updates = <<>> /\ announced = <<>>
    /\ midi_devices' = Updated.devices
    /\ m_enabled_devices' = Updated.enabled.names
    /\ queue' = Tail(queue) \o Updated.enabled.dispatched
    /\ updates' = <<>>
    /\ UNCHANGED <<kernelVars, managerVars, handler, saved, wishVars, twice>>

LoadAppConfig ==
    /\ Head(queue) = Do("load")
    /\ queue' = IF saved = Nothing THEN Tail(queue) ELSE Append(Tail(queue), Do("apply"))
    /\ UNCHANGED <<kernelVars, managerVars, midi_devices, m_enabled_devices, updates, handler,
                   saved, wishVars, twice>>

\* A device action closes the device, and opens it again if that succeeds; the
\* engine is then rebuilt.
ReopenDevice == handler' \in InputEventHandlers \cup {Nothing}

Named(name) == {id \in DOMAIN midi_devices : midi_devices[id].name = name}

\* The names of devices that are not known wait; the list is then unique.
ApplyAppConfig ==
    /\ Head(queue) = Do("apply")
    /\ \E found \in {f \in [{n \in saved : Named(n) # {}} -> DOMAIN midi_devices] :
                        \A n \in DOMAIN f : f[n] \in Named(n)} :
          queue' = Tail(queue) \o SetToSeq({Activation(found[n], n) :
                n \in {m \in DOMAIN found : ~midi_devices[found[m]].enabled}})
    /\ m_enabled_devices' = SetToSeq(Range(m_enabled_devices) \cup {n \in saved : Named(n) = {}})
    /\ ReopenDevice
    /\ UNCHANGED <<kernelVars, managerVars, midi_devices, updates, saved, wishVars, twice>>

\* activate_input_device, and activate_midi_device::reduce if it succeeds.
ActivateMidiDevice(id, name) ==
    IF id \in DOMAIN m_alsa_input_devices /\ ConnectInput(m_alsa_input_devices[id])
    THEN /\ subscribed' = subscribed \cup {m_alsa_input_devices[id]}
         /\ midi_devices' = [midi_devices EXCEPT ![id].enabled = TRUE]
         /\ failed' = failed \ {name}
    ELSE /\ failed' = failed \cup {name}
         /\ UNCHANGED <<subscribed, midi_devices>>

DeactivateMidiDevice(id) ==
    /\ IF id \in DOMAIN m_alsa_input_devices THEN DisconnectInput(m_alsa_input_devices[id])
                                             ELSE UNCHANGED subscribed
    /\ midi_devices' = [midi_devices EXCEPT ![id].enabled = FALSE]
    /\ UNCHANGED failed

DeviceAction ==
    /\ \/ Head(queue).do = "activate" /\ ActivateMidiDevice(Head(queue).id, Head(queue).name)
       \/ Head(queue).do = "deactivate" /\ DeactivateMidiDevice(Head(queue).id)
    /\ ReopenDevice
    /\ queue' = Tail(queue)
    /\ UNCHANGED <<plugged, announced, managerVars, m_enabled_devices, updates, saved, wished,
                   twice>>

-----------------------------------------------------------------------------
(* What is dispatched while nothing else is processed. *)

Timer == queue' = <<Do("refresh")>> /\ UNCHANGED <<handler, wished>>

\* MidiDeviceConfig::changeEnabled
ChangeEnabled(id) ==
    /\ LET config == midi_devices[id]
       IN  IF config.enabled
           THEN /\ queue' = <<[do |-> "deactivate", id |-> id, name |-> config.name]>>
                /\ wished' = wished \ {config.name}
           ELSE /\ queue' = <<Activation(id, config.name)>>
                /\ wished' = wished \cup {config.name}
    /\ UNCHANGED handler

\* Any other change that rebuilds the engine, or its device failing.
EngineChanges ==
    /\ handler # Nothing
    /\ ReopenDevice
    /\ UNCHANGED <<queue, wished>>

Dispatch ==
    /\ queue = <<>>
    /\ Timer \/ (\E id \in DOMAIN midi_devices : ChangeEnabled(id)) \/ EngineChanges
    /\ UNCHANGED <<kernelVars, managerVars, midi_devices, m_enabled_devices, updates, saved,
                   failed, twice>>

-----------------------------------------------------------------------------
Started ==
    /\ subscribed' = {} /\ announced' = <<>>
    /\ m_initial_updates' = <<>> /\ m_alsa_input_devices' = NoFunction
    /\ midi_devices' = NoFunction /\ m_enabled_devices' = <<>> /\ updates' = <<>>
    /\ queue' = <<Do("scan"), Do("refresh"), Do("load")>>
    /\ handler' = Nothing
    /\ failed' = {} /\ twice' = FALSE /\ next_id' = 1

\* save_app_config
Quit ==
    /\ queue = <<>>
    /\ saved' = Range(m_enabled_devices) \cup EnabledNames(midi_devices)
    /\ wished' = IF twice THEN saved' ELSE wished \ failed

\* What the file does not have yet is forgotten.
Crash ==
    /\ UNCHANGED saved
    /\ wished' = IF saved = Nothing THEN {} ELSE saved

Restart ==
    /\ restarts < MaxRestarts /\ restarts' = restarts + 1
    /\ Quit \/ Crash
    /\ Started
    /\ UNCHANGED plugged

MidiInit ==
    /\ plugged = [p \in Port |-> Nothing] /\ subscribed = {} /\ announced = <<>>
    /\ m_initial_updates = <<>> /\ m_alsa_input_devices = NoFunction
    /\ midi_devices = NoFunction /\ m_enabled_devices = <<>> /\ updates = <<>>
    /\ queue = <<Do("scan"), Do("refresh"), Do("load")>>
    /\ handler = Nothing /\ saved = Nothing
    /\ next_id = 1 /\ plugs = 0 /\ restarts = 0
    /\ wished = {} /\ failed = {} /\ twice = FALSE

Hotplug ==
    /\ (\E d \in Device, p \in Port : Plug(d, p)) \/ (\E p \in Port : Unplug(p))
    /\ UNCHANGED <<managerVars, midi_devices, m_enabled_devices, updates, queue, handler, saved,
                   wishVars, twice>>

MainThread ==
    /\ queue # <<>>
    /\ Scan \/ Read \/ RefreshMidiDevices \/ LoadAppConfig \/ ApplyAppConfig \/ DeviceAction

MidiNext ==
    \/ Hotplug /\ UNCHANGED restarts
    \/ (MainThread \/ Dispatch) /\ UNCHANGED <<plugs, restarts>>
    \/ Restart /\ UNCHANGED plugs

MidiSpec == MidiInit /\ [][MidiNext]_midiVars

-----------------------------------------------------------------------------
\* A device that was enabled is enabled, or is awaited under its name: through
\* every unplugging, plugging in and restart, unless it had left again when it
\* was to be connected; and nothing else is enabled or awaited.  (A port that
\* is both scanned and announced has two ids, of which either may be removed.)
WishesAreKept ==
    queue = <<>> /\ ~twice =>
        LET kept == Range(m_enabled_devices) \cup EnabledNames(midi_devices)
        IN  wished \ failed \subseteq kept /\ kept \subseteq wished

\* Once the announcements are read, an enabled device is connected, and the
\* engine that runs knows its port under its id.
EnabledDevicesAreHeard ==
    queue = <<>> /\ announced = <<>> /\ ~twice =>
        \A id \in DOMAIN midi_devices :
            midi_devices[id].enabled =>
                LET port == m_alsa_input_devices[id]
                IN  port \in subscribed /\ (handler # Nothing => EventsOf(port) = {id})

\* What the user enabled works, or is waited for.
EnabledDevicesWork == WishesAreKept /\ EnabledDevicesAreHeard
=============================================================================
