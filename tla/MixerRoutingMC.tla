--------------------------- MODULE MixerRoutingMC ---------------------------
(***************************************************************************)
(* Model checking of MixerRouting with two channels beside the main one    *)
(* and a device bus.  And, as the other subjects of the run,               *)
(* SessionRestore and MidiDevices.                                         *)
(***************************************************************************)
EXTENDS MixerRouting, MidiDevices, TLC

\* A user can give a bus the name that another bus, gone or still there, has.
MCUserName == {<<"In", 1, "mono">>, <<"Speaker", 1>>}

\* No state of the other subjects holds an id of a channel or a bus.
Symmetry == Permutations(Channel \ {Main}) \cup Permutations(Bus)

-----------------------------------------------------------------------------
(***************************************************************************)
(* SessionRestore for a mixer of Main and two channels: one family of      *)
(* states in which the routes, the names of the channels and those of the  *)
(* device buses vary, one in which the effects and the MIDI controls do.   *)
(***************************************************************************)

CONSTANTS tool, amp, NoControl, knob, slider

VARIABLES
    sr_phase, sr_channels, sr_buses, sr_midi, sr_plugins,
    sr_config_file, sr_session_file, sr_fresh

SrDefault == <<"default">>
SrFx(type, preset, loaded, control) ==
    [type |-> type, preset |-> preset, loaded |-> loaded, midi |-> control]

SrChannel(name, bus_type, in, out, parameter, fx_chain) ==
    [name |-> name, bus_type |-> bus_type, in |-> in, out |-> out,
     parameter |-> parameter, fx_chain |-> fx_chain]

SrBus(name, dir, ch) == [name |-> name, dir |-> dir, ch |-> ch]

\* A mixer of Main and two channels.
SrMixer(main, one, two) == [i \in 0 .. 2 |-> IF i = 0 THEN main ELSE IF i = 1 THEN one ELSE two]

\* The channel sends to Main or to the second one, which takes what is sent to
\* it, Main, a bus, or waits for one.
SrRoutes ==
    {[channels |-> SrMixer(
          SrChannel("Main", "stereo", SrDefault, main_out, 0, <<>>),
          SrChannel("a", "mono", one_in, one_out, 1, <<>>),
          SrChannel(name, "stereo", two_in, two_out, 2, <<>>)),
      buses |-> <<SrBus("Mic", "input", 1), SrBus(speaker, "output", 2)>>,
      midi |-> <<>>] :
        name \in {"a", "b"}, speaker \in {"Mic", "Speaker"},
        main_out \in {SrDefault, <<"bus", 2>>},
        one_in \in {SrDefault, <<"bus", 1>>, <<"missing", "Mic">>},
        one_out \in {<<"channel", 0>>, <<"channel", 2>>, <<"bus", 2>>},
        two_in \in {SrDefault, <<"channel", 1>>, <<"bus", 1>>},
        two_out \in {SrDefault, <<"channel", 0>>, <<"missing", "Old">>}}

\* The effects of a channel, and the controls they, or the channel, have.
SrMidis ==
    {m \in UNION {[P -> {knob, slider}] : P \in SUBSET {<<0>>, <<1>>, <<1, 1>>, <<1, 2>>}} :
        \A p, q \in DOMAIN m : m[p] = m[q] => p = q}

SrEffects ==
    {[channels |-> SrMixer(
          SrChannel("Main", "stereo", SrDefault, SrDefault, 1, <<>>),
          SrChannel("a", "stereo", SrDefault, <<"channel", 0>>, 1, chain),
          SrChannel("b", "stereo", <<"channel", 1>>, <<"channel", 0>>, 0, <<>>)),
      buses |-> <<>>, midi |-> m] :
        chain \in {<<SrFx(tool, 1, TRUE, NoControl), SrFx(amp, 2, TRUE, NoControl)>>,
                   <<SrFx(amp, 0, TRUE, NoControl), SrFx(amp, 1, TRUE, NoControl)>>},
        m \in SrMidis}

SR == INSTANCE SessionRestore WITH
    phase <- sr_phase, channels <- sr_channels, buses <- sr_buses, midi <- sr_midi,
    plugins <- sr_plugins, config_file <- sr_config_file,
    session_file <- sr_session_file, fresh <- sr_fresh,
    Starts <- SrRoutes \cup SrEffects, Internal <- {tool}, Plugin <- {amp},
    None <- NoControl

srVars ==
    <<sr_phase, sr_channels, sr_buses, sr_midi, sr_plugins,
      sr_config_file, sr_session_file, sr_fresh>>

\* What SessionRestore keeps while another part is the subject.
SrParked ==
    /\ sr_phase = "parked" /\ sr_channels = SR!InitialChannels
    /\ sr_buses = <<>> /\ sr_midi = <<>> /\ sr_plugins = {}
    /\ sr_config_file = <<>> /\ sr_session_file = <<>> /\ sr_fresh = FALSE

\* A start brings back the mixer that was saved last, the settings of plugins
\* that are missing now included, whatever is missing in this run or was in the
\* one that saved it; and no channel waits for a device bus that is there.
SessionComesBack == SR!SessionComesBack

-----------------------------------------------------------------------------
\* MidiDevices has two devices and two ports, so that one can come back at its
\* own port or at another, or be followed by the other one at its port before
\* the announcement of that is read.

VARIABLE subject    \* which of them is run; the others rest

mcVars == <<subject, vars, srVars, midiVars>>

RoutesInit == Init /\ MidiInit /\ subject = "routes" /\ SrParked

MCInit ==
    \/ RoutesInit
    \/ Init /\ MidiInit /\ subject = "session" /\ SR!Init
    \/ Init /\ MidiInit /\ subject = "midi" /\ SrParked

MCNext ==
    /\ UNCHANGED subject
    /\ \/ subject = "routes" /\ Next /\ UNCHANGED <<srVars, midiVars>>
       \/ subject = "session" /\ SR!Next /\ UNCHANGED <<vars, midiVars>>
       \/ subject = "midi" /\ MidiNext /\ UNCHANGED <<vars, srVars>>

MCSpec == MCInit /\ [][MCNext]_mcVars
MCRoutesSpec == RoutesInit /\ [][MCNext]_mcVars
=============================================================================
