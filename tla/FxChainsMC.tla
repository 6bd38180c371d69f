----------------------------- MODULE FxChainsMC -----------------------------
(***************************************************************************)
(* Model checking of FxChains.  The bounds are in the configurations: two  *)
(* modules in the session, three ids given to channels and modules before  *)
(* the user adds no more, one plugin and one control.  And, as other       *)
(* subjects of the run: Recorder, for two channels, two takes of which     *)
(* either may be the first after a restart, three frames over rings of     *)
(* two, and one stream of which the file takes less than it is given       *)
(* (MaxCutShort), without a restart, since a start does not read what the  *)
(* files hold; ScopeView and SpectrumView.                                 *)
(***************************************************************************)
EXTENDS FxChains, Recorder, SpectrumView

-----------------------------------------------------------------------------
(***************************************************************************)
(* Model checking of ScopeView: two channels, views of two and three       *)
(* pixels, six chunks of five frames (a multiple of neither resolution nor *)
(* pixel), resolutions 1 and 3, pixels of 1 and 8 frames, two changes of   *)
(* parameters, and a session that comes back with any streams on.          *)
(***************************************************************************)
VARIABLES
    sc_view, sc_viewSize, sc_active, sc_channel, sc_trigger, sc_captured, sc_rest,
    sc_state, sc_shown, sc_acc, sc_lines, sc_frame, sc_failed, sc_changes

scopeViewVars == <<sc_view, sc_viewSize, sc_active, sc_channel, sc_trigger,
    sc_captured, sc_rest, sc_state, sc_shown, sc_acc, sc_lines, sc_frame, sc_failed,
    sc_changes>>

ScRestored ==
    [waveform_window_size : {0}, active : [{"A", "B"} -> BOOLEAN],
     channel : {[A |-> "left", B |-> c] : c \in {"left", "right"}}]

SC == INSTANCE ScopeView WITH
    view <- sc_view, viewSize <- sc_viewSize, active <- sc_active,
    channel <- sc_channel, trigger <- sc_trigger, captured <- sc_captured,
    rest <- sc_rest, state <- sc_state, shown <- sc_shown, acc <- sc_acc,
    lines <- sc_lines, frame <- sc_frame, failed <- sc_failed, changes <- sc_changes,
    Restored <- ScRestored,
    Wave <- [left |-> <<1, -1, -1, -1, 0, 1>>, right |-> <<1, 1, -1>>],
    Chunks <- {5}, Levels <- {0, 1}, Holds <- {5, 7}, Sizes <- {2, 3}, Gains <- {1, 2},
    MaxChanges <- 2, MaxFrames <- 30

\* The scope that the other subjects of a run leave alone.
ScParked ==
    /\ SC!Init
    /\ sc_viewSize = 2 /\ sc_active = [A |-> TRUE, B |-> TRUE]
    /\ sc_view.active["A"] /\ sc_view.channel["B"] = "right"

\* Two streams that are on show the same moment.  The scope draws for both the
\* same frames, a resolution apart and a whole window of them, beginning with an
\* edge of the trigger stream and later than what it drew before; the pixels of
\* the waveforms stand for the same frames, the older to the left; whatever was
\* switched, frozen or resized in between.  And no assertion fails, except for a
\* trigger stream that is off, with a resolution above 1.
StreamsShowOneMoment == SC!StreamsShowOneMoment

\* BOOST_ASSERT(frames < m_captured.size()): what the generators are told to
\* drop is there.
DropsWhatIsThere == SC!DropsWhatIsThere

-----------------------------------------------------------------------------
(***************************************************************************)
(* Model checking of SpectrumView: a mono and a stereo channel, a window   *)
(* of four frames, up to four chunks of three or five of them (a window    *)
(* spans two chunks or is less than one), three changes, and sessions that *)
(* come back with any streams on and with a stream B of either side.       *)
(***************************************************************************)
SpRestored ==
    {[A |-> [active |-> a, channel |-> "left"], B |-> [active |-> b, channel |-> c]] :
        a, b \in BOOLEAN, c \in {"left", "right"}}

SpWave == [left |-> <<2, -1, 3>>, right |-> <<1, 0, -4, 2>>]
SpHann == <<1, 3, 3, 1>>

\* The spectrum that the other subjects of a run leave alone.
SpectrumParked ==
    /\ SpectrumInit
    /\ busType = "mono" /\ view.active["A"]

-----------------------------------------------------------------------------
VARIABLE subject    \* which of them is run; the other ones rest

mcVars == <<subject, vars, takeVars, scopeViewVars, spectrumVars>>

MCNext(FxNext) ==
    /\ UNCHANGED subject
    /\ \/ /\ subject = "fx" /\ FxNext
          /\ UNCHANGED <<takeVars, scopeViewVars, spectrumVars>>
       \/ /\ subject = "takes" /\ TakesNext
          /\ cut_short' # {} => restarts' = 0
          /\ UNCHANGED <<vars, scopeViewVars, spectrumVars>>
       \/ /\ subject = "scope" /\ SC!Next
          /\ UNCHANGED <<vars, takeVars, spectrumVars>>
       \/ /\ subject = "spectrum" /\ SpectrumNext
          /\ UNCHANGED <<vars, takeVars, scopeViewVars>>

MCInit ==
    /\ subject \in {"fx", "takes", "scope", "spectrum"}
    /\ Init /\ TakesInit
    /\ IF subject = "scope" THEN SC!Init ELSE ScParked
    /\ IF subject = "spectrum" THEN SpectrumInit ELSE SpectrumParked

MCTimelySpec == MCInit /\ [][MCNext(TimelyNext)]_mcVars

\* The effects alone, where what is being learned may be removed.
MCSpec == MCInit /\ subject = "fx" /\ [][MCNext(Next)]_mcVars

\* The scope alone.
MCScopeSpec == MCInit /\ subject = "scope" /\ [][MCNext(Next)]_mcVars
=============================================================================
