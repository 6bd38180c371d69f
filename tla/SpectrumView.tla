---------------------------- MODULE SpectrumView ----------------------------
(***************************************************************************)
(* The view of the spectrum effect, on a mono channel with one stream or   *)
(* on a stereo channel with two of any of its channels.  Every 16 ms it    *)
(* gets the frames that the engine played since the last time, amplifies   *)
(* them for each stream, moves them into the stream's window, transforms   *)
(* the windowed frames, and shows the levels under an envelope that falls  *)
(* slowly.  One bin stands for all of them: that of frequency 0.           *)
(***************************************************************************)
EXTENDS Integers, Sequences, FiniteSetsExt

CONSTANTS
    Restored,       \* the streams that are on, and their channels, in sessions
    Wave,           \* [left, right |-> sequence of values, repeated for ever]
    Hann,           \* the window function: a sequence of weights
    Chunks,         \* how many frames may come at a time
    Gains,          \* what the user may choose
    MaxChanges,     \* bound on the changes of parameters
    MaxPlayed       \* bound on the frames

StereoChannel == {"left", "right", "middle", "side"}

ASSUME SpectrumAssumption ==
    /\ Restored \subseteq [{"A", "B"} -> [active : BOOLEAN, channel : StereoChannel]]
    /\ Wave["left"] \in Seq(Int) \ {<<>>} /\ Wave["right"] \in Seq(Int) \ {<<>>}
    /\ Hann \in Seq(Int)
    /\ Chunks \subseteq Nat /\ Gains \subseteq Int

VARIABLES
    busType,
    view,           \* the parameters, as the view last heard of them
    told,           \* of each stream, whether it is on and its channel, as the
                    \* generators were told
    buffer,         \* of each stream, the last frames: m_dftPrepareBuffer
    level,          \* of each stream, the level of the bin
    shown,          \* of each stream, what is drawn of it: a level, or nothing
    frame,          \* frames played so far
    changes,
    seen,           \* the frames that came to the generators since they exist
    peak            \* of each stream, the highest magnitude since then

generatorVars == <<buffer, level, seen, peak>>
spectrumVars == <<busType, view, told, generatorVars, shown, frame, changes>>

Stream == IF busType = "mono" THEN {"A"} ELSE {"A", "B"}
Nothing == -1

Of(x) == [s \in Stream |-> x]
Silence == [n \in DOMAIN Hann |-> [frame |-> 0, value |-> 0]]

\* The module's parameters, in their default and in a session.
Default ==
    [active |-> [s \in Stream |-> s = "A"],
     channel |-> [s \in Stream |-> IF s = "A" THEN "left" ELSE "right"],
     gain |-> Of(1), freeze |-> FALSE]

\* The constructor makes generators that are off, of the left channel as A and
\* of the right one as B.  A view of a parameter starts at 0 and calls only when
\* its value becomes another one: a stream B of the left channel is not heard of.
SpectrumInit ==
    /\ busType \in {"mono", "stereo"}
    /\ \E r \in Restored :
        view = [Default EXCEPT !.active = [s \in Stream |-> r[s].active],
                               !.channel = [s \in Stream |-> r[s].channel]]
    /\ told = [s \in Stream |->
            [active |-> view.active[s],
             channel |-> IF view.channel[s] = "left" THEN Default.channel[s] ELSE view.channel[s]]]
    /\ buffer = Of(Silence) /\ level = Of(0)
    /\ shown = Of(Nothing)
    /\ frame = 0 /\ changes = 0
    /\ seen = <<>> /\ peak = Of(0)

-----------------------------------------------------------------------------
\* What comes in.
Played(c, f) == Wave[c][1 + (f % Len(Wave[c]))]

FrameValue(c, f) ==
    CASE c = "middle" -> Played("left", f) + Played("right", f)
      [] c = "side"   -> Played("left", f) - Played("right", f)
      [] OTHER        -> Played(c, f)

\* The generator that is made for a stream of a mono channel takes what is there.
DrawnChannel(s) == IF busType = "mono" THEN "left" ELSE told[s].channel

Amplified(s, f) == [frame |-> f, value |-> view.gain[s] * FrameValue(DrawnChannel(s), f)]

ShiftPushBack(target, source) ==
    LET count == Min({Len(source), Len(target)})
    IN  SubSeq(target, count + 1, Len(target)) \o
        SubSeq(source, Len(source) - count + 1, Len(source))

Abs(x) == IF x < 0 THEN -x ELSE x

\* What the transform of the windowed frames has in bin 0.
Magnitude(frames) ==
    LET sum[n \in 0 .. Len(Hann)] ==
            IF n = 0 THEN 0 ELSE sum[n - 1] + Hann[n] * frames[n].value
    IN  Abs(sum[Len(Hann)])

Envelope(prev, in) == IF in > prev THEN in ELSE in + (17 * (prev - in)) \div 20

\* FxStream::captured: n frames have come.
Captured(n) ==
    LET frames == [k \in 1 .. n |-> frame + k]
        on == {s \in Stream : told[s].active}
    IN  /\ frame + n <= MaxPlayed
        /\ frame' = frame + n
        /\ IF view.freeze
           THEN UNCHANGED <<generatorVars, shown>>
           ELSE /\ buffer' = [s \in Stream |->
                        IF s \in on
                        THEN ShiftPushBack(buffer[s], [k \in 1 .. n |-> Amplified(s, frames[k])])
                        ELSE buffer[s]]
                /\ level' = [s \in Stream |->
                        IF s \in on THEN Envelope(level[s], Magnitude(buffer'[s])) ELSE level[s]]
                /\ shown' = [s \in Stream |-> IF s \in on THEN level'[s] ELSE Nothing]
                /\ seen' = seen \o frames
                /\ peak' = [s \in Stream |-> Max({peak[s], Magnitude(buffer'[s])})]
        /\ UNCHANGED <<busType, view, told, changes>>

-----------------------------------------------------------------------------
\* What the user changes.
Change(parameter, value) ==
    /\ changes < MaxChanges
    /\ changes' = changes + 1
    /\ view[parameter] # value
    /\ view' = [view EXCEPT ![parameter] = value]
    /\ UNCHANGED <<busType, frame>>

Clear == shown' = Of(Nothing)

\* Mutant of UpdateProperty: only the generator of the stream is made anew.
UpdatePropertyOf(s, new) ==
    /\ told' = [told EXCEPT ![s] = new]
    /\ IF told' = told THEN UNCHANGED generatorVars
       ELSE /\ buffer' = [buffer EXCEPT ![s] = Silence] /\ level' = [level EXCEPT ![s] = 0]
            /\ seen' = <<>> /\ peak' = Of(0)

\* The generators of all streams are made anew when a property changes.
UpdateProperty(s, new) ==
    /\ told' = [told EXCEPT ![s] = new]
    /\ IF told' = told THEN UNCHANGED generatorVars
       ELSE /\ buffer' = Of(Silence) /\ level' = Of(0)
            /\ seen' = <<>> /\ peak' = Of(0)

OnActiveChanged(s, on) ==
    /\ Change("active", [view.active EXCEPT ![s] = on])
    /\ UpdateProperty(s, [told[s] EXCEPT !.active = on])
    /\ Clear

OnChannelChanged(s, c) ==
    /\ Change("channel", [view.channel EXCEPT ![s] = c])
    /\ UpdateProperty(s, [told[s] EXCEPT !.channel = c])
    /\ Clear

OnGainChanged(s, gain) ==
    /\ Change("gain", [view.gain EXCEPT ![s] = gain])
    /\ UNCHANGED <<told, generatorVars, shown>>

\* The generators have nothing to clear: what they got before is kept.
OnFreezeChanged(freeze) ==
    /\ Change("freeze", freeze)
    /\ UNCHANGED <<told, generatorVars, shown>>

OnBypassed ==
    /\ changes < MaxChanges
    /\ changes' = changes + 1
    /\ Clear
    /\ UNCHANGED <<busType, view, told, generatorVars, frame>>

OnParameterChanged ==
    \/ \E s \in Stream :
        \/ \E on \in BOOLEAN : OnActiveChanged(s, on)
        \/ \E c \in StereoChannel : OnChannelChanged(s, c)
        \/ \E gain \in Gains : OnGainChanged(s, gain)
    \/ \E freeze \in BOOLEAN : OnFreezeChanged(freeze)

SpectrumNext == (\E n \in Chunks : Captured(n)) \/ OnParameterChanged \/ OnBypassed

SpectrumSpec == SpectrumInit /\ [][SpectrumNext]_spectrumVars

-----------------------------------------------------------------------------
\* What a session restored as B, with the left channel, is never told.
NotTold(s) == s = "B" /\ view.channel[s] = "left" /\ told[s].channel = "right"

\* The streams that are on show the same moment: their windows hold the same
\* frames, those that came last since the generators exist, those of a freeze
\* left out, of the channels the user chose; the level that is drawn is at least
\* that of the window and not above the highest since then; and nothing is drawn
\* of a stream that is off.
SpectraShowOneMoment ==
    \A s \in Stream :
        /\ told[s].active = view.active[s]
        /\ told[s].channel = view.channel[s] \/ NotTold(s)
        /\ told[s].active =>
            LET come == ShiftPushBack([n \in DOMAIN Hann |-> 0], seen)
            IN  /\ [n \in DOMAIN Hann |-> buffer[s][n].frame] = come
                /\ Magnitude(buffer[s]) <= level[s] /\ level[s] <= peak[s]
        /\ shown[s] # Nothing => told[s].active /\ shown[s] = level[s]
=============================================================================
