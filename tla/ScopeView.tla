----------------------------- MODULE ScopeView -----------------------------
(***************************************************************************)
(* The view of the scope effect on a stereo channel.  Every 16 ms it gets  *)
(* the frames that the engine played since the last time, amplifies them   *)
(* for each of its two streams, and feeds two generators: one draws a      *)
(* pixel for so many frames (the waveform), the other gathers samples, one *)
(* frame of resolution, until an edge of the trigger stream is followed by *)
(* a window of them, draws that window of both streams, and rests.         *)
(***************************************************************************)
EXTENDS Integers, Sequences

LOCAL INSTANCE FiniteSetsExt
LOCAL INSTANCE TLC

CONSTANTS
    Restored,       \* the values a session may come back with, where they are
                    \* not the default: a set of [some parameters -> value]
    Wave,           \* [channel -> sequence of values, repeated for ever]
    Chunks,         \* how many frames may come at a time
    Levels, Holds, Sizes, Gains,    \* what the user may choose
    MaxChanges,     \* bound on the changes of parameters
    MaxFrames       \* bound on the frames

VARIABLES
    view,           \* the parameters, as the view last heard of them
    viewSize,       \* the width of the view, in pixels
    active, channel,    \* of each stream, as the generators were told
    trigger,        \* the stream that triggers
    captured,       \* of each stream, the samples gathered for the scope
    rest,           \* of each stream, frames since the last sample was taken
    state,
    shown,          \* of each stream, what the scope draws
    acc,            \* of each stream, frames of the pixel in the making
    lines,          \* of each stream, the pixels of the waveform
    frame,          \* frames played so far
    failed,         \* an assertion failed
    changes

generatorVars == <<active, channel, trigger>>
scopeVars == <<captured, rest, state, shown>>
waveformVars == <<acc, lines>>
vars == <<view, viewSize, generatorVars, scopeVars, waveformVars, frame, failed, changes>>

Stream == {"A", "B"}
StereoChannel == {"left", "right", "middle", "side"}
Mode == {"free", "trigger_a", "trigger_b"}

resolution == 2 * view.scope_window_size + 1
samplesPerPixel == 2 ^ (3 * view.waveform_window_size)

\* The module's parameters: the hold time in units of 16 ms, in each of which
\* a sample is played.
Default ==
    [mode |-> "trigger_a", trigger_slope |-> "rising_edge", trigger_level |-> 0,
     hold_time |-> 5, waveform_window_size |-> 3, scope_window_size |-> 0,
     active |-> [A |-> TRUE, B |-> FALSE], channel |-> [A |-> "left", B |-> "right"],
     gain |-> [A |-> 1, B |-> 1], freeze |-> FALSE]

Of(x) == [s \in Stream |-> x]
Nothing == Of(<<>>)
Blank == [from |-> 0, to |-> 0]

TriggerOf(mode, old) ==
    CASE mode = "trigger_a" -> "A"
      [] mode = "trigger_b" -> "B"
      [] OTHER              -> old

\* The constructor makes generators that draw the left channel as A and have
\* the right one as B, which is off.  A view of a parameter starts at 0 and
\* calls only when its value becomes another one: a stream A that is off, or a
\* stream B of the left channel, is not heard of.
Init ==
    /\ view \in {restored @@ Default : restored \in Restored}
    /\ viewSize \in Sizes
    /\ active = [A |-> TRUE, B |-> view.active["B"]]
    /\ channel = [A |-> view.channel["A"],
                  B |-> IF view.channel["B"] = "left" THEN "right" ELSE view.channel["B"]]
    /\ trigger = TriggerOf(view.mode, "A")
    /\ captured = Nothing /\ rest = Of(0)
    /\ state = "WaitingForTrigger"
    /\ shown = Nothing
    /\ acc = Of(0)
    /\ lines = [s \in Stream |-> IF view.active[s] THEN [n \in 1 .. viewSize |-> Blank] ELSE <<>>]
    /\ frame = 0
    /\ failed = FALSE
    /\ changes = 0

-----------------------------------------------------------------------------
\* What comes in.
Clipped(x) == Max({-1, Min({x, 1})})

Amplified(s, f) ==
    LET wave == Wave[channel[s]] IN view.gain[s] * wave[1 + (f % Len(wave))]

Sample(s, f) == [frame |-> f, value |-> IF active[s] THEN Clipped(Amplified(s, f)) ELSE 0]

\* The frames of the chunk that come before the next sample is due.
Skipped(s) == IF rest[s] = 0 THEN 0 ELSE resolution - rest[s]

\* A stream that is off gathers a sample for every frame.
Samples(s, n) ==
    IF active[s]
    THEN [i \in 1 .. (n - Skipped(s) + resolution - 1) \div resolution |->
            Sample(s, frame + Skipped(s) + 1 + (i - 1) * resolution)]
    ELSE [i \in 1 .. n |-> Sample(s, frame + i)]

Rest(s, n) == IF active[s] THEN (n - Skipped(s)) % resolution ELSE 0

\* The pixels that are complete with n more frames.
Pixels(s, n) ==
    IF active[s]
    THEN [k \in 1 .. (acc[s] + n) \div samplesPerPixel |->
            [from |-> frame - acc[s] + (k - 1) * samplesPerPixel + 1,
             to   |-> frame - acc[s] + k * samplesPerPixel]]
    ELSE <<>>

\* The last of the source take the place of the first of the target.
ShiftPushBack(target, source) ==
    LET count == Min({Len(source), Len(target)})
    IN  SubSeq(target, count + 1, Len(target)) \o
        SubSeq(source, Len(source) - count + 1, Len(source))

Edge(l, r) ==
    IF view.trigger_slope = "rising_edge"
    THEN l.value <= view.trigger_level /\ view.trigger_level < r.value
    ELSE r.value < view.trigger_level /\ view.trigger_level <= l.value

\* The edges that are followed by a whole window.
FindTrigger(samples) ==
    {i \in 1 .. Len(samples) - viewSize - 1 : Edge(samples[i], samples[i + 1])}

Window(samples, first) == SubSeq(samples, first, first + viewSize - 1)

-----------------------------------------------------------------------------
\* The three things that update can do with the samples now.
Draw(now) ==
    LET found == FindTrigger(now[trigger])
    IN  /\ state = "WaitingForTrigger" /\ found # {}
        /\ shown' = [s \in Stream |-> Window(now[s], Min(found))]
        /\ captured' = Nothing
        /\ state' = "Hold"
        /\ UNCHANGED failed

\* erase ends behind the sample that it is given, so drop takes one more than
\* it was asked for.
Dropped(samples, frames) == SubSeq(samples, frames + 2, Len(samples))

\* What the trigger stream has beyond a window is dropped of every stream;
\* BOOST_ASSERT stops a build with assertions at a stream that has no more.
Wait(now) ==
    LET size == Len(now[trigger])
        surplus == size - viewSize
    IN  /\ state = "WaitingForTrigger" /\ FindTrigger(now[trigger]) = {}
        /\ IF size > 2 * viewSize
           THEN /\ failed' = (\E s \in Stream : surplus >= Len(now[s]))
                /\ captured' = [s \in Stream |-> Dropped(now[s], surplus)]
           ELSE captured' = now /\ UNCHANGED failed
        /\ UNCHANGED <<shown, state>>

Hold(now) ==
    /\ state = "Hold"
    /\ IF Len(now[trigger]) >= view.hold_time
       THEN captured' = Nothing /\ state' = "WaitingForTrigger"
       ELSE captured' = now /\ UNCHANGED state
    /\ UNCHANGED <<shown, failed>>

\* FxStream::captured: n frames have come.
Captured(n) ==
    /\ ~failed /\ frame + n <= MaxFrames
    /\ frame' = frame + n
    /\ IF view.freeze
       THEN UNCHANGED <<scopeVars, waveformVars, failed>>
       ELSE LET now == [s \in Stream |-> captured[s] \o Samples(s, n)]
            IN  /\ lines' = [s \in Stream |-> ShiftPushBack(lines[s], Pixels(s, n))]
                /\ acc' = [s \in Stream |->
                        IF active[s] THEN (acc[s] + n) % samplesPerPixel ELSE 0]
                /\ rest' = [s \in Stream |-> Rest(s, n)]
                /\ Draw(now) \/ Wait(now) \/ Hold(now)
    /\ UNCHANGED <<view, viewSize, generatorVars, changes>>

-----------------------------------------------------------------------------
\* What the user changes.
Change(parameter, value) ==
    /\ ~failed /\ changes < MaxChanges
    /\ changes' = changes + 1
    /\ view[parameter] # value
    /\ view' = [view EXCEPT ![parameter] = value]
    /\ UNCHANGED <<frame, failed>>

ClearGenerators == captured' = Nothing /\ acc' = Of(0)

\* FxScope::clear
Clear(size) ==
    /\ ClearGenerators
    /\ shown' = Nothing
    /\ lines' = [s \in Stream |->
            IF view'.active[s] THEN [n \in 1 .. size |-> Blank] ELSE <<>>]
    /\ UNCHANGED state

\* The generators of both streams are made anew when a property changes.
UpdateProperty(old, new) == rest' = IF old = new THEN rest ELSE Of(0)

OnTriggerSourceChanged(mode) ==
    /\ Change("mode", mode)
    /\ trigger' = TriggerOf(mode, trigger)
    /\ Clear(viewSize)
    /\ UNCHANGED <<viewSize, active, channel, rest>>

OnTriggerSlopeChanged(slope) ==
    /\ Change("trigger_slope", slope)
    /\ UNCHANGED <<viewSize, generatorVars, scopeVars, waveformVars>>

OnTriggerLevelChanged(level) ==
    /\ Change("trigger_level", level)
    /\ UNCHANGED <<viewSize, generatorVars, scopeVars, waveformVars>>

OnHoldTimeChanged(time) ==
    /\ Change("hold_time", time)
    /\ UNCHANGED <<viewSize, generatorVars, scopeVars, waveformVars>>

OnGainChanged(s, gain) ==
    /\ Change("gain", [view.gain EXCEPT ![s] = gain])
    /\ UNCHANGED <<viewSize, generatorVars, scopeVars, waveformVars>>

OnWaveformWindowSizeChanged(size) ==
    /\ Change("waveform_window_size", size)
    /\ acc' = Of(0)
    /\ UNCHANGED <<viewSize, generatorVars, scopeVars, lines>>

OnScopeWindowSizeChanged(size) ==
    /\ Change("scope_window_size", size)
    /\ captured' = Nothing /\ rest' = Of(0)
    /\ UNCHANGED <<viewSize, generatorVars, state, shown, waveformVars>>

OnActiveChanged(s, on) ==
    /\ Change("active", [view.active EXCEPT ![s] = on])
    /\ active' = [active EXCEPT ![s] = on]
    /\ UpdateProperty(active, active')
    /\ Clear(viewSize)
    /\ UNCHANGED <<viewSize, channel, trigger>>

OnChannelChanged(s, c) ==
    /\ Change("channel", [view.channel EXCEPT ![s] = c])
    /\ channel' = [channel EXCEPT ![s] = c]
    /\ UpdateProperty(channel, channel')
    /\ Clear(viewSize)
    /\ UNCHANGED <<viewSize, active, trigger>>

\* Mutant of OnFreezeChanged: what was gathered before is kept.
OnFreezeChangedKeeping(freeze) ==
    /\ Change("freeze", freeze)
    /\ UNCHANGED <<viewSize, generatorVars, scopeVars, waveformVars>>

OnFreezeChanged(freeze) ==
    /\ Change("freeze", freeze)
    /\ IF freeze THEN UNCHANGED <<captured, acc>> ELSE ClearGenerators
    /\ UNCHANGED <<viewSize, generatorVars, rest, state, shown, lines>>

SetViewSize(size) ==
    /\ ~failed /\ changes < MaxChanges
    /\ viewSize # size
    /\ viewSize' = size
    /\ changes' = changes + 1
    /\ UNCHANGED view
    /\ Clear(size)
    /\ UNCHANGED <<generatorVars, rest, frame, failed>>

OnParameterChanged ==
    \/ \E mode \in Mode : OnTriggerSourceChanged(mode)
    \/ \E slope \in {"rising_edge", "falling_edge"} : OnTriggerSlopeChanged(slope)
    \/ \E level \in Levels : OnTriggerLevelChanged(level)
    \/ \E time \in Holds : OnHoldTimeChanged(time)
    \/ \E size \in {0, 1} : OnWaveformWindowSizeChanged(size) \/ OnScopeWindowSizeChanged(size)
    \/ \E s \in Stream :
        \/ \E on \in BOOLEAN : OnActiveChanged(s, on)
        \/ \E c \in DOMAIN Wave : OnChannelChanged(s, c)
        \/ \E gain \in Gains : OnGainChanged(s, gain)
    \/ \E freeze \in BOOLEAN : OnFreezeChanged(freeze)

Next ==
    \/ \E n \in Chunks : Captured(n)
    \/ OnParameterChanged
    \/ \E size \in Sizes : SetViewSize(size)

Spec == Init /\ [][Next]_vars

-----------------------------------------------------------------------------
\* What is drawn after the trigger is drawn for all streams alike: the frames,
\* a resolution apart and a whole window of them, that begin with an edge of
\* the trigger stream, none of which was drawn before.
DrawnRight ==
    shown' # shown /\ shown' # Nothing =>
        LET drawn == shown'[trigger]
        IN  /\ Edge(drawn[1], drawn[2])
            /\ \A s \in Stream :
                /\ active[s] => /\ Len(shown'[s]) = viewSize
                                /\ \A k \in 1 .. viewSize :
                                    shown'[s][k].frame = drawn[1].frame + (k - 1) * resolution
                /\ shown[s] # <<>> => \A k \in DOMAIN shown[s] : shown[s][k].frame < drawn[1].frame

\* Two streams that are on show the same moment.  The scope draws for both the
\* same frames, a resolution apart and a whole window of them, beginning with an
\* edge of the trigger stream and later than what it drew before; the pixels of
\* the waveforms stand for the same frames, the older to the left; whatever was
\* switched, frozen or resized in between.  And no assertion fails, except for a
\* trigger stream that is off, with a resolution above 1.
StreamsShowOneMoment ==
    [][\/ UNCHANGED <<shown, lines, failed>>
       \/ /\ DrawnRight
          /\ view'.active = Of(TRUE) /\ active' = Of(TRUE) => lines'["A"] = lines'["B"]
          /\ \A s \in Stream : \A i, j \in DOMAIN lines'[s] :
                i < j => lines'[s][i] = Blank \/ lines'[s][i].to < lines'[s][j].from
          /\ failed' => ~active[trigger] /\ resolution > 1]_vars

\* BOOST_ASSERT(frames < m_captured.size()) of both generators of samples.
DropsWhatIsThere == ~failed
=============================================================================
