-------------------------- MODULE EventProcessing --------------------------
(***************************************************************************)
(* The output of a stereo channel, cycle by cycle of the engine: the       *)
(* events of volume and balance, each at a frame of the period, become     *)
(* events of a gain for each side, from which a smoother makes a signal;   *)
(* the audio of the side is multiplied by it, metered, mixed with what     *)
(* else goes to the output, and clipped.  A signal is a slice: a constant, *)
(* or a buffer of frames.  Numbers are multiples of 1 / One, and exact.    *)
(***************************************************************************)
EXTENDS Integers, Sequences

LOCAL INSTANCE SequencesExt
LOCAL INSTANCE FiniteSetsExt

CONSTANTS
    Buffers,        \* what may arrive in a cycle: [Parameter -> Seq(event)]
    Signals,        \* the slices that may arrive
    buffer_size,    \* frames of a period
    smooth_length,  \* steps of the smoother
    window,         \* frames the meter takes the mean of
    One,            \* the number 1
    MaxCycles       \* bound on the cycles

VARIABLES
    m_last,         \* the value of each parameter, of the converter
    m_smoother,     \* of each side [left, inc, current, target]
    m_lm,           \* the meter of each side: [peak, history, sum]
    bufs, audio, other,     \* what arrived in the last cycle
    gain, out,      \* the signals of each side that were made of it
    before,         \* m_last, the last gains and quiet before that cycle
    quiet,          \* steps the smoother made since the last event
    cycles

vars == <<m_last, m_smoother, m_lm, bufs, audio, other, gain, out, before, quiet, cycles>>

Parameter == {"volume", "balance"}
Side == {"left", "right"}
Frame == 1 .. buffer_size

-----------------------------------------------------------------------------
\* Slices.
Constant(c) == [constant |-> c]
Buffer(f) == [frames |-> f]
IsConstant(s) == DOMAIN s = {"constant"}
At(s, k) == IF IsConstant(s) THEN s.constant ELSE s.frames[k]

Times(a, b) == (a * b) \div One

\* The buffers are added frame by frame; a constant 0 leaves the other alone.
Add(l, r) ==
    IF IsConstant(l) /\ IsConstant(r) THEN Constant(l.constant + r.constant)
    ELSE IF l = Constant(0) THEN r
    ELSE IF r = Constant(0) THEN l
    ELSE Buffer([k \in Frame |-> At(l, k) + At(r, k)])

\* Any number of inputs, from the first to the last.
Mix(inputs) == FoldLeft(Add, Head(inputs), Tail(inputs))

\* A constant 0 makes a constant of the product, 1 leaves the other alone.
MultiplyBy(c, s) ==
    CASE c = 0    -> Constant(0)
      [] c = One  -> s
      [] c = -One -> Buffer([k \in Frame |-> -s.frames[k]])
      [] OTHER    -> Buffer([k \in Frame |-> Times(s.frames[k], c)])

Multiply(l, r) ==
    IF IsConstant(l) /\ IsConstant(r) THEN Constant(Times(l.constant, r.constant))
    ELSE IF IsConstant(l) THEN MultiplyBy(l.constant, r)
    ELSE IF IsConstant(r) THEN MultiplyBy(r.constant, l)
    ELSE Buffer([k \in Frame |-> Times(l.frames[k], r.frames[k])])

Clipped(x) == Max({-One, Min({x, One})})

Clamp(s) ==
    IF IsConstant(s) THEN Constant(Clipped(s.constant))
    ELSE Buffer([k \in Frame |-> Clipped(s.frames[k])])

-----------------------------------------------------------------------------
\* The converter: of the events that are left in the buffers, those at the
\* lowest offset come next, one of each buffer at a time.
RECURSIVE Lockstep(_, _)
Lockstep(events, values) ==
    LET left == {p \in Parameter : events[p] # <<>>}
        offset == Min({Head(events[p]).offset : p \in left})
        due == {p \in left : Head(events[p]).offset = offset}
        now == [p \in Parameter |-> IF p \in due THEN Head(events[p]).value ELSE values[p]]
    IN  IF left = {} THEN <<>>
        ELSE <<[offset |-> offset, values |-> now]>> \o
             Lockstep([p \in Parameter |-> IF p \in due THEN Tail(events[p]) ELSE events[p]], now)

Cube(x) == Times(Times(x, x), x)

\* The side away from which the balance is turned is turned down.
StereoBalance(balance) ==
    [left |-> IF balance > 0 THEN Cube(One - balance) ELSE One,
     right |-> IF balance < 0 THEN Cube(One + balance) ELSE One]

Gain(values, side) == Times(values["volume"], StereoBalance(values["balance"])[side])

Converted(steps, side) == [n \in DOMAIN steps |->
    [offset |-> steps[n].offset, value |-> Gain(steps[n].values, side)]]

LastOf(steps) == IF steps = <<>> THEN m_last ELSE steps[Len(steps)].values

-----------------------------------------------------------------------------
\* The smoother.
SetTarget(s, target) ==
    IF target = s.target THEN s
    ELSE [left |-> smooth_length, inc |-> (target - s.current) \div smooth_length,
          current |-> s.current, target |-> target]

Advanced(s, n) ==
    CASE s.left = 0 -> s
      [] n < s.left -> [s EXCEPT !.current = @ + n * s.inc, !.left = @ - n]
      [] OTHER      -> [s EXCEPT !.current = s.target, !.left = 0]

\* std::copy_n increments the generator between two values it copies, and not
\* after the last one.
AfterCopy(s, n) == Advanced(s, n - 1)

\* The frames from those of the run to the offset are made.
Sliced(run, offset) ==
    LET n == offset - Len(run.frames)
    IN  IF n = 0 THEN run
        ELSE [smoother |-> AfterCopy(run.smoother, n),
              frames |-> run.frames \o [k \in 1 .. n |-> Advanced(run.smoother, k - 1).current]]

\* Mutant of Handled: the event comes before the frames that precede it.
HandledEarly(run, event) ==
    Sliced([run EXCEPT !.smoother = SetTarget(@, event.value)], event.offset)

Handled(run, event) ==
    [Sliced(run, event.offset) EXCEPT !.smoother = SetTarget(@, event.value)]

Smoothed(s, events) ==
    Sliced(FoldLeft(Handled, [smoother |-> s, frames |-> <<>>], events), buffer_size)

\* Without events a smoother that has arrived makes a constant.
SmootherSignal(s, events) ==
    IF events = <<>> /\ s.left = 0 THEN Constant(s.current)
    ELSE Buffer(Smoothed(s, events).frames)

-----------------------------------------------------------------------------
\* The meter: a peak that falls by a half of the way in each frame, and the sum
\* of the squares of the last frames, kept as they come and go.
Abs(x) == IF x < 0 THEN -x ELSE x

PushBack(lm, x) ==
    [peak |-> IF Abs(x) > lm.peak THEN Abs(x) ELSE Abs(x) + (lm.peak - Abs(x)) \div 2,
     history |-> Append(Tail(lm.history), Times(x, x)),
     sum |-> lm.sum - Head(lm.history) + Times(x, x)]

Frames(s) == [k \in Frame |-> At(s, k)]

Metered(lm, s) == FoldLeft(PushBack, lm, Frames(s))

-----------------------------------------------------------------------------
NoEvents == [p \in Parameter |-> <<>>]

Init ==
    /\ m_last = [p \in Parameter |-> 0]
    /\ m_smoother = [d \in Side |-> [left |-> 0, inc |-> 0, current |-> 0, target |-> 0]]
    /\ m_lm = [d \in Side |->
            [peak |-> 0, history |-> [n \in 1 .. window |-> 0], sum |-> 0]]
    /\ bufs = NoEvents
    /\ audio = Constant(0) /\ other = Constant(0)
    /\ gain = [d \in Side |-> Constant(0)] /\ out = gain
    /\ before = [values |-> m_last, gain |-> [d \in Side |-> 0], quiet |-> smooth_length]
    /\ quiet = smooth_length
    /\ cycles = 0

\* The offsets of the events that come before frame k.
Before(b, k) ==
    {e.offset : e \in {e \in UNION {ToSet(b[p]) : p \in Parameter} : e.offset < k}}

\* The steps the smoother has made at frame k since the last event.
Steps(b, k, steps) ==
    IF Before(b, k) = {} THEN steps + k - 1 ELSE k - 1 - Max(Before(b, k))

\* One cycle.  The processors run in this order; the events are gone when it
\* ends, and new ones are made in the next.
Process(b, signal, mixed) ==
    LET steps == Lockstep(b, m_last)
        events == [d \in Side |-> Converted(steps, d)]
        amplified == [d \in Side |-> Multiply(gain'[d], signal)]
    IN  /\ cycles < MaxCycles
        /\ cycles' = cycles + 1
        /\ bufs' = b /\ audio' = signal /\ other' = mixed
        /\ m_last' = LastOf(steps)
        /\ m_smoother' = [d \in Side |-> Smoothed(m_smoother[d], events[d]).smoother]
        /\ gain' = [d \in Side |-> SmootherSignal(m_smoother[d], events[d])]
        /\ m_lm' = [d \in Side |-> Metered(m_lm[d], amplified[d])]
        /\ out' = [d \in Side |-> Clamp(Mix(<<mixed, amplified[d]>>))]
        /\ before' = [values |-> m_last, quiet |-> quiet,
                      gain |-> [d \in Side |-> At(gain[d], buffer_size)]]
        /\ quiet' = Min({Steps(b, buffer_size, quiet), smooth_length})

Next ==
    \E b \in Buffers, signal, mixed \in Signals : Process(b, signal, mixed)

Spec == Init /\ [][Next]_vars

-----------------------------------------------------------------------------
\* The value of the parameter at frame k: that of the last event before it.
InForce(p, k) ==
    LET past == {n \in DOMAIN bufs[p] : bufs[p][n].offset < k}
    IN  IF past = {} THEN before.values[p] ELSE bufs[p][Max(past)].value

\* The gain of a side at a frame lies between the one before and what volume
\* and balance say at that frame, which it is after smooth_length steps without
\* an event; what comes out is, frame by frame, the audio times the gain and
\* what is mixed to it, clipped, however the slices were cut and whatever is
\* constant; and the sum of the meter is that of the squares it remembers.
SignalFollowsParameters ==
    \A d \in Side :
        /\ \A k \in Frame :
            LET goal == Gain([p \in Parameter |-> InForce(p, k)], d)
                last == IF k = 1 THEN before.gain[d] ELSE At(gain[d], k - 1)
                now == At(gain[d], k)
            IN  /\ \/ last <= now /\ now <= goal
                   \/ last >= now /\ now >= goal
                /\ Steps(bufs, k, before.quiet) >= smooth_length => now = goal
                /\ At(out[d], k) = Clipped(Times(At(audio, k), now) + At(other, k))
        /\ m_lm[d].sum = FoldFunction(+, 0, m_lm[d].history)
=============================================================================
