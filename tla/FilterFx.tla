------------------------------ MODULE FilterFx ------------------------------
(***************************************************************************)
(* The filter effect in the engine, cycle by cycle: the parameters type,   *)
(* cutoff and resonance send events at frames of the period, a converter   *)
(* makes events of coefficients of them, and for each channel a processor  *)
(* filters its input with one biquad, or with two of the same coefficients *)
(* in a row.  The stream of the view gets what went in and what came out.  *)
(* Coefficients and samples are integers, and exact.                       *)
(***************************************************************************)
EXTENDS Integers, Sequences, FiniteSetsExt

CONSTANTS
    Cutoff, Resonance,  \* what these parameters can be, and what they are at first, 0
    Buffers,        \* what may arrive in a cycle: [Parameter -> [offset -> value]]
    Loaded,         \* the values of the parameters when the effect is made
    Signals,        \* the slices that may arrive
    CosPhi, B2,     \* cos(phi) of a cutoff; b2 of a shape, cutoff and resonance
    buffer_size,    \* frames of a period
    MaxPeriods      \* bound on the cycles

VARIABLES
    bus_type,
    m_last,         \* the values of the parameters, of the converter
    procs,          \* of each channel [type, first, second, both]
    bufs, inputs, results,  \* what arrived in the last cycle, and came out
    stream,         \* of each channel of the stream, the frames of the cycle
    before,         \* m_last and procs before that cycle
    cycles

filterVars == <<bus_type, m_last, procs, bufs, inputs, results, stream, before, cycles>>

Type == {"bypass", "lp2", "lp4", "bp2", "bp4", "hp2", "hp4", "br"}
Parameter == {"type", "cutoff", "resonance"}
num_channels == IF bus_type = "mono" THEN 1 ELSE 2
Channel == 1 .. num_channels
Frame == 1 .. buffer_size

\* What a parameter can be.
Value(p) == CASE p = "type" -> Type [] p = "cutoff" -> Cutoff [] p = "resonance" -> Resonance

Constant(c) == [constant |-> c]
Buffer(f) == [frames |-> f]
IsConstant(s) == DOMAIN s = {"constant"}
At(s, k) == IF IsConstant(s) THEN s.constant ELSE s.frames[k]
Frames(s) == [k \in Frame |-> At(s, k)]

\* Events are in the period, and numbers are whole.
ASSUME FilterAssumption ==
    /\ buffer_size \in Nat \ {0}
    /\ 0 \in Cutoff /\ CosPhi \in [Cutoff -> Int]
    /\ 0 \in Resonance /\ B2 \in [{"lp", "bp", "hp", "br"} \X Cutoff \X Resonance -> Int]
    /\ \A v \in Loaded, p \in Parameter : v[p] \in Value(p)
    /\ \A b \in Buffers, p \in Parameter :
           /\ DOMAIN b[p] \subseteq 0 .. buffer_size - 1
           /\ \A o \in DOMAIN b[p] : b[p][o] \in Value(p)
    /\ \A s \in Signals, k \in Frame : At(s, k) \in Int

-----------------------------------------------------------------------------
\* The coefficients.
Through == [b2 |-> 0, b1 |-> 0, a0 |-> 1, a1 |-> 0, a2 |-> 0]

Shape(type) ==
    CASE type \in {"lp2", "lp4"} -> "lp"
      [] type \in {"bp2", "bp4"} -> "bp"
      [] type \in {"hp2", "hp4"} -> "hp"
      [] type = "br"             -> "br"

MakeCoefficients(shape, cutoff, res) ==
    LET b2 == B2[<<shape, cutoff, res>>]
        b1 == -(1 + b2) * CosPhi[cutoff]
        a0 == CASE shape = "lp" -> (1 + b1 + b2) \div 4
                [] shape = "hp" -> (1 - b1 + b2) \div 4
                [] shape = "bp" -> (1 - b2) \div 2
                [] shape = "br" -> (1 + b2) \div 2
        a1 == CASE shape = "lp" -> 2 * a0
                [] shape = "hp" -> -2 * a0
                [] shape = "bp" -> 0
                [] shape = "br" -> b1
        a2 == IF shape = "bp" THEN -a0 ELSE a0
    IN  [b2 |-> b2, b1 |-> b1, a0 |-> a0, a1 |-> a1, a2 |-> a2]

Coefficients(v) ==
    IF v["type"] = "bypass" THEN Through
    ELSE MakeCoefficients(Shape(v["type"]), v["cutoff"], v["resonance"])

\* The converter: at each offset at which a parameter has an event, one event of
\* the values that are the last ones there.
Offsets(b) == UNION {DOMAIN b[p] : p \in Parameter}

ValueAt(b, p, offset, last) ==
    LET past == {o \in DOMAIN b[p] : o <= offset}
    IN  IF past = {} THEN last[p] ELSE b[p][Max(past)]

ValuesAt(b, offset, last) == [p \in Parameter |-> ValueAt(b, p, offset, last)]

\* The numbers of a set of offsets or frames in their order.
Ascending(set) ==
    LET below[n \in 0 .. buffer_size + 1] ==
            IF n = 0 THEN <<>>
            ELSE IF n - 1 \in set THEN Append(below[n - 1], n - 1) ELSE below[n - 1]
    IN  below[buffer_size + 1]

Event(offset, values) ==
    [offset |-> offset, type |-> values["type"], coeffs |-> Coefficients(values)]

Converted(b) ==
    LET offsets == Ascending(Offsets(b))
    IN  [n \in 1 .. Len(offsets) |-> Event(offsets[n], ValuesAt(b, offsets[n], m_last))]

-----------------------------------------------------------------------------
\* The biquads.
Biquad == [coeffs |-> Through, z1 |-> 0, z2 |-> 0]

Output(bq, x) == bq.coeffs.a0 * x + bq.z1

Fed(bq, x) ==
    [coeffs |-> bq.coeffs,
     z1 |-> bq.coeffs.a1 * x - bq.coeffs.b1 * Output(bq, x) + bq.z2,
     z2 |-> bq.coeffs.a2 * x - bq.coeffs.b2 * Output(bq, x)]

NewProcessor == [type |-> "bypass", first |-> Biquad, second |-> Biquad, both |-> FALSE]

\* A run is a processor with the frames it has made so far.
ProcessSample(run, x) ==
    LET y == Output(run.proc.first, x)
        proc == [run.proc EXCEPT !.first = Fed(@, x)]
    IN  IF proc.both
        THEN [proc |-> [proc EXCEPT !.second = Fed(@, y)],
              frames |-> Append(run.frames, Output(proc.second, y))]
        ELSE [proc |-> proc, frames |-> Append(run.frames, y)]

\* The frames from those of the run to the offset.
ProcessSlice(run, input, offset) ==
    LET first == Len(run.frames)
        sliced[k \in first .. offset] ==
            IF k = first THEN run ELSE ProcessSample(sliced[k - 1], At(input, k))
    IN  sliced[offset]

\* Mutant of ProcessEvent: bypass leaves the coefficients alone.
ProcessEventTypeOnly(proc, event) ==
    [type |-> event.type, both |-> event.type \in {"lp4", "bp4", "hp4"},
     first |-> IF event.type = "bypass" THEN proc.first
               ELSE [proc.first EXCEPT !.coeffs = event.coeffs],
     second |-> [proc.second EXCEPT !.coeffs = event.coeffs]]

\* What the biquads remember is kept.
ProcessEvent(proc, event) ==
    LET both == event.type \in {"lp4", "bp4", "hp4"}
    IN  [type |-> event.type, both |-> both,
         first |-> [proc.first EXCEPT !.coeffs = event.coeffs],
         second |-> [proc.second EXCEPT !.coeffs = IF both THEN event.coeffs ELSE Through]]

\* Without events the input passes a bypass as it is; else it is cut where the
\* events are.
ProcessSliced(proc, input, events) ==
    LET handled[n \in 0 .. Len(events)] ==
            IF n = 0 THEN [proc |-> proc, frames |-> <<>>]
            ELSE [ProcessSlice(handled[n - 1], input, events[n].offset) EXCEPT
                     !.proc = ProcessEvent(@, events[n])]
        run == ProcessSlice(handled[Len(events)], input, buffer_size)
    IN  IF events = <<>> /\ proc.type = "bypass"
        THEN [proc |-> proc, result |-> input]
        ELSE [proc |-> run.proc, result |-> Buffer(run.frames)]

-----------------------------------------------------------------------------
Silence == [c \in Channel |-> Constant(0)]

\* What the stream gets: the inputs, then the outputs of the channels.
InOut(in, out) ==
    [c \in 1 .. 2 * num_channels |->
        IF c \in Channel THEN Frames(in[c]) ELSE Frames(out[c - num_channels])]

FilterInit ==
    /\ bus_type \in {"mono", "stereo"}
    /\ m_last = [p \in Parameter |-> IF p = "type" THEN "bypass" ELSE 0]
    /\ procs = [c \in Channel |-> NewProcessor]
    /\ bufs = [p \in Parameter |-> <<>>]
    /\ inputs = Silence /\ results = Silence
    /\ stream = InOut(Silence, Silence)
    /\ before = [values |-> m_last, procs |-> procs]
    /\ cycles = 0

\* One cycle, of which the first has an event of each parameter.
Process(b, in) ==
    LET run == [c \in Channel |-> ProcessSliced(procs[c], in[c], Converted(b))]
    IN  /\ cycles < MaxPeriods
        /\ cycles' = cycles + 1
        /\ bufs' = b /\ inputs' = in
        /\ m_last' = ValuesAt(b, buffer_size, m_last)
        /\ procs' = [c \in Channel |-> run[c].proc]
        /\ results' = [c \in Channel |-> run[c].result]
        /\ stream' = InOut(in, results')
        /\ before' = [values |-> m_last, procs |-> procs]
        /\ UNCHANGED bus_type

FilterNext ==
    \E in \in [Channel -> Signals] :
        \/ cycles = 0 /\ \E v \in Loaded : Process([p \in Parameter |-> [o \in {0} |-> v[p]]], in)
        \/ cycles > 0 /\ \E b \in Buffers : Process(b, in)

FilterSpec == FilterInit /\ [][FilterNext]_filterVars

-----------------------------------------------------------------------------
\* The view splits the stream in two of the effect's channels, and shows one
\* channel of each, as what comes in and what comes out.
ShownChannel == IF bus_type = "mono" THEN 1 ELSE 2
Shown(n) == stream[(n - 1) * num_channels + ShownChannel]

\* The values of the parameters at a frame: those of the last events before it.
InForce(k) == ValuesAt(bufs, k - 1, before.values)
FourPole(k) == InForce(k)["type"] \in {"lp4", "bp4", "hp4"}

\* The equation of a filter whose coefficients change from frame to frame, for
\* the frames x from what the biquad remembers of those before.
Response(x, coeffs, bq) ==
    LET y[k \in DOMAIN x] ==
            coeffs[k].a0 * x[k]
            + (IF k = 1 THEN bq.z1 ELSE coeffs[k - 1].a1 * x[k - 1] - coeffs[k - 1].b1 * y[k - 1])
            + (CASE k = 1 -> 0
                 [] k = 2 -> bq.z2
                 [] k > 2 -> coeffs[k - 2].a2 * x[k - 2] - coeffs[k - 2].b2 * y[k - 2])
    IN  y

Filtered(c) ==
    LET coeffs == [k \in Frame |-> Coefficients(InForce(k))]
        once == Response(Frames(inputs[c]), coeffs, before.procs[c].first)
        again == Ascending({k \in Frame : FourPole(k)})
        twice == Response([n \in DOMAIN again |-> once[again[n]]],
                          [n \in DOMAIN again |-> coeffs[again[n]]], before.procs[c].second)
    IN  [k \in Frame |->
            IF FourPole(k) THEN twice[CHOOSE n \in DOMAIN again : again[n] = k] ELSE once[k]]

\* What comes out of each channel is, frame by frame, the answer of the filter
\* that type, cutoff and resonance say at that frame to what came in, whatever
\* the slices and the periods; a bypass lets pass what comes in as it is from its
\* third frame in a period, or for all of a period in which nothing changes; and
\* the view shows what went in and what came out of the same channel.
FilterFollowsParameters ==
    cycles > 0 =>
        /\ \A c \in Channel :
            /\ IF before.values["type"] = "bypass" /\ Offsets(bufs) = {}
               THEN results[c] = inputs[c]
               ELSE Frames(results[c]) = Filtered(c)
            /\ \A k \in Frame :
                k > 2 /\ (\A j \in k - 2 .. k : InForce(j)["type"] = "bypass")
                    => At(results[c], k) = At(inputs[c], k)
        /\ Shown(1) = Frames(inputs[ShownChannel])
        /\ Shown(2) = Frames(results[ShownChannel])
=============================================================================
