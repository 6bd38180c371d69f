------------------------ MODULE MixerRoutingProofs ------------------------
(***************************************************************************)
(* The state of the mixer's routes keeps its integrity, and no action but  *)
(* the removal of a channel closes a cycle of routes; the search for       *)
(* cycles answers right; and the strips show and offer what is so: for any *)
(* number of channels and buses.                                           *)
(***************************************************************************)
EXTENDS ChannelStrips, HasCycleSearch, SequenceTheorems, FiniteSetTheorems,
        WellFoundedInduction, TLAPS

-----------------------------------------------------------------------------
\* Lists without repetitions.

\* Appending a new element keeps a list free of repetitions.
LEMMA AppendFacts ==
    ASSUME NEW S, NEW s \in Seq(S), NEW e \in S, IsInjective(s), e \notin Range(s)
    PROVE  /\ Append(s, e) \in Seq(S)
           /\ IsInjective(Append(s, e))
           /\ Range(Append(s, e)) = Range(s) \cup {e}
<1> DEFINE t == Append(s, e)
           n == Len(s)
<1>1. /\ t \in Seq(S) /\ n \in Nat /\ Len(t) = n + 1
      /\ DOMAIN s = 1 .. n /\ DOMAIN t = 1 .. n + 1
      /\ t[n + 1] = e /\ \A i \in 1 .. n : t[i] = s[i]
    OBVIOUS
<1> HIDE DEF t, n
<1>2. \A i \in 1 .. n + 1 : i = n + 1 \/ i \in 1 .. n
    BY <1>1
<1>3. \A i \in 1 .. n : i \in 1 .. n + 1
    BY <1>1
<1>4. n + 1 \in 1 .. n + 1
    BY <1>1
<1>5. IsInjective(t)
    BY <1>1, <1>2 DEF IsInjective, Range
<1>6. Range(t) = Range(s) \cup {e}
    BY <1>1, <1>2, <1>3, <1>4 DEF Range
<1> QED
    BY <1>1, <1>5, <1>6 DEF t

\* remove_erase takes the element away, and nothing else.
LEMMA ErasedFacts ==
    ASSUME NEW S, NEW s \in Seq(S), NEW e, IsInjective(s)
    PROVE  /\ Erased(s, e) \in Seq(S)
           /\ IsInjective(Erased(s, e))
           /\ Range(Erased(s, e)) = Range(s) \ {e}
<1>1. CASE e \notin Range(s)
    BY <1>1 DEF Erased
<1>2. CASE e \in Range(s)
    <2> DEFINE at == CHOOSE i \in DOMAIN s : s[i] = e
               t == [i \in 1 .. Len(s) - 1 |-> IF i < at THEN s[i] ELSE s[i + 1]]
    <2>1. Erased(s, e) = t
        BY <1>2 DEF Erased
    <2>2. PICK n \in Nat : n = Len(s)
        OBVIOUS
    <2>3. DOMAIN s = 1 .. n /\ \A i \in 1 .. n : s[i] \in S
        BY <2>2
    <2>4. at \in 1 .. n /\ s[at] = e
        BY <1>2, <2>3 DEF Range
    <2> HIDE DEF at
    <2>5. n \in Nat \ {0} /\ n - 1 \in Nat
        BY <2>4
    <2>6. DOMAIN t = 1 .. n - 1
        BY <2>2
    <2>7. \A i \in 1 .. n - 1 : t[i] = IF i < at THEN s[i] ELSE s[i + 1]
        BY <2>2
    <2>8. \A i \in 1 .. n - 1 : t[i] \in S
        BY <2>3, <2>5, <2>7
    <2>9. t \in Seq(S)
        <3>1. t \in [1 .. n - 1 -> S]
            BY <2>2, <2>6, <2>8
        <3> HIDE DEF t
        <3> QED
            BY <3>1, <2>5
    <2> HIDE DEF t
    <2>10. \A i, j \in 1 .. n : s[i] = s[j] => i = j
        BY <2>3 DEF IsInjective
    <2>11. IsInjective(t)
        <3> SUFFICES ASSUME NEW i \in 1 .. n - 1, NEW j \in 1 .. n - 1, t[i] = t[j]
                     PROVE  i = j
            BY <2>6 DEF IsInjective
        <3>1. i \in 1 .. n /\ j \in 1 .. n /\ i + 1 \in 1 .. n /\ j + 1 \in 1 .. n
            BY <2>5
        <3> QED
            BY <3>1, <2>4, <2>7, <2>10
    <2>12. Range(t) \subseteq Range(s) \ {e}
        <3> SUFFICES ASSUME NEW i \in 1 .. n - 1
                     PROVE  t[i] \in Range(s) /\ t[i] # e
            BY <2>6 DEF Range
        <3>1. i \in 1 .. n /\ i + 1 \in 1 .. n
            BY <2>5
        <3> QED
            BY <3>1, <2>3, <2>4, <2>7, <2>10 DEF Range
    <2>13. ASSUME NEW i \in 1 .. n, s[i] # e
           PROVE  s[i] \in Range(t)
        <3>1. CASE i < at
            <4>1. i \in 1 .. n - 1
                BY <3>1, <2>4
            <4> QED
                BY <4>1, <3>1, <2>6, <2>7 DEF Range
        <3>2. CASE i > at
            <4>1. i - 1 \in 1 .. n - 1 /\ ~(i - 1 < at) /\ i - 1 + 1 = i
                BY <3>2, <2>4
            <4> QED
                BY <4>1, <2>6, <2>7 DEF Range
        <3> QED
            BY <3>1, <3>2, <2>4, <2>13
    <2>14. Range(s) \ {e} \subseteq Range(t)
        BY <2>3, <2>13 DEF Range
    <2> QED
        BY <2>1, <2>9, <2>11, <2>12, <2>14
<1> QED
    BY <1>1, <1>2

\* Swapping two elements only changes the order.
LEMMA SwappedFacts ==
    ASSUME NEW S, NEW s \in Seq(S), NEW i \in DOMAIN s, NEW j \in DOMAIN s, IsInjective(s)
    PROVE  /\ Swapped(s, i, j) \in Seq(S)
           /\ IsInjective(Swapped(s, i, j))
           /\ Range(Swapped(s, i, j)) = Range(s)
<1> DEFINE t == Swapped(s, i, j)
<1>1. t \in Seq(S) /\ DOMAIN t = DOMAIN s
    BY DEF Swapped
<1>2. \A k \in DOMAIN s : t[k] = IF k = j THEN s[i] ELSE IF k = i THEN s[j] ELSE s[k]
    BY DEF Swapped
<1> HIDE DEF t
<1>3. IsInjective(t)
    BY <1>1, <1>2 DEF IsInjective
<1>4. Range(t) \subseteq Range(s)
    BY <1>1, <1>2 DEF Range
<1>5. Range(s) \subseteq Range(t)
    BY <1>1, <1>2 DEF Range
<1> QED
    BY <1>1, <1>3, <1>4, <1>5 DEF t

-----------------------------------------------------------------------------
\* Routes.
IInv == TypeOK /\ ListsAgree /\ RoutesResolve /\ MonoTakesNoChannel

ChannelRecord == [bus_type : BusType, in : Address, out : Address]
BusRecord == [name : BusName, bus_type : BusType]

\* Giving a channel other addresses.
LEMMA RouteFacts ==
    ASSUME NEW ch \in ChannelRecord, NEW in \in Address, NEW out \in Address
    PROVE  /\ Route(ch, in, out) \in ChannelRecord
           /\ Route(ch, in, out).bus_type = ch.bus_type
           /\ Route(ch, in, out).in = in
           /\ Route(ch, in, out).out = out
    BY DEF Route, ChannelRecord

\* What redirecting does to each of the channels.
LEMMA RedirectFacts ==
    ASSUME NEW chs, chs \in [DOMAIN chs -> ChannelRecord],
           NEW ds, NEW a, NEW b \in Address
    PROVE  LET r == Redirect(chs, ds, a, b) IN
           /\ DOMAIN r = DOMAIN chs /\ r \in [DOMAIN r -> ChannelRecord]
           /\ \A c \in DOMAIN chs :
                /\ r[c].bus_type = chs[c].bus_type
                /\ r[c].in = IF "input" \in ds /\ chs[c].in = a THEN b ELSE chs[c].in
                /\ r[c].out = IF "output" \in ds /\ chs[c].out = a THEN b ELSE chs[c].out
<1> DEFINE r == Redirect(chs, ds, a, b)
           In(c) == IF "input" \in ds /\ chs[c].in = a THEN b ELSE chs[c].in
           Out(c) == IF "output" \in ds /\ chs[c].out = a THEN b ELSE chs[c].out
<1>1. DOMAIN r = DOMAIN chs /\ \A c \in DOMAIN chs : r[c] = Route(chs[c], In(c), Out(c))
    BY DEF Redirect
<1>2. \A c \in DOMAIN chs : chs[c] \in ChannelRecord /\ In(c) \in Address /\ Out(c) \in Address
    BY DEF ChannelRecord
<1>3. r = [c \in DOMAIN chs |-> Route(chs[c], In(c), Out(c))]
    BY DEF Redirect
<1> HIDE DEF r, In, Out
<1>4. \A c \in DOMAIN chs : /\ r[c] \in ChannelRecord
                            /\ r[c].bus_type = chs[c].bus_type
                            /\ r[c].in = In(c) /\ r[c].out = Out(c)
    <2> SUFFICES ASSUME NEW c \in DOMAIN chs
                 PROVE  /\ r[c] \in ChannelRecord
                        /\ r[c].bus_type = chs[c].bus_type
                        /\ r[c].in = In(c) /\ r[c].out = Out(c)
        OBVIOUS
    <2>1. PICK in \in Address : in = In(c)
        BY <1>2
    <2>2. PICK out \in Address : out = Out(c)
        BY <1>2
    <2>3. r[c] = Route(chs[c], in, out) /\ chs[c] \in ChannelRecord
        BY <1>1, <1>2, <2>1, <2>2
    <2>4. /\ r[c] \in ChannelRecord /\ r[c].bus_type = chs[c].bus_type
          /\ r[c].in = in /\ r[c].out = out
        BY <2>3, RouteFacts
    <2> QED
        BY <2>1, <2>2, <2>4
<1>5. r \in [DOMAIN r -> ChannelRecord]
    BY <1>1, <1>3, <1>4
<1> QED
    BY <1>1, <1>4, <1>5 DEF r, In, Out

\* Channels that take no new input from a channel, send to no new channel and
\* mix only if they did before have no new cycle.
LEMMA FewerRoutes ==
    ASSUME NEW chs, NEW new, DOMAIN new = DOMAIN chs,
           \A c \in DOMAIN chs :
               /\ new[c].in \in DOMAIN chs \cup {Default} => new[c].in = chs[c].in
               /\ new[c].out \in DOMAIN chs => new[c].out = chs[c].out,
           RoutesHaveCycle(new)
    PROVE  RoutesHaveCycle(chs)
<1> DEFINE G == IoChildren(chs, Default)
           H == IoChildren(new, Default)
<1>1. DOMAIN G = DOMAIN chs /\ DOMAIN H = DOMAIN chs
    BY DEF IoChildren
<1>2. \A n \in DOMAIN chs : H[n] \subseteq G[n]
    BY DEF IoChildren, Mixes
<1> HIDE DEF G, H
<1>3. PICK S \in SUBSET DOMAIN H : Circles(H, S)
    BY DEF RoutesHaveCycle, HasCycle, H
<1>4. Circles(G, S)
    BY <1>1, <1>2, <1>3 DEF Circles
<1> QED
    BY <1>1, <1>4 DEF RoutesHaveCycle, HasCycle, G

\* A channel that no other one is connected to closes no cycle.
LEMMA NewChannelClosesNoCycle ==
    ASSUME NEW chs, NEW c, c \notin DOMAIN chs, NEW ch, ch.in # c, ch.out # c,
           \A d \in DOMAIN chs : chs[d].in # c /\ chs[d].out # c,
           ch.in \notin DOMAIN chs,
           RoutesHaveCycle(With(chs, c, ch))
    PROVE  RoutesHaveCycle(chs)
<1> DEFINE new == With(chs, c, ch)
           G == IoChildren(chs, Default)
           H == IoChildren(new, Default)
<1>1. /\ DOMAIN new = DOMAIN chs \cup {c} /\ new[c] = ch
      /\ \A d \in DOMAIN chs : new[d] = chs[d]
    BY DEF With
<1> HIDE DEF new
<1>2. DOMAIN G = DOMAIN chs /\ DOMAIN H = DOMAIN chs \cup {c}
    BY <1>1 DEF IoChildren
<1>3. \A n \in DOMAIN H : c \notin H[n]
    BY <1>1 DEF IoChildren, Mixes
<1>4. \A n \in DOMAIN chs : H[n] \subseteq G[n] \cup {c}
    BY <1>1 DEF IoChildren, Mixes
<1> HIDE DEF G, H
<1>5. PICK S \in SUBSET DOMAIN H : Circles(H, S)
    BY DEF RoutesHaveCycle, HasCycle, H, new
<1> DEFINE T == S \ {c}
<1>6. \A n \in S : H[n] \cap T # {}
    BY <1>3, <1>5 DEF Circles
<1>7. T # {} /\ T \in SUBSET DOMAIN G
    BY <1>2, <1>5, <1>6 DEF Circles
<1>8. Circles(G, T)
    <2> SUFFICES ASSUME NEW n \in T PROVE G[n] \cap T # {}
        BY <1>7 DEF Circles
    <2> QED
        BY <1>2, <1>4, <1>6, <1>7
<1> QED
    BY <1>7, <1>8 DEF RoutesHaveCycle, HasCycle, G

\* A sequence's elements are of its type.
LEMMA RangeInSet ==
    ASSUME NEW S, NEW s \in Seq(S)
    PROVE  Range(s) \subseteq S
    BY DEF Range

\* What the type invariant says of one channel, in the vocabulary used below.
LEMMA TypeFacts ==
    ASSUME TypeOK
    PROVE  /\ channels \in [DOMAIN channels -> ChannelRecord]
           /\ DOMAIN channels \subseteq Channel /\ Main \in DOMAIN channels
           /\ \A c \in DOMAIN channels :
                /\ channels[c].bus_type \in BusType
                /\ channels[c].in \in Address /\ channels[c].out \in Address
           /\ Range(device_inputs) \subseteq Bus /\ Range(device_outputs) \subseteq Bus
           /\ buses \in [DOMAIN buses -> BusRecord] /\ DOMAIN buses \subseteq Bus
<1>1. /\ channels \in [DOMAIN channels -> ChannelRecord]
      /\ buses \in [DOMAIN buses -> BusRecord]
    BY DEF TypeOK, ChannelRecord, BusRecord
<1>2. \A c \in DOMAIN channels :
        /\ channels[c].bus_type \in BusType
        /\ channels[c].in \in Address /\ channels[c].out \in Address
    BY <1>1 DEF ChannelRecord
<1>3. Range(device_inputs) \subseteq Bus /\ Range(device_outputs) \subseteq Bus
    BY RangeInSet DEF TypeOK
<1> QED
    BY <1>1, <1>2, <1>3 DEF TypeOK

-----------------------------------------------------------------------------
\* Each action keeps the integrity of the state, and all but the removal of a
\* channel close no cycle.

\* Creating a channel: nobody was connected to its id.
LEMMA AddMixerChannelStep ==
    ASSUME IInv, NEW c \in Channel, NEW type \in BusType, NEW auto \in BOOLEAN,
           AddMixerChannel(c, type, auto)
    PROVE  IInv' /\ (RoutesHaveCycle(channels') => RoutesHaveCycle(channels))
<1>1. PICK in \in IF auto THEN AutoInput(type) ELSE {Default} :
        /\ c \notin DOMAIN channels
        /\ channels' = With(channels, c, [bus_type |-> type, in |-> in, out |-> Main])
        /\ inputs' = Append(inputs, c)
        /\ buses' = buses /\ device_inputs' = device_inputs /\ device_outputs' = device_outputs
    BY DEF AddMixerChannel, deviceVars
<1> DEFINE ch == [bus_type |-> type, in |-> in, out |-> Main]
<1>2. TypeOK /\ ListsAgree /\ RoutesResolve /\ MonoTakesNoChannel
    BY DEF IInv
<1>3. in = Default \/ in \in Range(device_inputs)
    BY DEF AutoInput, Range
<1>4. in \in Address /\ in \notin Channel
    BY <1>2, <1>3, TypeFacts, AddressAssumption DEF Address
<1>5. /\ DOMAIN channels' = DOMAIN channels \cup {c} /\ channels'[c] = ch
      /\ \A d \in DOMAIN channels : channels'[d] = channels[d]
    BY <1>1 DEF With
<1>6. ch \in ChannelRecord /\ ch.in = in /\ ch.out = Main /\ ch.bus_type = type
    BY <1>4, MainAssumption DEF ChannelRecord, Address
<1>7. Main \in DOMAIN channels /\ channels[Main].bus_type = "stereo" /\ c # Main
    BY <1>1, <1>2 DEF TypeOK
<1> HIDE DEF ch
<1>8. \A d \in DOMAIN channels : channels[d].in # c /\ channels[d].out # c
    BY <1>1, <1>2 DEF RoutesResolve
<1>9. TypeOK'
    <2>1. channels' \in [DOMAIN channels' -> ChannelRecord]
        <3>1. \A d \in DOMAIN channels' : channels'[d] \in ChannelRecord
            BY <1>2, <1>5, <1>6, TypeFacts
        <3>2. channels' = [d \in DOMAIN channels' |-> channels'[d]]
            BY <1>1 DEF With
        <3> QED
            BY <3>1, <3>2
    <2>2. inputs' \in Seq(Channel)
        BY <1>1, <1>2 DEF TypeOK
    <2> QED
        BY <2>1, <2>2, <1>1, <1>2, <1>5, <1>7 DEF TypeOK, ChannelRecord
<1>10. ListsAgree'
    <2>1. c \notin Range(inputs) /\ inputs \in Seq(Channel)
        BY <1>1, <1>2 DEF ListsAgree, TypeOK
    <2>2. IsInjective(inputs') /\ Range(inputs') = Range(inputs) \cup {c}
        BY <2>1, <1>1, <1>2, AppendFacts DEF ListsAgree
    <2> QED
        BY <2>2, <1>1, <1>2, <1>5, <1>7 DEF ListsAgree
<1>11. RoutesResolve'
    <2> SUFFICES ASSUME NEW d \in DOMAIN channels'
                 PROVE  /\ channels'[d].in \in Channel => channels'[d].in \in DOMAIN channels'
                        /\ channels'[d].in \in Bus => channels'[d].in \in Range(device_inputs)
                        /\ channels'[d].out \in Channel => channels'[d].out \in DOMAIN channels'
                        /\ channels'[d].out \in Bus => channels'[d].out \in Range(device_outputs)
        BY <1>1 DEF RoutesResolve
    <2>1. CASE d = c
        BY <2>1, <1>3, <1>4, <1>5, <1>6, <1>7, MainAssumption, AddressAssumption
    <2>2. CASE d # c
        BY <2>2, <1>2, <1>5 DEF RoutesResolve
    <2> QED
        BY <2>1, <2>2
<1>12. MonoTakesNoChannel'
    <2> SUFFICES ASSUME NEW d \in DOMAIN channels', channels'[d].bus_type = "mono"
                 PROVE  /\ channels'[d].in \notin Channel
                        /\ \A e \in DOMAIN channels' : channels'[e].out # d
        BY DEF MonoTakesNoChannel
    <2>1. CASE d = c
        BY <2>1, <1>4, <1>5, <1>6, <1>7, <1>8
    <2>2. CASE d # c
        BY <2>2, <1>2, <1>5, <1>6, <1>7 DEF MonoTakesNoChannel
    <2> QED
        BY <2>1, <2>2
<1>13. RoutesHaveCycle(channels') => RoutesHaveCycle(channels)
    <2>1. ch.in # c /\ ch.out # c /\ ch.in \notin DOMAIN channels
        BY <1>2, <1>4, <1>6, <1>7, TypeFacts
    <2>2. channels' = With(channels, c, ch)
        BY <1>1 DEF ch
    <2> QED
        BY <2>1, <2>2, <1>1, <1>8, NewChannelClosesNoCycle
<1> QED
    BY <1>9, <1>10, <1>11, <1>12, <1>13 DEF IInv

\* Deleting a channel: what was connected to it falls back to the default.
LEMMA RemoveMixerChannelStep ==
    ASSUME IInv, NEW c \in DOMAIN channels, RemoveMixerChannel(c)
    PROVE  IInv' /\ DOMAIN channels \ DOMAIN channels' # {}
<1> DEFINE left == Without(channels, c)
<1>1. /\ c # Main
      /\ channels' = Redirect(left, Direction, c, Default)
      /\ inputs' = Erased(inputs, c)
      /\ buses' = buses /\ device_inputs' = device_inputs /\ device_outputs' = device_outputs
    BY DEF RemoveMixerChannel, deviceVars
<1>2. TypeOK /\ ListsAgree /\ RoutesResolve /\ MonoTakesNoChannel
    BY DEF IInv
<1>3. /\ DOMAIN left = DOMAIN channels \ {c}
      /\ \A d \in DOMAIN channels \ {c} : left[d] = channels[d]
      /\ left \in [DOMAIN left -> ChannelRecord]
    BY <1>2, TypeFacts DEF Without
<1> HIDE DEF left
<1>4. Default \in Address /\ "input" \in Direction /\ "output" \in Direction
    BY DEF Address, Direction
<1>5. /\ DOMAIN channels' = DOMAIN channels \ {c}
      /\ channels' \in [DOMAIN channels' -> ChannelRecord]
      /\ \A d \in DOMAIN channels' :
            /\ channels'[d].bus_type = channels[d].bus_type
            /\ channels'[d].in = IF channels[d].in = c THEN Default ELSE channels[d].in
            /\ channels'[d].out = IF channels[d].out = c THEN Default ELSE channels[d].out
    BY <1>1, <1>3, <1>4, RedirectFacts
<1>6. inputs' \in Seq(Channel) /\ IsInjective(inputs') /\ Range(inputs') = Range(inputs) \ {c}
    <2>1. inputs \in Seq(Channel) /\ IsInjective(inputs)
        BY <1>2 DEF TypeOK, ListsAgree
    <2> QED
        BY <2>1, <1>1, ErasedFacts
<1>7. TypeOK'
    BY <1>1, <1>2, <1>5, <1>6 DEF TypeOK, ChannelRecord
<1>8. ListsAgree'
    BY <1>1, <1>2, <1>5, <1>6 DEF ListsAgree
<1>9. RoutesResolve'
    BY <1>1, <1>2, <1>5, AddressAssumption DEF RoutesResolve
<1>10. MonoTakesNoChannel'
    <2>1. Default \notin Channel /\ DOMAIN channels \subseteq Channel
        BY <1>2, TypeFacts, AddressAssumption
    <2> QED
        BY <2>1, <1>2, <1>5 DEF MonoTakesNoChannel
<1> QED
    BY <1>5, <1>7, <1>8, <1>9, <1>10 DEF IInv

\* Reordering the channels.
LEMMA MoveStep ==
    ASSUME IInv, NEW i \in DOMAIN inputs, MoveMixerChannelLeft(i) \/ MoveMixerChannelRight(i)
    PROVE  IInv' /\ channels' = channels
<1>1. TypeOK /\ ListsAgree /\ RoutesResolve /\ MonoTakesNoChannel
    BY DEF IInv
<1>2. PICK j \in DOMAIN inputs : inputs' = Swapped(inputs, i, j)
    <2>1. Len(inputs) \in Nat /\ DOMAIN inputs = 1 .. Len(inputs)
        BY <1>1 DEF TypeOK
    <2>2. CASE MoveMixerChannelLeft(i)
        BY <2>1, <2>2 DEF MoveMixerChannelLeft
    <2>3. CASE MoveMixerChannelRight(i)
        BY <2>1, <2>3 DEF MoveMixerChannelRight
    <2> QED
        BY <2>2, <2>3
<1>3. UNCHANGED <<channels, buses, device_inputs, device_outputs>>
    BY DEF MoveMixerChannelLeft, MoveMixerChannelRight, deviceVars
<1>4. inputs' \in Seq(Channel) /\ IsInjective(inputs') /\ Range(inputs') = Range(inputs)
    <2>1. inputs \in Seq(Channel) /\ IsInjective(inputs)
        BY <1>1 DEF TypeOK, ListsAgree
    <2> QED
        BY <2>1, <1>2, SwappedFacts
<1>5. TypeOK'
    BY <1>1, <1>3, <1>4 DEF TypeOK
<1>6. ListsAgree'
    BY <1>1, <1>3, <1>4 DEF ListsAgree
<1>7. RoutesResolve' /\ MonoTakesNoChannel'
    BY <1>1, <1>3 DEF RoutesResolve, MonoTakesNoChannel
<1> QED
    BY <1>3, <1>5, <1>6, <1>7 DEF IInv

\* Choosing an input: the choices offered close no cycle.
LEMMA ChangeInputStep ==
    ASSUME IInv, NEW c \in DOMAIN channels, NEW a \in {Default} \cup Channel \cup Bus,
           ChangeInput(c, a)
    PROVE  IInv' /\ (RoutesHaveCycle(channels') => RoutesHaveCycle(channels))
<1>1. /\ channels' = InputSet(c, a)
      /\ \/ a = Default /\ DefaultSourceValid(c)
         \/ a \in InputDevices(channels[c].bus_type)
         \/ a \in DOMAIN channels /\ ValidSource(c, a)
      /\ inputs' = inputs /\ buses' = buses
      /\ device_inputs' = device_inputs /\ device_outputs' = device_outputs
    BY DEF ChangeInput, deviceVars
<1>2. TypeOK /\ ListsAgree /\ RoutesResolve /\ MonoTakesNoChannel
    BY DEF IInv
<1>3. a \in Address
    BY DEF Address
<1> DEFINE ch == Route(channels[c], a, channels[c].out)
<1>4. /\ ch \in ChannelRecord /\ ch.bus_type = channels[c].bus_type
      /\ ch.in = a /\ ch.out = channels[c].out
    <2>1. channels[c] \in ChannelRecord /\ channels[c].out \in Address
        BY <1>2, TypeFacts
    <2> QED
        BY <2>1, <1>3, RouteFacts
<1>5. channels' = [channels EXCEPT ![c] = ch]
    BY <1>1 DEF InputSet
<1> HIDE DEF ch
<1>6. /\ DOMAIN channels' = DOMAIN channels
      /\ channels' \in [DOMAIN channels -> ChannelRecord]
      /\ \A d \in DOMAIN channels :
            /\ channels'[d].bus_type = channels[d].bus_type
            /\ channels'[d].in = IF d = c THEN a ELSE channels[d].in
            /\ channels'[d].out = channels[d].out
    BY <1>2, <1>4, <1>5, TypeFacts
<1>7. TypeOK'
    BY <1>1, <1>2, <1>6 DEF TypeOK, ChannelRecord
<1>8. ListsAgree'
    BY <1>1, <1>2, <1>6 DEF ListsAgree
<1>9. a \in Channel => a \in DOMAIN channels /\ channels[c].bus_type # "mono"
    BY <1>1, <1>2, TypeFacts, AddressAssumption DEF ValidSource, InputDevices
<1>10. a \in Bus => a \in Range(device_inputs)
    BY <1>1, <1>2, TypeFacts, AddressAssumption DEF InputDevices
<1>11. RoutesResolve'
    BY <1>1, <1>2, <1>6, <1>9, <1>10 DEF RoutesResolve
<1>12. MonoTakesNoChannel'
    BY <1>2, <1>6, <1>9 DEF MonoTakesNoChannel
<1>13. RoutesHaveCycle(channels') => RoutesHaveCycle(channels)
    <2>1. CASE a \in Bus
        <3>1. a \notin DOMAIN channels \cup {Default}
            BY <2>1, <1>2, TypeFacts, AddressAssumption
        <3> QED
            BY <3>1, <1>6, FewerRoutes
    <2>2. CASE a \notin Bus
        BY <2>2, <1>1, <1>2, TypeFacts DEF DefaultSourceValid, ValidSource, InputDevices
    <2> QED
        BY <2>1, <2>2
<1> QED
    BY <1>7, <1>8, <1>11, <1>12, <1>13 DEF IInv

\* Choosing an output.
LEMMA ChangeOutputStep ==
    ASSUME IInv, NEW c \in DOMAIN channels, NEW a \in {Default} \cup Channel \cup Bus,
           ChangeOutput(c, a)
    PROVE  IInv' /\ (RoutesHaveCycle(channels') => RoutesHaveCycle(channels))
<1>1. /\ channels' = OutputSet(c, a)
      /\ \/ a = Default
         \/ a \in OutputDevices
         \/ a \in DOMAIN channels /\ ValidTarget(c, a)
      /\ inputs' = inputs /\ buses' = buses
      /\ device_inputs' = device_inputs /\ device_outputs' = device_outputs
    BY DEF ChangeOutput, deviceVars
<1>2. TypeOK /\ ListsAgree /\ RoutesResolve /\ MonoTakesNoChannel
    BY DEF IInv
<1>3. a \in Address
    BY DEF Address
<1> DEFINE ch == Route(channels[c], channels[c].in, a)
<1>4. /\ ch \in ChannelRecord /\ ch.bus_type = channels[c].bus_type
      /\ ch.in = channels[c].in /\ ch.out = a
    <2>1. channels[c] \in ChannelRecord /\ channels[c].in \in Address
        BY <1>2, TypeFacts
    <2> QED
        BY <2>1, <1>3, RouteFacts
<1>5. channels' = [channels EXCEPT ![c] = ch]
    BY <1>1 DEF OutputSet
<1> HIDE DEF ch
<1>6. /\ DOMAIN channels' = DOMAIN channels
      /\ channels' \in [DOMAIN channels -> ChannelRecord]
      /\ \A d \in DOMAIN channels :
            /\ channels'[d].bus_type = channels[d].bus_type
            /\ channels'[d].in = channels[d].in
            /\ channels'[d].out = IF d = c THEN a ELSE channels[d].out
    BY <1>2, <1>4, <1>5, TypeFacts
<1>7. TypeOK'
    BY <1>1, <1>2, <1>6 DEF TypeOK, ChannelRecord
<1>8. ListsAgree'
    BY <1>1, <1>2, <1>6 DEF ListsAgree
<1>9. a \in Channel => a \in DOMAIN channels /\ channels[a].bus_type # "mono"
    BY <1>1, <1>2, TypeFacts, AddressAssumption DEF ValidTarget, OutputDevices
<1>10. a \in Bus => a \in Range(device_outputs)
    BY <1>1, <1>2, TypeFacts, AddressAssumption DEF OutputDevices
<1>11. RoutesResolve'
    BY <1>1, <1>2, <1>6, <1>9, <1>10 DEF RoutesResolve
<1>12. MonoTakesNoChannel'
    <2>1. DOMAIN channels \subseteq Channel
        BY <1>2, TypeFacts
    <2> QED
        BY <2>1, <1>2, <1>6, <1>9 DEF MonoTakesNoChannel
<1>13. RoutesHaveCycle(channels') => RoutesHaveCycle(channels)
    <2>1. CASE a \in DOMAIN channels
        <3>1. a \notin OutputDevices /\ a # Default
            BY <2>1, <1>2, TypeFacts, AddressAssumption DEF OutputDevices
        <3> QED
            BY <3>1, <1>1 DEF ValidTarget
    <2>2. CASE a \notin DOMAIN channels
        BY <2>2, <1>6, FewerRoutes
    <2> QED
        BY <2>1, <2>2
<1> QED
    BY <1>7, <1>8, <1>11, <1>12, <1>13 DEF IInv

\* Changes of the buses replace addresses of devices by addresses of devices.
LEMMA DeviceStep ==
    ASSUME IInv, TypeOK', ListsAgree', DOMAIN channels' = DOMAIN channels,
           \A c \in DOMAIN channels :
              /\ channels'[c].bus_type = channels[c].bus_type
              /\ channels'[c].in = channels[c].in \/ channels'[c].in \in Bus \cup BusName
              /\ channels'[c].out = channels[c].out \/ channels'[c].out \in Bus \cup BusName
              /\ channels'[c].in \in Bus => channels'[c].in \in Range(device_inputs')
              /\ channels'[c].out \in Bus => channels'[c].out \in Range(device_outputs')
    PROVE  IInv' /\ (RoutesHaveCycle(channels') => RoutesHaveCycle(channels))
<1>1. TypeOK /\ RoutesResolve /\ MonoTakesNoChannel
    BY DEF IInv
<1>2. /\ \A a \in Bus \cup BusName : a \notin Channel /\ a # Default
      /\ DOMAIN channels \subseteq Channel
    BY <1>1, TypeFacts, AddressAssumption
<1>3. RoutesResolve'
    BY <1>1, <1>2 DEF RoutesResolve
<1>4. MonoTakesNoChannel'
    BY <1>1, <1>2 DEF MonoTakesNoChannel
<1>5. RoutesHaveCycle(channels') => RoutesHaveCycle(channels)
    <2>1. \A c \in DOMAIN channels :
            /\ channels'[c].in \in DOMAIN channels \cup {Default}
                => channels'[c].in = channels[c].in
            /\ channels'[c].out \in DOMAIN channels => channels'[c].out = channels[c].out
        BY <1>2
    <2> QED
        BY <2>1, FewerRoutes
<1> QED
    BY <1>3, <1>4, <1>5 DEF IInv

\* The step of NamedBusTakesWaiting.
TakesWaiting ==
    \A b \in DOMAIN buses' :
        (b \notin DOMAIN buses \/ buses[b].name # buses'[b].name) =>
            \A c \in DOMAIN channels' :
                /\ b \in Range(device_inputs') =>
                    /\ channels'[c].in # buses'[b].name
                    /\ channels'[c].out = buses'[b].name
                        => channels[c].out = buses'[b].name
                /\ b \in Range(device_outputs') =>
                    /\ channels'[c].out # buses'[b].name
                    /\ channels'[c].in = buses'[b].name
                        => channels[c].in = buses'[b].name

\* It holds of a step that names no bus.
LEMMA NothingNamed ==
    ASSUME DOMAIN buses' \subseteq DOMAIN buses,
           \A b \in DOMAIN buses' : buses'[b] = buses[b]
    PROVE  TakesWaiting
    BY DEF TakesWaiting

\* And of one that names b alone, and connects to it, in its direction, the
\* channels that wait for the name.
LEMMA OneNamed ==
    ASSUME NEW b \in Bus, NEW name \in BusName, NEW dir \in Direction,
           b \in DOMAIN buses', buses'[b].name = name,
           \A x \in DOMAIN buses' \ {b} : x \in DOMAIN buses /\ buses'[x] = buses[x],
           DOMAIN channels' = DOMAIN channels,
           b \in Range(device_inputs') => dir = "input",
           b \in Range(device_outputs') => dir = "output",
           \A c \in DOMAIN channels :
              /\ channels'[c].in = IF "input" \in {dir} /\ channels[c].in = name
                                   THEN b ELSE channels[c].in
              /\ \/ channels'[c].out = IF "output" \in {dir} /\ channels[c].out = name
                                       THEN b ELSE channels[c].out
                 \/ dir = "output" /\ channels'[c].out = b
    PROVE  TakesWaiting
<1>1. b # name
    BY AddressAssumption
<1> QED
    BY <1>1 DEF TakesWaiting, Direction

\* A bus deleted: its channels keep its name instead of its id.
LEMMA DeleteBusStep ==
    ASSUME IInv, NEW b \in Bus, DeleteBus(b)
    PROVE  IInv' /\ (RoutesHaveCycle(channels') => RoutesHaveCycle(channels))
<1>1. /\ b \in DOMAIN buses
      /\ channels' = Redirect(channels, Direction, b, buses[b].name)
      /\ buses' = Without(buses, b)
      /\ device_inputs' = Erased(device_inputs, b)
      /\ device_outputs' = Erased(device_outputs, b)
      /\ inputs' = inputs
    BY DEF DeleteBus
<1>2. TypeOK /\ ListsAgree /\ RoutesResolve /\ MonoTakesNoChannel
    BY DEF IInv
<1>3. buses[b].name \in BusName /\ buses[b].name \in Address /\ buses[b].name \notin Bus
    <2>1. buses[b] \in BusRecord
        BY <1>1, <1>2, TypeFacts
    <2> QED
        BY <2>1, AddressAssumption DEF BusRecord, Address
<1>4. "input" \in Direction /\ "output" \in Direction
    BY DEF Direction
<1>5. channels \in [DOMAIN channels -> ChannelRecord]
    BY <1>2, TypeFacts
<1>6. /\ DOMAIN channels' = DOMAIN channels
      /\ channels' \in [DOMAIN channels' -> ChannelRecord]
      /\ \A c \in DOMAIN channels :
            /\ channels'[c].bus_type = channels[c].bus_type
            /\ channels'[c].in = IF channels[c].in = b THEN buses[b].name ELSE channels[c].in
            /\ channels'[c].out = IF channels[c].out = b THEN buses[b].name ELSE channels[c].out
    BY <1>1, <1>3, <1>4, <1>5, RedirectFacts
<1>7. /\ device_inputs' \in Seq(Bus) /\ IsInjective(device_inputs')
      /\ Range(device_inputs') = Range(device_inputs) \ {b}
    <2>1. device_inputs \in Seq(Bus) /\ IsInjective(device_inputs)
        BY <1>2 DEF TypeOK, ListsAgree
    <2> QED
        BY <2>1, <1>1, ErasedFacts
<1>8. /\ device_outputs' \in Seq(Bus) /\ IsInjective(device_outputs')
      /\ Range(device_outputs') = Range(device_outputs) \ {b}
    <2>1. device_outputs \in Seq(Bus) /\ IsInjective(device_outputs)
        BY <1>2 DEF TypeOK, ListsAgree
    <2> QED
        BY <2>1, <1>1, ErasedFacts
<1>9. DOMAIN buses' = DOMAIN buses \ {b} /\ buses' \in [DOMAIN buses' -> BusRecord]
    BY <1>1, <1>2, TypeFacts DEF Without
<1>10. TypeOK'
    BY <1>1, <1>2, <1>6, <1>7, <1>8, <1>9 DEF TypeOK, ChannelRecord, BusRecord
<1>11. ListsAgree'
    BY <1>1, <1>2, <1>6, <1>7, <1>8, <1>9 DEF ListsAgree
<1>12. \A c \in DOMAIN channels :
              /\ channels'[c].in = channels[c].in \/ channels'[c].in \in Bus \cup BusName
              /\ channels'[c].out = channels[c].out \/ channels'[c].out \in Bus \cup BusName
              /\ channels'[c].in \in Bus => channels'[c].in \in Range(device_inputs')
              /\ channels'[c].out \in Bus => channels'[c].out \in Range(device_outputs')
    BY <1>2, <1>3, <1>6, <1>7, <1>8 DEF RoutesResolve
<1> QED
    BY <1>6, <1>10, <1>11, <1>12, DeviceStep

\* A bus renamed: it takes over the channels that wait for its new name.
LEMMA SetDeviceBusNameStep ==
    ASSUME IInv, NEW b \in Bus, NEW name \in UserName, SetDeviceBusName(b, name)
    PROVE  /\ IInv' /\ TakesWaiting
           /\ RoutesHaveCycle(channels') => RoutesHaveCycle(channels)
<1> DEFINE dir == IF b \in Range(device_inputs) THEN "input" ELSE "output"
<1>1. /\ b \in DOMAIN buses
      /\ buses' = [buses EXCEPT ![b] = [name |-> name, bus_type |-> @.bus_type]]
      /\ channels' = Redirect(channels, {dir}, name, b)
      /\ inputs' = inputs /\ device_inputs' = device_inputs /\ device_outputs' = device_outputs
    BY DEF SetDeviceBusName
<1>2. TypeOK /\ ListsAgree /\ RoutesResolve /\ MonoTakesNoChannel
    BY DEF IInv
<1>3. b \in Address
    BY DEF Address
<1>4. channels \in [DOMAIN channels -> ChannelRecord]
    BY <1>2, TypeFacts
<1>5. /\ dir = "input" => b \in Range(device_inputs)
      /\ dir = "output" => b \in Range(device_outputs)
    BY <1>1, <1>2 DEF ListsAgree
<1> HIDE DEF dir
<1>6. /\ DOMAIN channels' = DOMAIN channels
      /\ channels' \in [DOMAIN channels' -> ChannelRecord]
      /\ \A c \in DOMAIN channels :
            /\ channels'[c].bus_type = channels[c].bus_type
            /\ channels'[c].in = IF "input" \in {dir} /\ channels[c].in = name
                                 THEN b ELSE channels[c].in
            /\ channels'[c].out = IF "output" \in {dir} /\ channels[c].out = name
                                  THEN b ELSE channels[c].out
    BY <1>1, <1>3, <1>4, RedirectFacts
<1>7. DOMAIN buses' = DOMAIN buses /\ buses' \in [DOMAIN buses' -> BusRecord]
    <2> DEFINE bus == [name |-> name, bus_type |-> buses[b].bus_type]
    <2>1. buses \in [DOMAIN buses -> BusRecord] /\ buses[b] \in BusRecord
        BY <1>1, <1>2, TypeFacts
    <2>2. bus \in BusRecord
        BY <2>1 DEF BusRecord, BusName
    <2>3. buses' = [buses EXCEPT ![b] = bus]
        BY <1>1
    <2> HIDE DEF bus
    <2> QED
        BY <2>1, <2>2, <2>3
<1>8. TypeOK'
    BY <1>1, <1>2, <1>6, <1>7 DEF TypeOK, ChannelRecord, BusRecord
<1>9. ListsAgree'
    BY <1>1, <1>2, <1>6, <1>7 DEF ListsAgree
<1>10. \A c \in DOMAIN channels :
              /\ channels'[c].in = channels[c].in \/ channels'[c].in \in Bus \cup BusName
              /\ channels'[c].out = channels[c].out \/ channels'[c].out \in Bus \cup BusName
              /\ channels'[c].in \in Bus => channels'[c].in \in Range(device_inputs')
              /\ channels'[c].out \in Bus => channels'[c].out \in Range(device_outputs')
    BY <1>1, <1>2, <1>5, <1>6 DEF RoutesResolve
<1>11. TakesWaiting
    <2>1. /\ buses'[b].name = name
          /\ \A x \in DOMAIN buses' \ {b} : x \in DOMAIN buses /\ buses'[x] = buses[x]
        BY <1>1, <1>7, <1>2, TypeFacts
    <2>2. b \in Range(device_inputs) => b \notin Range(device_outputs)
        BY <1>2 DEF ListsAgree
    <2>3. /\ b \in Range(device_inputs') => dir = "input"
          /\ b \in Range(device_outputs') => dir = "output"
          /\ dir \in Direction
        BY <1>1, <2>2 DEF dir, Direction
    <2>4. name \in BusName
        BY DEF BusName
    <2>5. /\ DOMAIN channels' = DOMAIN channels /\ b \in DOMAIN buses'
          /\ \A c \in DOMAIN channels :
              /\ channels'[c].in = IF "input" \in {dir} /\ channels[c].in = name
                                   THEN b ELSE channels[c].in
              /\ \/ channels'[c].out = IF "output" \in {dir} /\ channels[c].out = name
                                       THEN b ELSE channels[c].out
                 \/ dir = "output" /\ channels'[c].out = b
        BY <1>1, <1>6, <1>7
    <2> QED
        BY <2>1, <2>3, <2>4, <2>5, OneNamed
<1> QED
    BY <1>6, <1>8, <1>9, <1>10, <1>11, DeviceStep

\* A bus added: it takes over the channels that wait for its name, and the main
\* channel if it is an output and nothing else was chosen for it.
LEMMA AddBusStep ==
    ASSUME IInv, NEW b \in Bus, NEW dir \in Direction, NEW type \in BusType,
           AddBus(b, dir, type)
    PROVE  /\ IInv' /\ TakesWaiting
           /\ RoutesHaveCycle(channels') => RoutesHaveCycle(channels)
<1> DEFINE list == IF dir = "input" THEN device_inputs ELSE device_outputs
           name == DefaultName(dir, Len(list) + 1, type)
           resolved == Redirect(channels, {dir}, name, b)
<1>1. /\ b \notin DOMAIN buses
      /\ buses' = With(buses, b, [name |-> name, bus_type |-> type])
      /\ channels' = IF dir = "output" /\ resolved[Main].out = Default
                     THEN [resolved EXCEPT ![Main] = Route(@, @.in, b)] ELSE resolved
      /\ device_inputs' = IF dir = "input" THEN Append(device_inputs, b) ELSE device_inputs
      /\ device_outputs' = IF dir = "output" THEN Append(device_outputs, b) ELSE device_outputs
      /\ inputs' = inputs
    BY DEF AddBus
<1>2. TypeOK /\ ListsAgree /\ RoutesResolve /\ MonoTakesNoChannel
    BY DEF IInv
<1>3. name \in BusName
    <2>1. list \in Seq(Bus)
        BY <1>2 DEF TypeOK
    <2>2. Len(list) + 1 \in Nat
        BY <2>1
    <2> QED
        BY <2>2 DEF DefaultName, BusName, Direction
<1> HIDE DEF name, list
<1>4. b \in Address
    BY DEF Address
<1>5. channels \in [DOMAIN channels -> ChannelRecord] /\ Main \in DOMAIN channels
    BY <1>2, TypeFacts
<1>6. /\ DOMAIN resolved = DOMAIN channels
      /\ resolved \in [DOMAIN resolved -> ChannelRecord]
      /\ \A c \in DOMAIN channels :
            /\ resolved[c].bus_type = channels[c].bus_type
            /\ resolved[c].in = IF "input" \in {dir} /\ channels[c].in = name
                                THEN b ELSE channels[c].in
            /\ resolved[c].out = IF "output" \in {dir} /\ channels[c].out = name
                                 THEN b ELSE channels[c].out
    BY <1>4, <1>5, RedirectFacts
<1> HIDE DEF resolved
<1>7. /\ DOMAIN channels' = DOMAIN channels
      /\ channels' \in [DOMAIN channels' -> ChannelRecord]
      /\ \A c \in DOMAIN channels :
            /\ channels'[c].bus_type = resolved[c].bus_type
            /\ channels'[c].in = resolved[c].in
            /\ \/ channels'[c].out = resolved[c].out
               \/ dir = "output" /\ channels'[c].out = b
    <2>1. CASE dir = "output" /\ resolved[Main].out = Default
        <3> DEFINE ch == Route(resolved[Main], resolved[Main].in, b)
        <3>1. resolved[Main] \in ChannelRecord /\ resolved[Main].in \in Address
            BY <1>5, <1>6 DEF ChannelRecord
        <3>2. /\ ch \in ChannelRecord /\ ch.bus_type = resolved[Main].bus_type
              /\ ch.in = resolved[Main].in /\ ch.out = b
            BY <3>1, <1>4, RouteFacts
        <3>3. channels' = [resolved EXCEPT ![Main] = ch]
            BY <2>1, <1>1
        <3> HIDE DEF ch
        <3> QED
            BY <2>1, <3>2, <3>3, <1>5, <1>6
    <2>2. CASE ~(dir = "output" /\ resolved[Main].out = Default)
        BY <2>2, <1>1, <1>6
    <2> QED
        BY <2>1, <2>2
<1>8. b \notin Range(device_inputs) /\ b \notin Range(device_outputs)
    BY <1>1, <1>2 DEF ListsAgree
<1>9. /\ device_inputs' \in Seq(Bus) /\ IsInjective(device_inputs')
      /\ Range(device_inputs') = IF dir = "input" THEN Range(device_inputs) \cup {b}
                                                  ELSE Range(device_inputs)
    <2>1. device_inputs \in Seq(Bus) /\ IsInjective(device_inputs)
        BY <1>2 DEF TypeOK, ListsAgree
    <2> QED
        BY <2>1, <1>1, <1>8, AppendFacts
<1>10. /\ device_outputs' \in Seq(Bus) /\ IsInjective(device_outputs')
       /\ Range(device_outputs') = IF dir = "output" THEN Range(device_outputs) \cup {b}
                                                     ELSE Range(device_outputs)
    <2>1. device_outputs \in Seq(Bus) /\ IsInjective(device_outputs)
        BY <1>2 DEF TypeOK, ListsAgree
    <2> QED
        BY <2>1, <1>1, <1>8, AppendFacts
<1>11. DOMAIN buses' = DOMAIN buses \cup {b} /\ buses' \in [DOMAIN buses' -> BusRecord]
    <2> DEFINE bus == [name |-> name, bus_type |-> type]
    <2>1. bus \in BusRecord
        BY <1>3 DEF BusRecord
    <2>2. buses \in [DOMAIN buses -> BusRecord]
        BY <1>2, TypeFacts
    <2>3. buses' = With(buses, b, bus)
        BY <1>1
    <2> HIDE DEF bus
    <2> QED
        BY <2>1, <2>2, <2>3 DEF With
<1>12. TypeOK'
    BY <1>1, <1>2, <1>6, <1>7, <1>9, <1>10, <1>11 DEF TypeOK, ChannelRecord, BusRecord
<1>13. ListsAgree'
    <2>1. IsInjective(inputs') /\ Range(inputs') = DOMAIN channels' \ {Main}
        BY <1>1, <1>2, <1>7 DEF ListsAgree
    <2>2. dir = "input" \/ dir = "output"
        BY DEF Direction
    <2> QED
        BY <2>1, <2>2, <1>2, <1>8, <1>9, <1>10, <1>11 DEF ListsAgree
<1>14. \A c \in DOMAIN channels :
              /\ channels'[c].in = channels[c].in \/ channels'[c].in \in Bus \cup BusName
              /\ channels'[c].out = channels[c].out \/ channels'[c].out \in Bus \cup BusName
              /\ channels'[c].in \in Bus => channels'[c].in \in Range(device_inputs')
              /\ channels'[c].out \in Bus => channels'[c].out \in Range(device_outputs')
    BY <1>2, <1>6, <1>7, <1>9, <1>10 DEF RoutesResolve
<1>15. TakesWaiting
    <2>1. /\ buses'[b].name = name
          /\ \A x \in DOMAIN buses' \ {b} : x \in DOMAIN buses /\ buses'[x] = buses[x]
        BY <1>1, <1>11 DEF With
    <2>2. /\ b \in Range(device_inputs') => dir = "input"
          /\ b \in Range(device_outputs') => dir = "output"
        BY <1>8, <1>9, <1>10 DEF Direction
    <2>3. b \in DOMAIN buses'
        BY <1>11
    <2> QED
        BY <1>3, <1>6, <1>7, <2>1, <2>2, <2>3, OneNamed
<1> QED
    BY <1>6, <1>7, <1>12, <1>13, <1>14, <1>15, DeviceStep

-----------------------------------------------------------------------------
\* At the start there is the main channel alone, and nothing is connected.
LEMMA InitIInv == Init => IInv
<1> SUFFICES ASSUME Init PROVE IInv
    OBVIOUS
<1>1. /\ DOMAIN channels = {Main}
      /\ channels[Main] = [bus_type |-> "stereo", in |-> Default, out |-> Default]
      /\ channels = [c \in {Main} |-> channels[c]]
    BY DEF Init
<1>2. channels[Main] \in ChannelRecord
    BY <1>1 DEF ChannelRecord, BusType, Address
<1>3. Range(inputs) = {} /\ Range(device_inputs) = {} /\ Range(device_outputs) = {}
      /\ DOMAIN buses = {}
    BY DEF Init, Range
<1>4. buses \in [DOMAIN buses -> BusRecord]
    BY DEF Init
<1>5. TypeOK
    BY <1>1, <1>2, <1>3, <1>4, MainAssumption DEF Init, TypeOK, ChannelRecord, BusRecord
<1>6. ListsAgree
    BY <1>1, <1>3 DEF Init, ListsAgree, IsInjective
<1>7. RoutesResolve /\ MonoTakesNoChannel
    BY <1>1, AddressAssumption DEF RoutesResolve, MonoTakesNoChannel
<1> QED
    BY <1>5, <1>6, <1>7 DEF IInv

\* What a step does: the invariant stays, and a cycle that was not there comes
\* only with the removal of a channel.
LEMMA NextStep ==
    ASSUME IInv, [Next]_vars
    PROVE  /\ IInv'
           /\ RoutesHaveCycle(channels') /\ ~RoutesHaveCycle(channels)
                => DOMAIN channels \ DOMAIN channels' # {}
           /\ TakesWaiting
<1>0. ASSUME UNCHANGED buses PROVE TakesWaiting
    BY <1>0, NothingNamed
<1>1. CASE \E c \in Channel, type \in BusType, auto_assign_input \in BOOLEAN :
            AddMixerChannel(c, type, auto_assign_input)
    BY <1>0, <1>1, AddMixerChannelStep DEF AddMixerChannel, deviceVars
<1>2. CASE \E c \in DOMAIN channels : RemoveMixerChannel(c)
    BY <1>0, <1>2, RemoveMixerChannelStep DEF RemoveMixerChannel, deviceVars
<1>3. CASE \E i \in DOMAIN inputs : MoveMixerChannelLeft(i) \/ MoveMixerChannelRight(i)
    BY <1>0, <1>3, MoveStep DEF MoveMixerChannelLeft, MoveMixerChannelRight, deviceVars
<1>4. CASE \E c \in DOMAIN channels, a \in {Default} \cup Channel \cup Bus :
            ChangeInput(c, a) \/ ChangeOutput(c, a)
    BY <1>0, <1>4, ChangeInputStep, ChangeOutputStep DEF ChangeInput, ChangeOutput, deviceVars
<1>5. CASE \E b \in Bus, dir \in Direction, type \in BusType : AddBus(b, dir, type)
    BY <1>5, AddBusStep
<1>6. CASE \E b \in Bus : DeleteBus(b)
    <2>1. PICK b \in Bus : DeleteBus(b)
        BY <1>6
    <2>2. TakesWaiting
        BY <2>1, NothingNamed DEF DeleteBus, Without
    <2> QED
        BY <2>1, <2>2, DeleteBusStep
<1>7. CASE \E b \in Bus, name \in UserName : SetDeviceBusName(b, name)
    BY <1>7, SetDeviceBusNameStep
<1>8. CASE UNCHANGED vars
    <2>1. UNCHANGED <<channels, inputs, buses, device_inputs, device_outputs>>
        BY <1>8 DEF vars
    <2>2. TypeOK'
        BY <2>1 DEF IInv, TypeOK
    <2>3. ListsAgree' /\ RoutesResolve' /\ MonoTakesNoChannel'
        BY <2>1 DEF IInv, ListsAgree, RoutesResolve, MonoTakesNoChannel
    <2> QED
        BY <2>1, <2>2, <2>3, <1>0 DEF IInv
<1> QED
    BY <1>1, <1>2, <1>3, <1>4, <1>5, <1>6, <1>7, <1>8 DEF Next

\* The inductive invariant holds.
THEOREM SpecIInv == Spec => []IInv
BY InitIInv, NextStep, PTL DEF Spec

\* Every address that a channel holds stays resolvable, through every removal,
\* renaming and reconnection: what the engine looks up is there.
THEOREM SpecRoutesResolve == Spec => []RoutesResolve
BY SpecIInv, PTL DEF IInv

\* The lists that order the channels and the device buses agree with them.
THEOREM SpecListsAgree == Spec => []ListsAgree
BY SpecIInv, PTL DEF IInv

\* No mono channel is ever connected to another channel's output or mixes.
THEOREM SpecMonoTakesNoChannel == Spec => []MonoTakesNoChannel
BY SpecIInv, PTL DEF IInv

\* The choices the user interface offers, and the changes of the buses, never
\* close a cycle of routes; the removal of a channel is the one action that can.
THEOREM SpecOnlyRemovalClosesCycles == Spec => OnlyRemovalClosesCycles
<1>1. IInv /\ [Next]_vars =>
        [RoutesHaveCycle(channels') /\ ~RoutesHaveCycle(channels)
            => DOMAIN channels \ DOMAIN channels' # {}]_vars
    BY NextStep
<1> QED
    BY <1>1, SpecIInv, PTL DEF Spec, OnlyRemovalClosesCycles

\* A bus that appears, or is renamed, takes over every channel that waits for its
\* name in its direction, and none of the other: no channel is left waiting for a
\* device that is there.
THEOREM SpecNamedBusTakesWaiting == Spec => NamedBusTakesWaiting
<1>1. IInv /\ [Next]_vars => [TakesWaiting]_vars
    BY NextStep
<1> QED
    BY <1>1, SpecIInv, PTL DEF Spec, NamedBusTakesWaiting, TakesWaiting

-----------------------------------------------------------------------------
(***************************************************************************)
(* The depth-first search answers right, for every graph.  The inductive   *)
(* invariant says what the marks and the stack mean: the calls in progress *)
(* form a path of distinct nodes, a child that a call has gone past is     *)
(* finished or being searched, and no circle lies among finished nodes.    *)
(***************************************************************************)

\* What a call in progress has gone past is finished, or is the next call.
FrameIsRight(i) ==
    /\ stack[i].rest \subseteq children[stack[i].node]
    /\ \A c \in children[stack[i].node] \ stack[i].rest :
        c \in finished \/ (i + 1 \in DOMAIN stack /\ c = stack[i + 1].node)

StackIsPath ==
    /\ \A i, j \in DOMAIN stack : stack[i].node = stack[j].node => i = j
    /\ \A i \in DOMAIN stack : i + 1 \in DOMAIN stack =>
        stack[i + 1].node \in children[stack[i].node]
    /\ \A i \in DOMAIN stack : FrameIsRight(i)

NoFinishedCircle == \A S \in SUBSET finished : ~Circles(children, S)

Searching ==
    /\ StackIsPath
    /\ NoFinishedCircle
    /\ Node \ todo \subseteq visited

SearchInv ==
    /\ SearchTypeOK
    /\ MarksAreRight
    /\ result = "unknown" => Searching
    /\ AnswersHasCycle

-----------------------------------------------------------------------------
\* A stack is a sequence of frames.
CallFrame == [node : Node, rest : SUBSET Node]

\* What is known of a sequence of frames.
LEMMA StackFacts ==
    ASSUME NEW s \in Seq(CallFrame)
    PROVE  /\ Len(s) \in Nat /\ DOMAIN s = 1 .. Len(s)
           /\ \A i \in DOMAIN s : s[i] \in CallFrame /\ s[i].node \in Node
                                /\ s[i].rest \in SUBSET Node
           /\ s # <<>> => Len(s) \in DOMAIN s
<1>1. Len(s) \in Nat /\ DOMAIN s = 1 .. Len(s)
    OBVIOUS
<1>2. ASSUME NEW i \in DOMAIN s
      PROVE  s[i] \in CallFrame
    OBVIOUS
<1>3. s # <<>> => Len(s) # 0
    OBVIOUS
<1> QED
    BY <1>1, <1>2, <1>3 DEF CallFrame

\* The search starts with nothing visited, so with nothing to keep.
LEMMA InitSearchInv == SearchInit => SearchInv
<1> SUFFICES ASSUME SearchInit PROVE SearchInv
    OBVIOUS
<1>1. SearchTypeOK
    BY DEF SearchInit, SearchTypeOK
<1>2. MarksAreRight
    BY DEF SearchInit, MarksAreRight
<1>3. Searching
    BY DEF SearchInit, Searching, StackIsPath, NoFinishedCircle, Circles
<1>4. AnswersHasCycle
    BY DEF SearchInit, AnswersHasCycle
<1> QED
    BY <1>1, <1>2, <1>3, <1>4 DEF SearchInv

\* A node whose children are all finished closes no circle of finished nodes:
\* what is left of the circle without the node would be one already.
LEMMA FinishedStaysAcyclic ==
    ASSUME NEW G, NEW F, NEW n,
           \A S \in SUBSET F : ~Circles(G, S),
           \A m \in F : G[m] \subseteq F,
           G[n] \subseteq F, n \notin F
    PROVE  \A S \in SUBSET (F \cup {n}) : ~Circles(G, S)
<1> SUFFICES ASSUME NEW S \in SUBSET (F \cup {n}), Circles(G, S)
             PROVE  FALSE
    OBVIOUS
<1> DEFINE T == S \ {n}
<1>1. T \in SUBSET F
    OBVIOUS
<1>2. \A m \in S : G[m] \cap T # {}
    <2> SUFFICES ASSUME NEW m \in S PROVE G[m] \cap T # {}
        OBVIOUS
    <2>1. G[m] \subseteq F
        OBVIOUS
    <2>2. PICK c \in G[m] : c \in S
        BY DEF Circles
    <2> QED
        BY <2>1, <2>2
<1>3. T # {}
    BY <1>2 DEF Circles
<1>4. Circles(G, T)
    BY <1>2, <1>3 DEF Circles
<1> QED
    BY <1>1, <1>4

-----------------------------------------------------------------------------
\* A number of j .. n other than n has its successor in j .. n.
LEMMA Between ==
    \A n \in Nat : \A j \in 1 .. n : \A i \in j .. n :
        i # n => i \in 1 .. n /\ i + 1 \in 1 .. n /\ i + 1 \in j .. n
    OBVIOUS

\* A path of calls in progress that meets one of its own nodes is a circle.
LEMMA PathClosesCircle ==
    ASSUME SearchInv, result = "unknown", stack # <<>>,
           NEW c \in Top.rest, c \in visited \ finished
    PROVE  HasCycle(children)
<1>0. /\ Len(stack) \in Nat /\ DOMAIN stack = 1 .. Len(stack)
      /\ Len(stack) \in DOMAIN stack
      /\ \A i \in DOMAIN stack : stack[i].node \in Node
    BY StackFacts DEF SearchInv, SearchTypeOK, CallFrame
<1>1. PICK j \in DOMAIN stack : stack[j].node = c
    BY DEF SearchInv, MarksAreRight
<1> DEFINE S == {stack[i].node : i \in j .. Len(stack)}
<1>2. S # {} /\ S \in SUBSET DOMAIN children
    <2>1. c \in S
        BY <1>0, <1>1
    <2>2. S \subseteq Node
        BY <1>0
    <2> QED
        BY <2>1, <2>2 DEF SearchInv, SearchTypeOK
<1>3. ASSUME NEW i \in j .. Len(stack)
      PROVE  children[stack[i].node] \cap S # {}
    <2>1. CASE i = Len(stack)
        <3>1. c \in children[stack[i].node]
            BY <2>1, <1>0 DEF Top, SearchInv, Searching, StackIsPath, FrameIsRight
        <3>2. c \in S
            BY <1>0, <1>1
        <3> QED
            BY <3>1, <3>2
    <2>2. CASE i # Len(stack)
        <3>0. j \in 1 .. Len(stack) /\ i \in j .. Len(stack) /\ i # Len(stack)
            BY <2>2, <1>0
        <3>1. i \in DOMAIN stack /\ i + 1 \in DOMAIN stack /\ i + 1 \in j .. Len(stack)
            BY <3>0, <1>0, Between
        <3>2. stack[i + 1].node \in children[stack[i].node]
            BY <3>1 DEF SearchInv, Searching, StackIsPath
        <3>3. stack[i + 1].node \in S
            BY <3>1
        <3> QED
            BY <3>2, <3>3
    <2> QED
        BY <2>1, <2>2
<1>4. Circles(children, S)
    BY <1>2, <1>3 DEF Circles
<1> QED
    BY <1>2, <1>4 DEF HasCycle

-----------------------------------------------------------------------------
\* What pushing, popping and advancing a call do to a stack.
LEMMA PushFacts ==
    ASSUME NEW s \in Seq(CallFrame), NEW f \in CallFrame
    PROVE  /\ Append(s, f) \in Seq(CallFrame)
           /\ Len(Append(s, f)) = Len(s) + 1
           /\ \A i \in 1 .. Len(s) : Append(s, f)[i] = s[i]
           /\ Append(s, f)[Len(s) + 1] = f
    OBVIOUS

\* The stack without its top.
LEMMA PopFacts ==
    ASSUME NEW s \in Seq(CallFrame), s # <<>>
    PROVE  /\ SubSeq(s, 1, Len(s) - 1) \in Seq(CallFrame)
           /\ Len(SubSeq(s, 1, Len(s) - 1)) = Len(s) - 1
           /\ \A i \in 1 .. Len(s) - 1 : SubSeq(s, 1, Len(s) - 1)[i] = s[i]
<1> DEFINE n == Len(s) - 1
           t == SubSeq(s, 1, n)
<1>1. n \in Nat /\ n \in Int /\ 1 \in Int /\ \A i \in 1 .. n : s[i] \in CallFrame
    BY StackFacts
<1> HIDE DEF n
<1>2. /\ t \in Seq(CallFrame)
      /\ Len(t) = IF 1 <= n THEN n - 1 + 1 ELSE 0
      /\ \A i \in 1 .. n - 1 + 1 : t[i] = s[1 + i - 1]
    BY <1>1, SubSeqProperties
<1>3. /\ t \in Seq(CallFrame)
      /\ Len(t) = n
      /\ \A i \in 1 .. n : t[i] = s[i]
    BY <1>1, <1>2
<1> QED
    BY <1>3 DEF n

\* The stack after its top has gone past one child.
LEMMA AdvanceFacts ==
    ASSUME NEW s \in Seq(CallFrame), s # <<>>, NEW c
    PROVE  /\ Advanced(s, c) \in Seq(CallFrame)
           /\ Len(Advanced(s, c)) = Len(s)
           /\ \A i \in 1 .. Len(s) :
                /\ Advanced(s, c)[i].node = s[i].node
                /\ i # Len(s) => Advanced(s, c)[i] = s[i]
           /\ Advanced(s, c)[Len(s)].rest = s[Len(s)].rest \ {c}
<1> DEFINE f == [node |-> s[Len(s)].node, rest |-> s[Len(s)].rest \ {c}]
<1>1. Len(s) \in DOMAIN s /\ Len(s) \in Nat /\ DOMAIN s = 1 .. Len(s)
    BY StackFacts
<1>1a. s[Len(s)].node \in Node /\ s[Len(s)].rest \in SUBSET Node
    BY <1>1, StackFacts
<1>2. f \in CallFrame /\ f.node = s[Len(s)].node /\ f.rest = s[Len(s)].rest \ {c}
    BY <1>1a DEF CallFrame
<1>3. Advanced(s, c) = [s EXCEPT ![Len(s)] = f]
    BY DEF Advanced
<1> HIDE DEF f
<1>4. Advanced(s, c) \in Seq(CallFrame) /\ Len(Advanced(s, c)) = Len(s)
    BY <1>1, <1>2, <1>3
<1>5. \A i \in 1 .. Len(s) : Advanced(s, c)[i] = IF i = Len(s) THEN f ELSE s[i]
    BY <1>1, <1>3
<1> QED
    BY <1>1, <1>2, <1>4, <1>5

-----------------------------------------------------------------------------
\* Each step keeps the invariant.
LEMMA FinishStep ==
    ASSUME SearchInv, Finish
    PROVE  SearchInv'
<1> DEFINE n == Top.node
           k == Len(stack)
<1>1. /\ result = "unknown" /\ stack # <<>> /\ Top.rest = {}
      /\ finished' = finished \cup {n}
      /\ stack' = SubSeq(stack, 1, Len(stack) - 1)
      /\ children' = children /\ visited' = visited /\ todo' = todo /\ result' = result
    BY DEF Finish
<1>2. /\ stack \in Seq(CallFrame) /\ k \in Nat /\ DOMAIN stack = 1 .. k /\ k \in DOMAIN stack
      /\ \A i \in 1 .. k : stack[i].node \in Node
    BY <1>1, StackFacts DEF SearchInv, SearchTypeOK, CallFrame
<1>3. /\ stack' \in Seq(CallFrame) /\ Len(stack') = k - 1 /\ DOMAIN stack' = 1 .. k - 1
      /\ \A i \in 1 .. k - 1 : stack'[i] = stack[i]
    <2>1. stack' \in Seq(CallFrame) /\ Len(stack') = k - 1
      /\ \A i \in 1 .. k - 1 : stack'[i] = stack[i]
        BY <1>1, <1>2, PopFacts
    <2> QED
        BY <2>1
<1>4. MarksAreRight /\ Searching
    BY <1>1 DEF SearchInv
<1>5. n = stack[k].node /\ n \in Node /\ n \in visited \ finished
    BY <1>1, <1>2, <1>4 DEF Top, MarksAreRight
<1>6. children[n] \subseteq finished
    BY <1>1, <1>2, <1>4, <1>5 DEF Searching, StackIsPath, FrameIsRight, Top
<1>7. SearchTypeOK'
    BY <1>1, <1>3, <1>5 DEF SearchInv, SearchTypeOK, CallFrame
<1>8. MarksAreRight'
    <2>1. \A i \in 1 .. k - 1 : stack[i].node # n
        BY <1>2, <1>4, <1>5 DEF Searching, StackIsPath
    <2>2. {stack'[i].node : i \in DOMAIN stack'} = {stack[i].node : i \in DOMAIN stack} \ {n}
        BY <2>1, <1>2, <1>3, <1>5
    <2>3. (visited \ finished)' = (visited \ finished) \ {n}
        BY <1>1
    <2>4. \A m \in finished' : children[m] \subseteq finished'
        BY <1>1, <1>4, <1>6 DEF MarksAreRight
    <2> QED
        BY <2>2, <2>3, <2>4, <1>1, <1>4, <1>5 DEF MarksAreRight
<1>9. StackIsPath'
    <2>1. \A i, j \in DOMAIN stack' : stack'[i].node = stack'[j].node => i = j
        BY <1>2, <1>3, <1>4 DEF Searching, StackIsPath
    <2>2. \A i \in DOMAIN stack' : i + 1 \in DOMAIN stack' =>
            stack'[i + 1].node \in children'[stack'[i].node]
        BY <1>1, <1>2, <1>3, <1>4 DEF Searching, StackIsPath
    <2>3. ASSUME NEW i \in DOMAIN stack'
          PROVE  FrameIsRight(i)'
        <3>1. FrameIsRight(i) /\ stack'[i] = stack[i] /\ i \in 1 .. k - 1
            BY <1>2, <1>3, <1>4 DEF Searching, StackIsPath
        <3>2. i + 1 \in DOMAIN stack' \/ i + 1 = k
            BY <1>2, <1>3, <3>1
        <3>3. i + 1 \in DOMAIN stack' => stack'[i + 1] = stack[i + 1]
            BY <1>3
        <3> QED
            BY <3>1, <3>2, <3>3, <1>1, <1>5 DEF FrameIsRight
    <2> QED
        BY <2>1, <2>2, <2>3 DEF StackIsPath
<1>10. NoFinishedCircle'
    BY <1>1, <1>4, <1>5, <1>6, FinishedStaysAcyclic
        DEF Searching, NoFinishedCircle, MarksAreRight
<1>11. (Node \ todo \subseteq visited)'
    BY <1>1, <1>4 DEF Searching
<1>12. AnswersHasCycle'
    BY <1>1 DEF AnswersHasCycle
<1> QED
    BY <1>7, <1>8, <1>9, <1>10, <1>11, <1>12 DEF SearchInv, Searching

\* When every node was tried and no call is left, all nodes are finished.
LEMMA NoneFoundStep ==
    ASSUME SearchInv, NoneFound
    PROVE  SearchInv'
<1>1. /\ result = "unknown" /\ stack = <<>> /\ todo = {} /\ result' = "acyclic"
      /\ children' = children /\ visited' = visited /\ finished' = finished
      /\ todo' = todo /\ stack' = stack
    BY DEF NoneFound
<1>2. MarksAreRight /\ Searching
    BY <1>1 DEF SearchInv
<1>3. {stack[i].node : i \in DOMAIN stack} = {}
    BY <1>1
<1>4. Node \subseteq finished
    BY <1>1, <1>2, <1>3 DEF MarksAreRight, Searching
<1>5. ~HasCycle(children)
    BY <1>2, <1>4 DEF HasCycle, Searching, NoFinishedCircle, SearchInv, SearchTypeOK
<1>6. AnswersHasCycle'
    BY <1>1, <1>5 DEF AnswersHasCycle
<1>7. SearchTypeOK'
    BY <1>1 DEF SearchInv, SearchTypeOK
<1>8. result' # "unknown"
    BY <1>1
<1> QED
    BY <1>6, <1>7, <1>8 DEF SearchInv, MarksAreRight

\* s is the stack of k callers, whose last one has gone past n.
Callers(s, k, n) ==
    /\ Len(stack) = k /\ Len(s) = k
    /\ \A i \in 1 .. k : /\ s[i].node = stack[i].node
                         /\ i # k => s[i].rest = stack[i].rest
    /\ k # 0 => n \in stack[k].rest /\ s[k].rest = stack[k].rest \ {n}

\* The call keeps the invariant, whoever calls.
LEMMA CallStep ==
    ASSUME SearchInv, result = "unknown",
           NEW n \in Node, NEW k \in Nat, NEW s \in Seq(CallFrame),
           Callers(s, k, n), Call(n, s),
           children' = children, finished' = finished,
           todo' \in SUBSET todo, todo \ todo' \subseteq {n},
           n \in visited \ finished => HasCycle(children)
    PROVE  SearchInv'
<1>1. /\ DOMAIN stack = 1 .. k /\ DOMAIN s = 1 .. k
      /\ \A i \in 1 .. k : /\ s[i].node = stack[i].node
                           /\ i # k => s[i].rest = stack[i].rest
      /\ k # 0 => n \in stack[k].rest /\ s[k].rest = stack[k].rest \ {n}
    <2>1. stack \in Seq(CallFrame)
        BY DEF SearchInv, SearchTypeOK, CallFrame
    <2> QED
        BY <2>1, StackFacts DEF Callers
<1>2. MarksAreRight /\ Searching
    BY DEF SearchInv
\* What is so of the callers whatever becomes of the call.
<1>3. /\ \A i, j \in 1 .. k : s[i].node = s[j].node => i = j
      /\ \A i \in 1 .. k - 1 : s[i + 1].node \in children[s[i].node]
    <2>1. \A i, j \in 1 .. k : s[i].node = s[j].node => i = j
        BY <1>1, <1>2 DEF Searching, StackIsPath
    <2>2. ASSUME NEW i \in 1 .. k - 1
          PROVE  s[i + 1].node \in children[s[i].node]
        <3>1. i \in 1 .. k /\ i + 1 \in 1 .. k
            OBVIOUS
        <3>2. stack[i + 1].node \in children[stack[i].node]
            BY <3>1, <1>1, <1>2 DEF Searching, StackIsPath
        <3> QED
            BY <3>1, <3>2, <1>1
    <2> QED
        BY <2>1, <2>2
<1>4. ASSUME NEW i \in 1 .. k
      PROVE  /\ s[i].rest \subseteq children[s[i].node]
             /\ \A c \in children[s[i].node] \ s[i].rest :
                    c \in finished \/ (i + 1 \in 1 .. k /\ c = s[i + 1].node)
                        \/ (i = k /\ c = n)
    <2>1. FrameIsRight(i)
        BY <1>1, <1>2 DEF Searching, StackIsPath
    <2>2. CASE i = k
        BY <2>1, <2>2, <1>1 DEF FrameIsRight
    <2>3. CASE i # k
        <3>1. i + 1 \in 1 .. k
            BY <2>3, <1>1
        <3> QED
            BY <2>1, <2>3, <3>1, <1>1 DEF FrameIsRight
    <2> QED
        BY <2>2, <2>3
<1>5. {s[i].node : i \in DOMAIN s} = {stack[i].node : i \in DOMAIN stack}
    BY <1>1
<1>6. CASE n \in finished
    <2>1. stack' = s /\ visited' = visited /\ result' = result
        BY <1>2, <1>6 DEF Call, MarksAreRight
    <2>2. SearchTypeOK'
        BY <2>1 DEF SearchInv, SearchTypeOK, CallFrame
    <2>3. MarksAreRight'
        BY <2>1, <1>2, <1>5 DEF MarksAreRight
    <2>4. \A i \in 1 .. k : FrameIsRight(i)'
        BY <2>1, <1>1, <1>4, <1>6 DEF FrameIsRight
    <2>5. StackIsPath'
        BY <2>1, <2>4, <1>1, <1>3 DEF StackIsPath
    <2>6. (Node \ todo)' \subseteq visited'
        BY <2>1, <1>2, <1>6 DEF Searching, MarksAreRight
    <2>7. NoFinishedCircle' /\ AnswersHasCycle'
        BY <2>1, <1>2 DEF Searching, NoFinishedCircle, AnswersHasCycle
    <2> QED
        BY <2>2, <2>3, <2>5, <2>6, <2>7 DEF SearchInv, Searching
<1>7. CASE n \in visited \ finished
    <2>1. stack' = s /\ visited' = visited /\ result' = "cyclic"
        BY <1>7 DEF Call
    <2>2. SearchTypeOK'
        BY <2>1 DEF SearchInv, SearchTypeOK, CallFrame
    <2>3. result' # "unknown"
        BY <2>1
    <2>4. AnswersHasCycle'
        BY <2>1, <1>7 DEF AnswersHasCycle
    <2> QED
        BY <2>2, <2>3, <2>4 DEF SearchInv, MarksAreRight
<1>8. CASE n \notin visited
    <2> DEFINE f == Frame(n)
    <2>1. stack' = Append(s, f) /\ visited' = visited \cup {n} /\ result' = result
        BY <1>2, <1>8 DEF Call, MarksAreRight
    <2>2. f.node = n /\ f.rest = children[n] /\ f \in CallFrame
        BY DEF Frame, CallFrame, SearchInv, SearchTypeOK
    <2> HIDE DEF f
    <2>3. /\ stack' \in Seq(CallFrame) /\ Len(stack') = k + 1 /\ DOMAIN stack' = 1 .. k + 1
          /\ \A i \in 1 .. k : stack'[i] = s[i]
          /\ stack'[k + 1] = f
        <3>1. /\ stack' \in Seq(CallFrame) /\ Len(stack') = k + 1
              /\ \A i \in 1 .. k : stack'[i] = s[i]
              /\ stack'[k + 1] = f
            BY <2>1, <2>2, PushFacts DEF Callers
        <3> QED
            BY <3>1
    <2>4. SearchTypeOK'
        BY <2>1, <2>3 DEF SearchInv, SearchTypeOK, CallFrame
    <2>5. n \notin finished /\ \A i \in 1 .. k : s[i].node # n
        BY <1>1, <1>2, <1>8 DEF MarksAreRight
    <2>6. MarksAreRight'
        <3>1. {stack'[i].node : i \in DOMAIN stack'} = {s[i].node : i \in DOMAIN s} \cup {n}
            <4>1. \A i \in 1 .. k : i \in DOMAIN stack' /\ stack'[i].node = s[i].node
                BY <2>3, <1>1
            <4>2. k + 1 \in DOMAIN stack' /\ stack'[k + 1].node = n
                BY <2>2, <2>3, <1>1
            <4>3. \A i \in DOMAIN stack' : i \in 1 .. k \/ i = k + 1
                BY <2>3, <1>1
            <4> QED
                BY <4>1, <4>2, <4>3, <1>1
        <3>2. (visited \ finished)' = (visited \ finished) \cup {n}
            BY <2>1, <2>5
        <3> QED
            BY <3>1, <3>2, <2>1, <1>2, <1>5 DEF MarksAreRight
    <2>7. \A i, j \in 1 .. k + 1 : stack'[i].node = stack'[j].node => i = j
        <3>1. \A i \in 1 .. k + 1 : i \in 1 .. k \/ i = k + 1
            BY <1>1
        <3> QED
            BY <3>1, <2>2, <2>3, <2>5, <1>3
    <2>8. \A i \in 1 .. k : stack'[i + 1].node \in children'[stack'[i].node]
        <3> SUFFICES ASSUME NEW i \in 1 .. k
                     PROVE  stack'[i + 1].node \in children[stack'[i].node]
            OBVIOUS
        <3>1. CASE i = k
            BY <3>1, <2>2, <2>3, <1>1, <1>2 DEF Searching, StackIsPath, FrameIsRight
        <3>2. CASE i # k
            <4>1. i \in 1 .. k - 1 /\ i + 1 \in 1 .. k
                BY <3>2, <1>1
            <4> QED
                BY <4>1, <2>3, <1>3
        <3> QED
            BY <3>1, <3>2
    <2>9. ASSUME NEW i \in 1 .. k + 1
          PROVE  FrameIsRight(i)'
        <3>1. CASE i = k + 1
            BY <3>1, <2>2, <2>3 DEF FrameIsRight
        <3>2. CASE i # k + 1
            <4>1. i \in 1 .. k /\ i + 1 \in DOMAIN stack' /\ stack'[i] = s[i]
                BY <3>2, <2>3, <1>1
            <4>2. i + 1 \in 1 .. k => stack'[i + 1] = s[i + 1]
                BY <2>3
            <4>3. i = k => stack'[i + 1].node = n
                BY <2>2, <2>3
            <4> QED
                BY <4>1, <4>2, <4>3, <1>4 DEF FrameIsRight
        <3> QED
            BY <3>1, <3>2
    <2>10. StackIsPath'
        <3>1. \A i \in DOMAIN stack' : i + 1 \in DOMAIN stack' => i \in 1 .. k
            BY <2>3, <1>1
        <3> QED
            BY <3>1, <2>3, <2>7, <2>8, <2>9 DEF StackIsPath
    <2>11. (Node \ todo)' \subseteq visited'
        BY <2>1, <1>2 DEF Searching
    <2>12. NoFinishedCircle' /\ AnswersHasCycle'
        BY <2>1, <1>2 DEF Searching, NoFinishedCircle, AnswersHasCycle
    <2> QED
        BY <2>4, <2>6, <2>10, <2>11, <2>12 DEF SearchInv, Searching
<1> QED
    BY <1>6, <1>7, <1>8

\* A search that is begun from a node keeps the invariant.
LEMMA SearchFromStep ==
    ASSUME SearchInv, NEW n \in Node, SearchFrom(n)
    PROVE  SearchInv'
<1>1. /\ result = "unknown" /\ stack = <<>> /\ Call(n, <<>>)
      /\ todo' = todo \ {n} /\ children' = children /\ finished' = finished
    BY DEF SearchFrom
<1>2. n \notin visited \ finished
    <2>1. {stack[i].node : i \in DOMAIN stack} = {}
        BY <1>1
    <2> QED
        BY <2>1, <1>1 DEF SearchInv, MarksAreRight
<1>3. <<>> \in Seq(CallFrame) /\ Callers(<<>>, 0, n)
    BY <1>1 DEF Callers
<1> QED
    BY <1>1, <1>2, <1>3, CallStep

\* A call for a child keeps the invariant.
LEMMA FollowStep ==
    ASSUME SearchInv, NEW c \in Node, Follow(c)
    PROVE  SearchInv'
<1>1. /\ result = "unknown" /\ stack # <<>> /\ c \in Top.rest
      /\ Call(c, Advanced(stack, c))
      /\ todo' = todo /\ children' = children /\ finished' = finished
    BY DEF Follow
<1>2. stack \in Seq(CallFrame) /\ Len(stack) \in Nat
    BY StackFacts DEF SearchInv, SearchTypeOK, CallFrame
<1>3. c \in visited \ finished => HasCycle(children)
    BY <1>1, PathClosesCircle
<1> DEFINE s == Advanced(stack, c)
<1>4. /\ s \in Seq(CallFrame) /\ Len(s) = Len(stack)
      /\ \A i \in 1 .. Len(s) : /\ s[i].node = stack[i].node
                                /\ i # Len(s) => s[i].rest = stack[i].rest
      /\ s[Len(s)].rest = stack[Len(s)].rest \ {c}
    BY <1>1, <1>2, AdvanceFacts
<1>5. Callers(s, Len(stack), c)
    BY <1>1, <1>2, <1>4 DEF Top, Callers
<1> HIDE DEF s
<1>6. Call(c, s)
    BY <1>1 DEF s
<1> QED
    BY <1>1, <1>2, <1>3, <1>4, <1>5, <1>6, CallStep

\* So does a step that changes nothing.
LEMMA SearchStutters ==
    ASSUME SearchInv, UNCHANGED searchVars
    PROVE  SearchInv'
<1> USE DEF searchVars
<1>1. SearchTypeOK'
    BY DEF SearchInv, SearchTypeOK
<1>2. MarksAreRight'
    BY DEF SearchInv, MarksAreRight
<1>3. AnswersHasCycle'
    BY DEF SearchInv, AnswersHasCycle
<1>4. (result = "unknown" => Searching)'
    BY DEF SearchInv, Searching, StackIsPath, FrameIsRight, NoFinishedCircle
<1> QED
    BY <1>1, <1>2, <1>3, <1>4 DEF SearchInv

-----------------------------------------------------------------------------
\* The inductive invariant holds of the search, and with it every part of it.
THEOREM SpecSearchInv == SearchSpec => []SearchInv
<1>1. SearchInit => SearchInv
    BY InitSearchInv
<1>2. SearchInv /\ [SearchNext]_searchVars => SearchInv'
    <2> SUFFICES ASSUME SearchInv, [SearchNext]_searchVars
                 PROVE  SearchInv'
        OBVIOUS
    <2>1. CASE \E n \in Node : SearchFrom(n) \/ Follow(n)
        BY <2>1, SearchFromStep, FollowStep
    <2>2. CASE Finish
        BY <2>2, FinishStep
    <2>3. CASE NoneFound
        BY <2>3, NoneFoundStep
    <2>4. CASE UNCHANGED searchVars
        BY <2>4, SearchStutters
    <2> QED
        BY <2>1, <2>2, <2>3, <2>4 DEF SearchNext
<1> QED
    BY <1>1, <1>2, PTL DEF SearchSpec

\* The marks of mixer.cpp's search mean what the early returns take them for.
THEOREM SpecMarksAreRight == SearchSpec => []MarksAreRight
BY SpecSearchInv, PTL DEF SearchInv

\* has_cycle of mixer.cpp answers true for the graphs with a cycle and for no
\* other, whatever the number of channels and the order of the search.
THEOREM SpecAnswersHasCycle == SearchSpec => []AnswersHasCycle
BY SpecSearchInv, PTL DEF SearchInv

-----------------------------------------------------------------------------
(***************************************************************************)
(* What the strips show.  Every action at a strip is one of the mixer, or  *)
(* leaves the routes alone, so that the invariant of the routes holds      *)
(* here, too; with it, the type of the output buses and the names, each    *)
(* part of StripsShowRoutes follows from the state alone but for the entry *)
(* that was chosen, which is followed through the action that chose it.    *)
(***************************************************************************)

LEMMA LeastIsThere ==
    ASSUME NEW values \in SUBSET Nat, values # {}
    PROVE  \E x \in values : \A y \in values : x <= y
<1>1. PICK x \in values : \A y \in values : ~(<<y, x>> \in OpToRel(<, Nat))
    <2>1. IsWellFoundedOn(OpToRel(<, Nat), Nat)
        BY NatLessThanWellFounded
    <2> QED
        BY <2>1, WFMin
<1>2. \A y \in values : x <= y
    <2> SUFFICES ASSUME NEW y \in values PROVE x <= y
        OBVIOUS
    <2>1. x \in Nat /\ y \in Nat
        OBVIOUS
    <2>2. ~(y < x)
        BY <1>1, <2>1 DEF OpToRel
    <2> QED
        BY <2>1, <2>2
<1> QED
    BY <1>2

\* The buses of one type among the first k of a list, as the strip collects them.
AreRoutes(routes, list, type, k) ==
    routes = [n \in 0 .. k |->
                IF n = 0 THEN <<>>
                ELSE IF buses[list[n]].bus_type = type THEN Append(routes[n - 1], list[n])
                ELSE routes[n - 1]]

\* The list is there: the recursion that defines it ends.
LEMMA RoutesAreThere ==
    ASSUME NEW list \in Seq(Bus), NEW type, NEW m \in 0 .. Len(list)
    PROVE  \E routes \in [0 .. m -> Seq(Bus)] : AreRoutes(routes, list, type, m)
<1> DEFINE There(k) == \E routes \in [0 .. k -> Seq(Bus)] : AreRoutes(routes, list, type, k)
           Lacking == {k \in 0 .. m : ~There(k)}
<1>1. PICK l \in Nat : l = Len(list)
    OBVIOUS
<1>2. m \in 0 .. l /\ \A i \in 1 .. l : list[i] \in Bus
    BY <1>1
<1>3. ASSUME Lacking # {} PROVE FALSE
    <2>1. PICK k \in Lacking : \A j \in Lacking : k <= j
        <3>1. Lacking \in SUBSET Nat
            BY <1>2
        <3> HIDE DEF Lacking
        <3> QED
            BY <1>3, <3>1, LeastIsThere
    <2>2. k \in 0 .. m /\ ~There(k)
        OBVIOUS
    <2>3. k \in Nat /\ k <= l
        BY <1>2, <2>2
    <2>4. k # 0
        <3> DEFINE z == [n \in 0 .. 0 |-> <<>>]
        <3>1. z \in [0 .. 0 -> Seq(Bus)]
            OBVIOUS
        <3>2. z = [n \in 0 .. 0 |->
                    IF n = 0 THEN <<>>
                    ELSE IF buses[list[n]].bus_type = type THEN Append(z[n - 1], list[n])
                    ELSE z[n - 1]]
            OBVIOUS
        <3>3. There(0)
            <4> HIDE DEF z
            <4> QED
                BY <3>1, <3>2 DEF AreRoutes
        <3> QED
            BY <2>2, <3>3
    <2>5. k - 1 \notin Lacking /\ k - 1 \in 0 .. m
        <3> HIDE DEF Lacking
        <3> QED
            BY <1>2, <2>1, <2>2, <2>3, <2>4
    <2>6. PICK f \in [0 .. k - 1 -> Seq(Bus)] : AreRoutes(f, list, type, k - 1)
        BY <2>5
    <2> DEFINE new == IF buses[list[k]].bus_type = type THEN Append(f[k - 1], list[k])
                      ELSE f[k - 1]
               g == [n \in 0 .. k |-> IF n = k THEN new ELSE f[n]]
    <2>7. f[k - 1] \in Seq(Bus) /\ list[k] \in Bus
        BY <1>2, <2>3, <2>4
    <2>8. new \in Seq(Bus)
        <3>1. Append(f[k - 1], list[k]) \in Seq(Bus)
            BY <2>7
        <3> QED
            BY <2>7, <3>1
    <2> HIDE DEF new
    <2>9. g \in [0 .. k -> Seq(Bus)]
        BY <2>3, <2>4, <2>8
    <2>10. g[k] = new /\ g[k - 1] = f[k - 1] /\ \A n \in 0 .. k - 1 : g[n] = f[n]
        BY <2>3, <2>4
    <2>11. ASSUME NEW n \in 0 .. k
           PROVE  g[n] = IF n = 0 THEN <<>>
                         ELSE IF buses[list[n]].bus_type = type THEN Append(g[n - 1], list[n])
                         ELSE g[n - 1]
        <3> HIDE DEF g
        <3>1. CASE n = k
            BY <2>4, <2>10, <3>1 DEF new
        <3>2. CASE n # k
            <4>1. n \in 0 .. k - 1
                BY <2>3, <3>2
            <4>2. n # 0 => n - 1 \in 0 .. k - 1
                BY <2>3, <4>1
            <4>3. f[n] = IF n = 0 THEN <<>>
                         ELSE IF buses[list[n]].bus_type = type THEN Append(f[n - 1], list[n])
                         ELSE f[n - 1]
                BY <2>6, <4>1 DEF AreRoutes
            <4> QED
                BY <2>10, <4>1, <4>2, <4>3
        <3> QED
            BY <3>1, <3>2
    <2>12. AreRoutes(g, list, type, k)
        <3>1. g = [n \in 0 .. k |-> g[n]]
            OBVIOUS
        <3> HIDE DEF g
        <3> QED
            BY <2>11, <3>1 DEF AreRoutes
    <2>13. There(k)
        <3> HIDE DEF g
        <3> QED
            BY <2>9, <2>12
    <2> QED
        BY <2>2, <2>13
<1> QED
    <2>1. m \notin Lacking /\ m \in 0 .. m
        BY <1>2, <1>3
    <2> QED
        BY <2>1

\* It holds the buses of the type and no others.
LEMMA RoutesHold ==
    ASSUME NEW list \in Seq(Bus), NEW type, NEW m \in 0 .. Len(list),
           NEW f, AreRoutes(f, list, type, m)
    PROVE  /\ f[m] \in Seq(Bus)
           /\ Range(f[m]) = {list[i] : i \in {i \in 1 .. m : buses[list[i]].bus_type = type}}
<1> DEFINE Of(k) == {list[i] : i \in {i \in 1 .. k : buses[list[i]].bus_type = type}}
           Right(k) == f[k] \in Seq(Bus) /\ Range(f[k]) = Of(k)
           Wrong == {k \in 0 .. m : ~Right(k)}
<1>1. PICK l \in Nat : l = Len(list)
    OBVIOUS
<1>2. m \in 0 .. l /\ \A i \in 1 .. l : list[i] \in Bus
    BY <1>1
<1>3. \A n \in 0 .. m :
        f[n] = IF n = 0 THEN <<>>
               ELSE IF buses[list[n]].bus_type = type THEN Append(f[n - 1], list[n])
               ELSE f[n - 1]
    BY DEF AreRoutes
<1>4. ASSUME Wrong # {} PROVE FALSE
    <2>1. PICK k \in Wrong : \A j \in Wrong : k <= j
        <3>1. Wrong \in SUBSET Nat
            BY <1>2
        <3> HIDE DEF Wrong
        <3> QED
            BY <1>4, <3>1, LeastIsThere
    <2>2. k \in 0 .. m /\ ~Right(k) /\ k \in Nat /\ k <= l
        BY <1>2
    <2>3. k # 0
        <3>1. f[0] = <<>>
            BY <1>2, <1>3
        <3>2. Range(<<>>) = {}
            BY DEF Range
        <3>3. Of(0) = {}
            OBVIOUS
        <3>4. Right(0)
            BY <3>1, <3>2, <3>3
        <3> QED
            BY <2>2, <3>4
    <2>4. k - 1 \notin Wrong /\ k - 1 \in 0 .. m /\ k \in 1 .. l
        <3> HIDE DEF Wrong
        <3> QED
            BY <1>2, <2>1, <2>2, <2>3
    <2>5. f[k - 1] \in Seq(Bus) /\ Range(f[k - 1]) = Of(k - 1) /\ list[k] \in Bus
        BY <1>2, <2>4
    <2>6. \A i \in 1 .. k : i = k \/ i \in 1 .. k - 1
        BY <2>2, <2>3
    <2>7. \A i \in 1 .. k - 1 : i \in 1 .. k
        BY <2>2, <2>3
    <2>8. k \in 1 .. k
        BY <2>2, <2>3
    <2>9. CASE buses[list[k]].bus_type = type
        <3>1. f[k] = Append(f[k - 1], list[k])
            BY <1>3, <2>2, <2>3, <2>9
        <3>2. f[k] \in Seq(Bus)
            BY <2>5, <3>1
        <3>3. Range(f[k]) = Range(f[k - 1]) \cup {list[k]}
            <4>1. PICK s \in Seq(Bus) : s = f[k - 1]
                BY <2>5
            <4>2. PICK e \in Bus : e = list[k]
                BY <2>5
            <4>3. PICK n \in Nat : n = Len(s)
                OBVIOUS
            <4>4. /\ DOMAIN s = 1 .. n /\ DOMAIN Append(s, e) = 1 .. n + 1
                  /\ Append(s, e)[n + 1] = e /\ \A i \in 1 .. n : Append(s, e)[i] = s[i]
                BY <4>3
            <4>5. PICK t : t = Append(s, e)
                OBVIOUS
            <4>6. \A i \in 1 .. n + 1 : i = n + 1 \/ i \in 1 .. n
                OBVIOUS
            <4>7. (\A i \in 1 .. n : i \in 1 .. n + 1) /\ n + 1 \in 1 .. n + 1
                OBVIOUS
            <4>8. Range(t) = Range(s) \cup {e}
                BY <4>4, <4>5, <4>6, <4>7 DEF Range
            <4> QED
                BY <3>1, <4>1, <4>2, <4>5, <4>8
        <3>4. Of(k) = Of(k - 1) \cup {list[k]}
            BY <2>6, <2>7, <2>8, <2>9
        <3> QED
            BY <2>2, <2>5, <3>2, <3>3, <3>4
    <2>10. CASE buses[list[k]].bus_type # type
        <3>1. f[k] = f[k - 1]
            BY <1>3, <2>2, <2>3, <2>10
        <3>2. Of(k) = Of(k - 1)
            BY <2>6, <2>7, <2>10
        <3> QED
            BY <2>2, <2>5, <3>1, <3>2
    <2> QED
        BY <2>9, <2>10
<1>5. m \in 0 .. m
    BY <1>2
<1>6. m \notin Wrong
    <2> HIDE DEF Wrong
    <2> QED
        BY <1>4
<1> QED
    BY <1>5, <1>6

\* The list of the devices that a menu offers: those of its type.
LEMMA DeviceRoutesFacts ==
    ASSUME NEW list \in Seq(Bus), NEW type
    PROVE  /\ DeviceRoutes(list, type) \in Seq(Bus)
           /\ Range(DeviceRoutes(list, type)) = {b \in Range(list) : buses[b].bus_type = type}
<1> DEFINE Is(routes) ==
              routes = [n \in 0 .. Len(list) |->
                IF n = 0 THEN <<>>
                ELSE IF buses[list[n]].bus_type = type THEN Append(routes[n - 1], list[n])
                ELSE routes[n - 1]]
           r == CHOOSE routes : Is(routes)
<1>1. DeviceRoutes(list, type) = r[Len(list)]
    BY DEF DeviceRoutes
<1>2. Len(list) \in 0 .. Len(list) /\ Len(list) \in Nat
    OBVIOUS
<1>3. \A routes : Is(routes) <=> AreRoutes(routes, list, type, Len(list))
    BY DEF AreRoutes
<1>4. \E routes : Is(routes)
    <2>1. \E routes \in [0 .. Len(list) -> Seq(Bus)] : AreRoutes(routes, list, type, Len(list))
        BY <1>2, RoutesAreThere
    <2> HIDE DEF Is
    <2> QED
        BY <1>3, <2>1
<1>5. Is(r)
    <2> HIDE DEF Is
    <2> QED
        BY <1>4
<1> HIDE DEF Is, r
<1>6. AreRoutes(r, list, type, Len(list))
    BY <1>3, <1>5
<1>7. r[Len(list)] \in Seq(Bus)
    BY <1>2, <1>6, RoutesHold
<1>8. Range(r[Len(list)]) =
        {list[i] : i \in {i \in 1 .. Len(list) : buses[list[i]].bus_type = type}}
    BY <1>2, <1>6, RoutesHold
<1>9. DOMAIN list = 1 .. Len(list)
    OBVIOUS
<1>10. Range(r[Len(list)]) = {b \in Range(list) : buses[b].bus_type = type}
    BY <1>8, <1>9 DEF Range
<1> QED
    BY <1>1, <1>7, <1>10

\* A set is made a list that holds its elements.
LEMMA SetToSeqFacts ==
    ASSUME NEW S, IsFiniteSet(S)
    PROVE  Range(SetToSeq(S)) = S
<1> DEFINE n == Cardinality(S)
           s == SetToSeq(S)
<1>1. n \in Nat /\ ExistsBijection(1 .. n, S)
    BY FS_CardinalityType
<1>2. \E f \in [1 .. n -> S] : IsInjective(f)
    <2>1. PICK f \in Bijection(1 .. n, S) : TRUE
        BY <1>1 DEF ExistsBijection
    <2>2. f \in [1 .. n -> S] /\ \A i, j \in 1 .. n : f[i] = f[j] => i = j
        BY <2>1 DEF Bijection, Injection, IsInjective
    <2> QED
        BY <2>2 DEF IsInjective
<1>3. s \in [1 .. n -> S] /\ IsInjective(s)
    <2>1. s = CHOOSE f \in [1 .. n -> S] : IsInjective(f)
        BY DEF SetToSeq
    <2> HIDE DEF s, n
    <2> QED
        BY <1>2, <2>1
<1>4. s \in Injection(1 .. n, S)
    <2> HIDE DEF s, n
    <2> QED
        BY <1>3 DEF Injection, IsInjective
<1>5. Cardinality(1 .. n) = n
    <2>1. Cardinality(1 .. n) = IF 1 > n THEN 0 ELSE n - 1 + 1
        BY <1>1, FS_Interval
    <2> HIDE DEF n
    <2> QED
        BY <1>1, <2>1
<1>6. s \in Surjection(1 .. n, S)
    <2> HIDE DEF s
    <2> QED
        BY <1>4, <1>5, FS_Injection
<1> HIDE DEF s, n
<1>7. Range(s) = S
    BY <1>3, <1>6 DEF Surjection, Range
<1> QED
    BY <1>7 DEF s

-----------------------------------------------------------------------------
\* An output bus is always stereo, for all outputs are offered to every channel.
OutputsAreStereo == \A b \in Range(device_outputs) : buses[b].bus_type = "stereo"

\* No channel is called like the mix.
NamesAreTold == DOMAIN names = DOMAIN channels /\ \A c \in DOMAIN channels : names[c] # Mix

\* No channel is sent to itself, whether it mixes or not.
NoneSendsToItself == \A c \in DOMAIN channels : channels[c].out # c

StripInv == IInv /\ OutputsAreStereo /\ NamesAreTold /\ NoneSendsToItself

\* The channels are finitely many: all but Main are in the list.
LEMMA ChannelsAreFinite ==
    ASSUME TypeOK, ListsAgree
    PROVE  IsFiniteSet(DOMAIN channels)
<1>1. PICK n \in Nat : n = Len(inputs)
    BY DEF TypeOK
<1>2. DOMAIN inputs = 1 .. n /\ IsFiniteSet(1 .. n)
    <2>1. DOMAIN inputs = 1 .. n
        BY <1>1 DEF TypeOK
    <2>2. IsFiniteSet(1 .. n)
        BY FS_Interval
    <2> QED
        BY <2>1, <2>2
<1>3. inputs \in Surjection(1 .. n, Range(inputs))
    <2>1. inputs \in [1 .. n -> Range(inputs)]
        BY <1>1, <1>2 DEF TypeOK, Range
    <2> QED
        BY <1>2, <2>1 DEF Surjection, Range
<1>4. IsFiniteSet(Range(inputs))
    BY <1>2, <1>3, FS_Surjection
<1>5. DOMAIN channels = Range(inputs) \cup {Main}
    BY DEF TypeOK, ListsAgree
<1> QED
    BY <1>4, <1>5, FS_AddElement

\* A channel that is its own source closes a cycle.
LEMMA OwnSourceCloses ==
    ASSUME NEW chs, NEW c \in DOMAIN chs, chs[c].in = c
    PROVE  RoutesHaveCycle(chs)
<1> DEFINE G == IoChildren(chs, Default)
<1>1. DOMAIN G = DOMAIN chs /\ c \in G[c]
    BY DEF IoChildren, Mixes
<1>2. Circles(G, {c}) /\ {c} \in SUBSET DOMAIN G
    BY <1>1 DEF Circles
<1> QED
    BY <1>2 DEF RoutesHaveCycle, HasCycle

\* Setting a route to what it is changes nothing.
LEMMA SetToItself ==
    ASSUME TypeOK, NEW c \in DOMAIN channels
    PROVE  /\ InputSet(c, channels[c].in) = channels
           /\ OutputSet(c, channels[c].out) = channels
<1>1. channels \in [DOMAIN channels -> ChannelRecord]
    BY TypeFacts
<1>2. channels[c] \in ChannelRecord
    BY <1>1
<1>3. Route(channels[c], channels[c].in, channels[c].out) = channels[c]
    BY <1>2 DEF Route, ChannelRecord
<1>4. InputSet(c, channels[c].in) =
        [channels EXCEPT ![c] = Route(channels[c], channels[c].in, channels[c].out)]
    BY DEF InputSet
<1>5. OutputSet(c, channels[c].out) =
        [channels EXCEPT ![c] = Route(channels[c], channels[c].in, channels[c].out)]
    BY DEF OutputSet
<1>6. [channels EXCEPT ![c] = channels[c]] = channels
    BY <1>1
<1> QED
    BY <1>3, <1>4, <1>5, <1>6

\* What the menus of a channel list.
LEMMA MenusFacts ==
    ASSUME IInv, NEW c \in DOMAIN channels
    PROVE  /\ Range(Menus(c).input_devices) = InputDevices(channels[c].bus_type)
           /\ Range(Menus(c).output_devices) = OutputDevices
           /\ Range(Menus(c).input_channels) = {s \in DOMAIN channels : ValidSource(c, s)}
           /\ Range(Menus(c).output_channels) = {t \in DOMAIN channels : ValidTarget(c, t)}
<1>1. TypeOK /\ ListsAgree
    BY DEF IInv
<1>2. device_inputs \in Seq(Bus) /\ device_outputs \in Seq(Bus)
    BY <1>1 DEF TypeOK
<1>3. Range(Menus(c).input_devices) = InputDevices(channels[c].bus_type)
    <2>1. Menus(c).input_devices = DeviceRoutes(device_inputs, channels[c].bus_type)
        BY DEF Menus, InputDeviceList
    <2> QED
        BY <1>2, <2>1, DeviceRoutesFacts DEF InputDevices
<1>4. Range(Menus(c).output_devices) = OutputDevices
    <2>1. Menus(c).output_devices = DeviceRoutes(device_outputs, "stereo")
        BY DEF Menus, OutputDeviceList
    <2> QED
        BY <1>2, <2>1, DeviceRoutesFacts DEF OutputDevices
<1>5. IsFiniteSet(DOMAIN channels)
    BY <1>1, ChannelsAreFinite
<1>6. \A S \in SUBSET DOMAIN channels : Range(SetToSeq(S)) = S
    BY <1>5, FS_Subset, SetToSeqFacts
<1>7. Range(Menus(c).input_channels) = {s \in DOMAIN channels : ValidSource(c, s)}
    <2>1. Menus(c).input_channels = SetToSeq({s \in DOMAIN channels : ValidSource(c, s)})
        BY DEF Menus, InputChannelList
    <2> QED
        BY <1>6, <2>1
<1>8. Range(Menus(c).output_channels) = {t \in DOMAIN channels : ValidTarget(c, t)}
    <2>1. Menus(c).output_channels = SetToSeq({t \in DOMAIN channels : ValidTarget(c, t)})
        BY DEF Menus, OutputChannelList
    <2> QED
        BY <1>6, <2>1
<1> QED
    BY <1>3, <1>4, <1>7, <1>8

\* An entry of a menu is of what the menu lists.
LEMMA EntryFacts ==
    ASSUME NEW list, NEW index \in DOMAIN list
    PROVE  list[index] \in Range(list)
BY DEF Range

-----------------------------------------------------------------------------
\* The parts of the property that hold of every state with the invariant.

LEMMA ShownIsOfferedHolds ==
    ASSUME StripInv
    PROVE  ShownIsOffered
<1> SUFFICES ASSUME ~RoutesHaveCycle(channels), NEW c \in DOMAIN channels
             PROVE
                /\ channels[c].in \in Channel =>
                        channels[c].in \in Range(Menus(c).input_channels)
                /\ channels[c].in \in Bus
                        /\ buses[channels[c].in].bus_type = channels[c].bus_type =>
                            channels[c].in \in Range(Menus(c).input_devices)
                /\ channels[c].in = Default => EditStrip(c).default_input_is_valid
                /\ channels[c].out \in Channel =>
                        channels[c].out \in Range(Menus(c).output_channels)
                /\ channels[c].out \in Bus => channels[c].out \in Range(Menus(c).output_devices)
    BY DEF ShownIsOffered
<1>1. /\ TypeOK /\ ListsAgree /\ RoutesResolve /\ MonoTakesNoChannel
      /\ OutputsAreStereo /\ IInv
    BY DEF StripInv, IInv
<1>2. InputSet(c, channels[c].in) = channels /\ OutputSet(c, channels[c].out) = channels
    BY <1>1, SetToItself
<1>3. ASSUME channels[c].in \in Channel
      PROVE  channels[c].in \in Range(Menus(c).input_channels)
    <2>1. channels[c].in \in DOMAIN channels
        BY <1>1, <1>3 DEF RoutesResolve
    <2>2. channels[c].bus_type # "mono"
        BY <1>1, <1>3 DEF MonoTakesNoChannel
    <2>3. channels[c].in # c
        <3> SUFFICES ASSUME channels[c].in = c PROVE FALSE
            OBVIOUS
        <3>1. RoutesHaveCycle(channels)
            BY OwnSourceCloses
        <3> QED
            BY <3>1
    <2>4. ValidSource(c, channels[c].in)
        BY <1>2, <2>2, <2>3 DEF ValidSource
    <2> QED
        BY <1>1, <2>1, <2>4, MenusFacts
<1>4. ASSUME channels[c].in \in Bus, buses[channels[c].in].bus_type = channels[c].bus_type
      PROVE  channels[c].in \in Range(Menus(c).input_devices)
    <2>1. channels[c].in \in Range(device_inputs)
        BY <1>1, <1>4 DEF RoutesResolve
    <2>2. channels[c].in \in InputDevices(channels[c].bus_type)
        BY <1>4, <2>1 DEF InputDevices
    <2> QED
        BY <1>1, <2>2, MenusFacts
<1>5. ASSUME channels[c].in = Default
      PROVE  EditStrip(c).default_input_is_valid
    <2>1. DefaultSourceValid(c)
        BY <1>2, <1>5 DEF DefaultSourceValid
    <2>2. EditStrip(c).default_input_is_valid = DefaultSourceValid(c)
        BY DEF EditStrip
    <2> QED
        BY <2>1, <2>2
<1>6. ASSUME channels[c].out \in Channel
      PROVE  channels[c].out \in Range(Menus(c).output_channels)
    <2>1. channels[c].out \in DOMAIN channels
        BY <1>1, <1>6 DEF RoutesResolve
    <2>2. channels[channels[c].out].bus_type # "mono"
        BY <1>1, <2>1 DEF MonoTakesNoChannel
    <2>3. channels[c].out # c
        BY DEF StripInv, NoneSendsToItself
    <2>4. ValidTarget(c, channels[c].out)
        BY <1>2, <2>2, <2>3 DEF ValidTarget
    <2> QED
        BY <1>1, <2>1, <2>4, MenusFacts
<1>7. ASSUME channels[c].out \in Bus
      PROVE  channels[c].out \in Range(Menus(c).output_devices)
    <2>1. channels[c].out \in Range(device_outputs)
        BY <1>1, <1>7 DEF RoutesResolve
    <2>2. channels[c].out \in OutputDevices
        BY <1>1, <2>1 DEF OutputDevices, OutputsAreStereo
    <2> QED
        BY <1>1, <2>2, MenusFacts
<1> QED
    BY <1>3, <1>4, <1>5, <1>6, <1>7

\* A bus is not called like the mix.
LEMMA BusNamesAreTold ==
    ASSUME NEW name \in BusName
    PROVE  name # Mix
<1>1. CASE name \in UserName
    BY <1>1, UserNameAssumption
<1>2. CASE name \in {"In"} \X Nat \X BusType
    <2>1. name[1] = "In"
        BY <1>2
    <2>2. Mix[1] = "Mix"
        BY DEF Mix
    <2> QED
        BY <2>1, <2>2
<1>3. CASE name \in {"Speaker"} \X Nat
    <2>1. name[1] = "Speaker"
        BY <1>3
    <2>2. Mix[1] = "Mix"
        BY DEF Mix
    <2> QED
        BY <2>1, <2>2
<1> QED
    BY <1>1, <1>2, <1>3 DEF BusName

\* The input that a strip shows is the mix exactly if the channel mixes.
LEMMA InputShownIsMix ==
    ASSUME StripInv, NEW c \in DOMAIN channels, channels[c].bus_type # "mono"
    PROVE  EditStrip(c).input.name # Mix <=> channels[c].in # Default
<1>1. TypeOK /\ RoutesResolve /\ NamesAreTold
    BY DEF StripInv, IInv
<1>2. channels[c].in \in Address
    BY <1>1, TypeFacts
<1>3. EditStrip(c).input = SelectedInput(c)
    BY DEF EditStrip
<1>4. CASE channels[c].in = Default
    <2>1. SelectedInput(c) = Shown("valid", DefaultInputText(c))
        BY <1>4, AddressAssumption DEF SelectedInput
    <2>2. DefaultInputText(c) = Mix
        BY DEF DefaultInputText
    <2> QED
        BY <1>3, <1>4, <2>1, <2>2 DEF Shown
<1>5. CASE channels[c].in \in Channel
    <2>1. channels[c].in # Default
        BY <1>5, AddressAssumption
    <2>2. SelectedInput(c) = Shown("valid", names[channels[c].in])
        BY <1>5, <2>1 DEF SelectedInput
    <2>3. names[channels[c].in] # Mix
        BY <1>1, <1>5 DEF RoutesResolve, NamesAreTold
    <2> QED
        BY <1>3, <2>1, <2>2, <2>3 DEF Shown
<1>6. CASE channels[c].in \in Bus
    <2>1. channels[c].in # Default /\ channels[c].in \notin Channel
        BY <1>6, AddressAssumption
    <2>2. SelectedInput(c) = Shown("valid", buses[channels[c].in].name)
        BY <1>6, <2>1 DEF SelectedInput, SelectedDevice
    <2>3. channels[c].in \in DOMAIN buses
        <3>1. channels[c].in \in Range(device_inputs)
            BY <1>1, <1>6 DEF RoutesResolve
        <3> QED
            BY <3>1 DEF StripInv, IInv, ListsAgree
    <2>4. buses[channels[c].in].name \in BusName
        <3>1. buses[channels[c].in] \in BusRecord
            BY <1>1, <2>3, TypeFacts
        <3> QED
            BY <3>1 DEF BusRecord
    <2> QED
        BY <1>3, <2>1, <2>2, <2>4, BusNamesAreTold DEF Shown
<1>7. CASE channels[c].in \in BusName
    <2>1. channels[c].in # Default /\ channels[c].in \notin Channel \cup Bus
        BY <1>7, AddressAssumption
    <2>2. SelectedInput(c) = Shown("invalid", channels[c].in)
        BY <2>1 DEF SelectedInput, SelectedDevice
    <2> QED
        BY <1>3, <1>7, <2>1, <2>2, BusNamesAreTold DEF Shown
<1> QED
    BY <1>2, <1>4, <1>5, <1>6, <1>7 DEF Address

LEMMA NotMixedAgreesHolds ==
    ASSUME StripInv
    PROVE  NotMixedAgrees
<1> SUFFICES ASSUME NEW c \in DOMAIN channels
             PROVE  EditStrip(c).output.state = "not_mixed" <=>
                        /\ channels[c].out \in Channel
                        /\ EditStrip(channels[c].out).input.name # Mix
    BY DEF NotMixedAgrees
<1>1. EditStrip(c).output = SelectedOutput(c)
    BY DEF EditStrip
<1>2. CASE channels[c].out = Default
    <2>1. SelectedOutput(c) = Shown("valid", None) /\ channels[c].out \notin Channel
        BY <1>2, AddressAssumption DEF SelectedOutput
    <2> QED
        BY <1>1, <2>1 DEF Shown
<1>3. CASE channels[c].out \in Channel
    <2>1. channels[c].out # Default
        BY <1>3, AddressAssumption
    <2> DEFINE state == IF channels[channels[c].out].in = Default THEN "valid" ELSE "not_mixed"
    <2>2. SelectedOutput(c) = Shown(state, names[channels[c].out])
        BY <1>3, <2>1 DEF SelectedOutput
    <2>3. EditStrip(c).output.state = state
        BY <1>1, <2>2 DEF Shown
    <2>4. channels[c].out \in DOMAIN channels
        BY <1>3 DEF StripInv, IInv, RoutesResolve
    <2>5. channels[channels[c].out].bus_type # "mono"
        BY <2>4 DEF StripInv, IInv, MonoTakesNoChannel
    <2>6. EditStrip(channels[c].out).input.name # Mix
            <=> channels[channels[c].out].in # Default
        BY <2>4, <2>5, InputShownIsMix
    <2> QED
        BY <1>3, <2>3, <2>6
<1>4. CASE channels[c].out # Default /\ channels[c].out \notin Channel
    <2>1. SelectedOutput(c) = SelectedDevice(channels[c].out)
        BY <1>4 DEF SelectedOutput
    <2>2. SelectedDevice(channels[c].out).state \in {"valid", "invalid"}
        BY DEF SelectedDevice, Shown
    <2> QED
        BY <1>1, <1>4, <2>1, <2>2
<1> QED
    BY <1>2, <1>3, <1>4

LEMMA SoloAgreesHolds == SoloAgrees
<1>1. \A c : PerformStrip(c).muted_by_solo = MutedBySolo(c)
    BY DEF PerformStrip
<1> SUFFICES ASSUME NEW c \in DOMAIN channels, NEW d \in DOMAIN channels,
                    channels[c].out = channels[d].out, MutedBySolo(c)
             PROVE  MutedBySolo(d) <=> d \notin solo
    BY <1>1 DEF SoloAgrees
<1> QED
    BY DEF MutedBySolo

-----------------------------------------------------------------------------
\* The entry that was chosen.

\* What a strip shows of an address that is set: the text of its entry.
LEMMA ChoiceShown ==
    ASSUME IInv, NEW c \in DOMAIN channels, names' = names, buses' = buses,
           DOMAIN channels' = DOMAIN channels, NEW a \in DOMAIN channels \cup DOMAIN buses
    PROVE  /\ channels'[c].in = a =>
                /\ EditStrip(c)'.input.name = MenuText(a)
                /\ EditStrip(c)'.input.state # "invalid"
           /\ channels'[c].out = a =>
                /\ EditStrip(c)'.output.name = MenuText(a)
                /\ EditStrip(c)'.output.state # "invalid"
<1>1. DOMAIN channels \subseteq Channel /\ DOMAIN buses \subseteq Bus
    BY DEF IInv, TypeOK
<1>2. a # Default /\ ~(a \in Channel /\ a \in Bus) /\ (a \in Channel \/ a \in Bus)
    BY <1>1, AddressAssumption
<1>3. EditStrip(c)'.input = SelectedInput(c)' /\ EditStrip(c)'.output = SelectedOutput(c)'
    BY DEF EditStrip
<1>4. ASSUME a \in Channel, channels'[c].in = a
      PROVE  SelectedInput(c)' = Shown("valid", names[a])
    BY <1>2, <1>4 DEF SelectedInput, Shown
<1>5. ASSUME a \in Channel, channels'[c].out = a
      PROVE  SelectedOutput(c)' =
                Shown(IF channels'[a].in = Default THEN "valid" ELSE "not_mixed", names[a])
    BY <1>2, <1>5 DEF SelectedOutput, Shown
<1>6. ASSUME a \in Bus, channels'[c].in = a
      PROVE  SelectedInput(c)' = Shown("valid", buses[a].name)
    BY <1>2, <1>6 DEF SelectedInput, SelectedDevice, Shown
<1>7. ASSUME a \in Bus, channels'[c].out = a
      PROVE  SelectedOutput(c)' = Shown("valid", buses[a].name)
    BY <1>2, <1>7 DEF SelectedOutput, SelectedDevice, Shown
<1>8. CASE a \in Channel
    <2>1. MenuText(a) = names[a]
        BY <1>2, <1>8 DEF MenuText
    <2> QED
        BY <1>3, <1>4, <1>5, <1>8, <2>1 DEF Shown
<1>9. CASE a \in Bus
    <2>1. MenuText(a) = buses[a].name
        BY <1>9 DEF MenuText
    <2> QED
        BY <1>3, <1>6, <1>7, <1>9, <2>1 DEF Shown
<1> QED
    BY <1>2, <1>8, <1>9

\* And of the default.
LEMMA DefaultShown ==
    ASSUME NEW c, channels'[c].bus_type = channels[c].bus_type
    PROVE  /\ channels'[c].in = Default =>
                /\ EditStrip(c)'.input.name = DefaultInputText(c)
                /\ EditStrip(c)'.input.state # "invalid"
           /\ channels'[c].out = Default =>
                /\ EditStrip(c)'.output.name = None
                /\ EditStrip(c)'.output.state # "invalid"
<1>1. EditStrip(c)'.input = SelectedInput(c)' /\ EditStrip(c)'.output = SelectedOutput(c)'
    BY DEF EditStrip
<1>2. DefaultInputText(c)' = DefaultInputText(c)
    BY DEF DefaultInputText
<1>3. channels'[c].in = Default => SelectedInput(c)' = Shown("valid", DefaultInputText(c))
    BY <1>2, AddressAssumption DEF SelectedInput, Shown
<1>4. channels'[c].out = Default => SelectedOutput(c)' = Shown("valid", None)
    BY AddressAssumption DEF SelectedOutput, Shown
<1> QED
    BY <1>1, <1>3, <1>4 DEF Shown

\* Setting an address sets it, and nothing else of the channel.
LEMMA SetFacts ==
    ASSUME IInv, NEW c \in DOMAIN channels, NEW a
    PROVE  /\ DOMAIN InputSet(c, a) = DOMAIN channels
           /\ DOMAIN OutputSet(c, a) = DOMAIN channels
           /\ InputSet(c, a)[c].in = a /\ InputSet(c, a)[c].bus_type = channels[c].bus_type
           /\ OutputSet(c, a)[c].out = a /\ OutputSet(c, a)[c].bus_type = channels[c].bus_type
           /\ \A d \in DOMAIN channels : InputSet(c, a)[d].out = channels[d].out
           /\ \A d \in DOMAIN channels :
                d # c => OutputSet(c, a)[d].out = channels[d].out
<1>1. PICK ch : ch = channels[c]
    OBVIOUS
<1>2. channels \in [DOMAIN channels -> ChannelRecord]
    BY TypeFacts DEF IInv
<1>3. InputSet(c, a) = [channels EXCEPT ![c] = Route(ch, a, ch.out)]
    BY <1>1 DEF InputSet
<1>4. OutputSet(c, a) = [channels EXCEPT ![c] = Route(ch, ch.in, a)]
    BY <1>1 DEF OutputSet
<1>5. /\ InputSet(c, a)[c] = Route(ch, a, ch.out)
      /\ OutputSet(c, a)[c] = Route(ch, ch.in, a)
    BY <1>2, <1>3, <1>4
<1>6. \A d \in DOMAIN channels :
        d # c => InputSet(c, a)[d] = channels[d] /\ OutputSet(c, a)[d] = channels[d]
    BY <1>2, <1>3, <1>4
<1>7. DOMAIN InputSet(c, a) = DOMAIN channels /\ DOMAIN OutputSet(c, a) = DOMAIN channels
    BY <1>2, <1>3, <1>4
<1>8. /\ InputSet(c, a)[c].in = a /\ InputSet(c, a)[c].bus_type = ch.bus_type
      /\ InputSet(c, a)[c].out = ch.out
    BY <1>5 DEF Route
<1>9. OutputSet(c, a)[c].out = a /\ OutputSet(c, a)[c].bus_type = ch.bus_type
    BY <1>5 DEF Route
<1>10. \A d \in DOMAIN channels : InputSet(c, a)[d].out = channels[d].out
    BY <1>1, <1>6, <1>8
<1> QED
    BY <1>1, <1>6, <1>7, <1>8, <1>9, <1>10

-----------------------------------------------------------------------------
\* Each action of a strip.

\* What each keeps of the invariant beside that of the routes, and that what it
\* chose is shown.
StripKept == OutputsAreStereo' /\ NamesAreTold' /\ NoneSendsToItself' /\ ChoiceIsShown'

\* An action that chooses an input.
LEMMA ChooseInputStep ==
    ASSUME StripInv, NEW c \in DOMAIN channels, NEW text, NEW a,
           Choose(c, "input", text, InputSet(c, a)),
           \/ a = Default /\ text = DefaultInputText(c)
           \/ a \in DOMAIN channels \cup DOMAIN buses /\ text = MenuText(a)
    PROVE  StripKept
<1>1. /\ channels' = InputSet(c, a) /\ chosen' = Chosen(c, "input", text)
      /\ UNCHANGED <<inputs, buses, device_inputs, device_outputs, names, solo>>
    BY DEF Choose, deviceVars
<1>2. IInv /\ OutputsAreStereo /\ NamesAreTold /\ NoneSendsToItself
    BY DEF StripInv
<1>3. /\ DOMAIN channels' = DOMAIN channels /\ channels'[c].in = a
      /\ channels'[c].bus_type = channels[c].bus_type
      /\ \A d \in DOMAIN channels : channels'[d].out = channels[d].out
    BY <1>1, <1>2, SetFacts
<1>4. EditStrip(c)'.input.name = text /\ EditStrip(c)'.input.state # "invalid"
    <2>1. CASE a = Default /\ text = DefaultInputText(c)
        BY <1>3, <2>1, DefaultShown
    <2>2. CASE a \in DOMAIN channels \cup DOMAIN buses /\ text = MenuText(a)
        BY <1>1, <1>2, <1>3, <2>2, ChoiceShown
    <2> QED
        BY <2>1, <2>2
<1>5. ChoiceIsShown'
    <2>1. chosen'.channel = c /\ chosen'.dir = "input" /\ chosen'.text = text
        BY <1>1 DEF Chosen
    <2> QED
        BY <1>4, <2>1 DEF ChoiceIsShown
<1>6. OutputsAreStereo'
    BY <1>1, <1>2 DEF OutputsAreStereo
<1>7. NamesAreTold'
    BY <1>1, <1>2, <1>3 DEF NamesAreTold
<1>8. NoneSendsToItself'
    BY <1>2, <1>3 DEF NoneSendsToItself
<1> QED
    BY <1>5, <1>6, <1>7, <1>8 DEF StripKept

\* An action that chooses an output.
LEMMA ChooseOutputStep ==
    ASSUME StripInv, NEW c \in DOMAIN channels, NEW text, NEW a, a # c,
           Choose(c, "output", text, OutputSet(c, a)),
           \/ a = Default /\ text = None
           \/ a \in DOMAIN channels \cup DOMAIN buses /\ text = MenuText(a)
    PROVE  StripKept
<1>1. /\ channels' = OutputSet(c, a) /\ chosen' = Chosen(c, "output", text)
      /\ UNCHANGED <<inputs, buses, device_inputs, device_outputs, names, solo>>
    BY DEF Choose, deviceVars
<1>2. IInv /\ OutputsAreStereo /\ NamesAreTold /\ NoneSendsToItself
    BY DEF StripInv
<1>3. /\ DOMAIN channels' = DOMAIN channels /\ channels'[c].out = a
      /\ channels'[c].bus_type = channels[c].bus_type
      /\ \A d \in DOMAIN channels : d # c => channels'[d].out = channels[d].out
    BY <1>1, <1>2, SetFacts
<1>4. EditStrip(c)'.output.name = text /\ EditStrip(c)'.output.state # "invalid"
    <2>1. CASE a = Default /\ text = None
        BY <1>3, <2>1, DefaultShown
    <2>2. CASE a \in DOMAIN channels \cup DOMAIN buses /\ text = MenuText(a)
        BY <1>1, <1>2, <1>3, <2>2, ChoiceShown
    <2> QED
        BY <2>1, <2>2
<1>5. ChoiceIsShown'
    <2>1. chosen'.channel = c /\ chosen'.dir = "output" /\ chosen'.text = text
        BY <1>1 DEF Chosen
    <2> QED
        BY <1>4, <2>1 DEF ChoiceIsShown
<1>6. OutputsAreStereo'
    BY <1>1, <1>2 DEF OutputsAreStereo
<1>7. NamesAreTold'
    BY <1>1, <1>2, <1>3 DEF NamesAreTold
<1>8. NoneSendsToItself'
    BY <1>2, <1>3 DEF NoneSendsToItself
<1> QED
    BY <1>5, <1>6, <1>7, <1>8 DEF StripKept

\* The actions that choose an entry are actions of the mixer.
LEMMA InputActions ==
    ASSUME StripInv, NEW c \in DOMAIN channels, NEW index,
           \/ ChangeInputToDefault(c)
           \/ ChangeInputToDevice(c, index) \/ ChangeInputToChannel(c, index)
    PROVE  Next /\ StripKept
<1>1. IInv /\ ListsAgree /\ TypeOK
    BY DEF StripInv, IInv
<1>2. CASE ChangeInputToDefault(c)
    <2>1. Choose(c, "input", DefaultInputText(c), InputSet(c, Default))
        BY <1>2 DEF ChangeInputToDefault
    <2>2. DefaultSourceValid(c)
        BY <1>2 DEF ChangeInputToDefault, EditStrip
    <2>3. ChangeInput(c, Default)
        BY <2>1, <2>2 DEF Choose, ChangeInput
    <2>4. Next
        BY <2>3 DEF Next
    <2> QED
        BY <2>1, <2>4, ChooseInputStep
<1>3. CASE ChangeInputToDevice(c, index)
    <2>1. PICK a : a = Menus(c).input_devices[index]
        OBVIOUS
    <2>2. Choose(c, "input", MenuText(a), InputSet(c, a))
        BY <1>3, <2>1 DEF ChangeInputToDevice
    <2>3. a \in InputDevices(channels[c].bus_type)
        <3>1. index \in DOMAIN Menus(c).input_devices
            BY <1>3 DEF ChangeInputToDevice
        <3>2. a \in Range(Menus(c).input_devices)
            BY <2>1, <3>1, EntryFacts
        <3> QED
            BY <1>1, <3>2, MenusFacts
    <2>4. a \in DOMAIN buses /\ a \in Bus
        BY <1>1, <2>3 DEF InputDevices, ListsAgree, TypeOK
    <2>5. ChangeInput(c, a)
        BY <2>2, <2>3 DEF Choose, ChangeInput
    <2>6. Next
        BY <2>4, <2>5 DEF Next
    <2> QED
        BY <2>2, <2>4, <2>6, ChooseInputStep
<1>4. CASE ChangeInputToChannel(c, index)
    <2>1. PICK a : a = Menus(c).input_channels[index]
        OBVIOUS
    <2>2. Choose(c, "input", MenuText(a), InputSet(c, a))
        BY <1>4, <2>1 DEF ChangeInputToChannel
    <2>3. a \in DOMAIN channels /\ ValidSource(c, a)
        <3>1. index \in DOMAIN Menus(c).input_channels
            BY <1>4 DEF ChangeInputToChannel
        <3>2. a \in Range(Menus(c).input_channels)
            BY <2>1, <3>1, EntryFacts
        <3> QED
            BY <1>1, <3>2, MenusFacts
    <2>4. a \in Channel
        BY <1>1, <2>3 DEF TypeOK
    <2>5. ChangeInput(c, a)
        BY <2>2, <2>3 DEF Choose, ChangeInput
    <2>6. Next
        BY <2>4, <2>5 DEF Next
    <2> QED
        BY <2>2, <2>3, <2>6, ChooseInputStep
<1> QED
    BY <1>2, <1>3, <1>4

LEMMA OutputActions ==
    ASSUME StripInv, NEW c \in DOMAIN channels, NEW index,
           \/ ChangeOutputToNone(c)
           \/ ChangeOutputToDevice(c, index) \/ ChangeOutputToChannel(c, index)
    PROVE  Next /\ StripKept
<1>1. IInv /\ ListsAgree /\ TypeOK /\ c \in Channel
    BY DEF StripInv, IInv, TypeOK
<1>2. CASE ChangeOutputToNone(c)
    <2>1. Choose(c, "output", None, OutputSet(c, Default))
        BY <1>2 DEF ChangeOutputToNone
    <2>2. Default # c
        BY <1>1, AddressAssumption
    <2>3. ChangeOutput(c, Default)
        BY <2>1 DEF Choose, ChangeOutput
    <2>4. Next
        BY <2>3 DEF Next
    <2> QED
        BY <2>1, <2>2, <2>4, ChooseOutputStep
<1>3. CASE ChangeOutputToDevice(c, index)
    <2>1. PICK a : a = Menus(c).output_devices[index]
        OBVIOUS
    <2>2. Choose(c, "output", MenuText(a), OutputSet(c, a))
        BY <1>3, <2>1 DEF ChangeOutputToDevice
    <2>3. a \in OutputDevices
        <3>1. index \in DOMAIN Menus(c).output_devices
            BY <1>3 DEF ChangeOutputToDevice
        <3>2. a \in Range(Menus(c).output_devices)
            BY <2>1, <3>1, EntryFacts
        <3> QED
            BY <1>1, <3>2, MenusFacts
    <2>4. a \in DOMAIN buses /\ a \in Bus
        BY <1>1, <2>3 DEF OutputDevices, ListsAgree, TypeOK
    <2>5. a # c
        BY <1>1, <2>4, AddressAssumption
    <2>6. ChangeOutput(c, a)
        BY <2>2, <2>3 DEF Choose, ChangeOutput
    <2>7. Next
        BY <2>4, <2>6 DEF Next
    <2> QED
        BY <2>2, <2>4, <2>5, <2>7, ChooseOutputStep
<1>4. CASE ChangeOutputToChannel(c, index)
    <2>1. PICK a : a = Menus(c).output_channels[index]
        OBVIOUS
    <2>2. Choose(c, "output", MenuText(a), OutputSet(c, a))
        BY <1>4, <2>1 DEF ChangeOutputToChannel
    <2>3. a \in DOMAIN channels /\ ValidTarget(c, a)
        <3>1. index \in DOMAIN Menus(c).output_channels
            BY <1>4 DEF ChangeOutputToChannel
        <3>2. a \in Range(Menus(c).output_channels)
            BY <2>1, <3>1, EntryFacts
        <3> QED
            BY <1>1, <3>2, MenusFacts
    <2>4. a \in Channel /\ a # c
        BY <1>1, <2>3 DEF TypeOK, ValidTarget
    <2>5. ChangeOutput(c, a)
        BY <2>2, <2>3 DEF Choose, ChangeOutput
    <2>6. Next
        BY <2>4, <2>5 DEF Next
    <2> QED
        BY <2>2, <2>3, <2>4, <2>6, ChooseOutputStep
<1> QED
    BY <1>2, <1>3, <1>4

\* Choosing nothing, nothing has to be shown.
LEMMA NothingShown ==
    ASSUME chosen' = NothingChosen
    PROVE  ChoiceIsShown'
<1>1. NothingChosen.dir = "none"
    BY DEF NothingChosen
<1>2. ~(chosen'.dir # "none")
    BY <1>1
<1> QED
    BY <1>2 DEF ChoiceIsShown

\* The actions on a channel that choose no entry.
LEMMA ChannelActions ==
    ASSUME StripInv, NEW c \in DOMAIN channels,
           ChangeName(c, <<"Song">>) \/ Move(c) \/ DeleteChannel(c) \/ SetSolo(c)
    PROVE  [Next]_vars /\ StripKept
<1>1. /\ IInv /\ ListsAgree /\ TypeOK /\ OutputsAreStereo /\ NamesAreTold /\ NoneSendsToItself
      /\ c \in Channel
    BY DEF StripInv, IInv, TypeOK
<1>2. ASSUME UNCHANGED <<buses, device_outputs>>
      PROVE  OutputsAreStereo'
    BY <1>1, <1>2 DEF OutputsAreStereo
<1>3. CASE ChangeName(c, <<"Song">>)
    <2>1. /\ names' = [names EXCEPT ![c] = <<"Song">>] /\ chosen' = NothingChosen
          /\ UNCHANGED vars
        BY <1>3 DEF ChangeName
    <2>2. UNCHANGED <<channels, buses, device_outputs>>
        BY <2>1 DEF vars
    <2>3. <<"Song">> # Mix
        BY DEF Mix
    <2>4. NamesAreTold'
        <3>1. DOMAIN names' = DOMAIN channels'
            BY <1>1, <2>1, <2>2 DEF NamesAreTold
        <3>2. ASSUME NEW d \in DOMAIN channels PROVE names'[d] # Mix
            BY <1>1, <2>1, <2>3 DEF NamesAreTold
        <3> QED
            BY <2>2, <3>1, <3>2 DEF NamesAreTold
    <2>5. NoneSendsToItself'
        BY <1>1, <2>2 DEF NoneSendsToItself
    <2> QED
        BY <1>2, <2>1, <2>2, <2>4, <2>5, NothingShown DEF StripKept
<1>4. CASE Move(c)
    <2>1. /\ chosen' = NothingChosen /\ UNCHANGED <<names, channels, buses, device_outputs>>
          /\ \/ MoveMixerChannelLeft(PlaceOf(c)) \/ MoveMixerChannelRight(PlaceOf(c))
        BY <1>4 DEF Move, MoveMixerChannelLeft, MoveMixerChannelRight, deviceVars
    <2>2. PICK i : i = PlaceOf(c)
        OBVIOUS
    <2>3. \/ i \in 2 .. Len(inputs) /\ MoveMixerChannelLeft(i)
          \/ i \in 1 .. Len(inputs) - 1 /\ MoveMixerChannelRight(i)
        BY <2>1, <2>2 DEF MoveMixerChannelLeft, MoveMixerChannelRight
    <2>4. DOMAIN inputs = 1 .. Len(inputs) /\ Len(inputs) \in Nat
        BY <1>1 DEF TypeOK
    <2>5. i \in DOMAIN inputs
        BY <2>3, <2>4
    <2>6. Next
        BY <2>3, <2>5 DEF Next
    <2>7. NamesAreTold' /\ NoneSendsToItself'
        BY <1>1, <2>1 DEF NamesAreTold, NoneSendsToItself
    <2> QED
        BY <1>2, <2>1, <2>6, <2>7, NothingShown DEF StripKept
<1>5. CASE DeleteChannel(c)
    <2>1. /\ RemoveMixerChannel(c) /\ names' = Without(names, c) /\ chosen' = NothingChosen
        BY <1>5 DEF DeleteChannel
    <2>2. /\ c \in DOMAIN channels \ {Main}
          /\ channels' = Redirect(Without(channels, c), Direction, c, Default)
          /\ UNCHANGED <<buses, device_outputs>>
        BY <2>1 DEF RemoveMixerChannel, deviceVars
    <2>3. Next
        BY <2>1 DEF Next
    <2> DEFINE chs == Without(channels, c)
    <2>4. /\ DOMAIN chs = DOMAIN channels \ {c}
          /\ \A d \in DOMAIN chs : chs[d] = channels[d]
        BY DEF Without
    <2>5. chs \in [DOMAIN chs -> ChannelRecord]
        <3>1. channels \in [DOMAIN channels -> ChannelRecord]
            BY <1>1, TypeFacts
        <3>2. chs = [d \in DOMAIN chs |-> chs[d]]
            BY DEF Without
        <3> HIDE DEF chs
        <3> QED
            BY <2>4, <3>1, <3>2
    <2> HIDE DEF chs
    <2>6. Default \in Address /\ Default \notin Channel
        BY AddressAssumption DEF Address
    <2>7. /\ DOMAIN channels' = DOMAIN chs
          /\ \A d \in DOMAIN chs :
                channels'[d].out = IF "output" \in Direction /\ chs[d].out = c THEN Default
                                   ELSE chs[d].out
        BY <2>2, <2>5, <2>6, RedirectFacts DEF chs
    <2>8. NamesAreTold'
        <3>1. DOMAIN names' = DOMAIN names \ {c} /\ \A d \in DOMAIN names' : names'[d] = names[d]
            BY <2>1 DEF Without
        <3> QED
            BY <1>1, <2>4, <2>7, <3>1 DEF NamesAreTold
    <2>9. NoneSendsToItself'
        <3> SUFFICES ASSUME NEW d \in DOMAIN channels' PROVE channels'[d].out # d
            BY DEF NoneSendsToItself
        <3>1. d \in DOMAIN channels /\ chs[d] = channels[d] /\ channels[d].out # d /\ d \in Channel
            BY <1>1, <2>4, <2>7 DEF NoneSendsToItself, TypeOK
        <3> QED
            BY <2>6, <2>7, <3>1
    <2> QED
        BY <1>2, <2>1, <2>2, <2>3, <2>8, <2>9, NothingShown DEF StripKept
<1>6. CASE SetSolo(c)
    <2>1. chosen' = NothingChosen /\ UNCHANGED <<vars, names>>
        BY <1>6 DEF SetSolo
    <2>2. UNCHANGED <<channels, buses, device_outputs>>
        BY <2>1 DEF vars
    <2>3. NamesAreTold' /\ NoneSendsToItself'
        BY <1>1, <2>1, <2>2 DEF NamesAreTold, NoneSendsToItself
    <2> QED
        BY <1>2, <2>1, <2>2, <2>3, NothingShown DEF StripKept
<1> QED
    BY <1>3, <1>4, <1>5, <1>6

\* A channel that is added is called after its place, and sent to Main.
LEMMA AddChannelAction ==
    ASSUME StripInv, NEW c \in Channel, NEW type \in BusType, AddChannel(c, type)
    PROVE  Next /\ StripKept
<1>1. /\ IInv /\ TypeOK /\ OutputsAreStereo /\ NamesAreTold /\ NoneSendsToItself
    BY DEF StripInv, IInv
<1>2. /\ AddMixerChannel(c, type, TRUE) /\ names' = With(names, c, <<"In", Len(inputs) + 1>>)
      /\ chosen' = NothingChosen
    BY DEF AddChannel
<1>3. Next
    BY <1>2 DEF Next
<1>4. PICK in : /\ c \notin DOMAIN channels
                /\ channels' = With(channels, c, [bus_type |-> type, in |-> in, out |-> Main])
                /\ UNCHANGED <<buses, device_outputs>>
    BY <1>2 DEF AddMixerChannel, deviceVars
<1>5. /\ DOMAIN channels' = DOMAIN channels \cup {c}
      /\ channels'[c] = [bus_type |-> type, in |-> in, out |-> Main]
      /\ \A d \in DOMAIN channels : channels'[d] = channels[d]
    BY <1>4 DEF With
<1>6. OutputsAreStereo'
    BY <1>1, <1>4 DEF OutputsAreStereo
<1>7. NamesAreTold'
    <2>1. PICK name : name = <<"In", Len(inputs) + 1>>
        OBVIOUS
    <2>2. name # Mix
        <3>1. name[1] = "In" /\ Mix[1] = "Mix"
            BY <2>1 DEF Mix
        <3> QED
            BY <3>1
    <2>3. /\ DOMAIN names' = DOMAIN names \cup {c} /\ names'[c] = name
          /\ \A d \in DOMAIN names : d # c => names'[d] = names[d]
        BY <1>2, <2>1 DEF With
    <2> QED
        BY <1>1, <1>4, <1>5, <2>2, <2>3 DEF NamesAreTold
<1>8. NoneSendsToItself'
    <2>1. Main # c /\ channels'[c].out = Main
        BY <1>1, <1>4, <1>5 DEF TypeOK
    <2> QED
        BY <1>1, <1>5, <2>1 DEF NoneSendsToItself
<1> QED
    BY <1>2, <1>3, <1>6, <1>7, <1>8, NothingShown DEF StripKept

\* A redirection to what is no channel sends no channel to itself.
LEMMA RedirectedApart ==
    ASSUME IInv, NoneSendsToItself, NEW ds, NEW a, NEW b \in Address \ Channel
    PROVE  LET r == Redirect(channels, ds, a, b) IN
           /\ DOMAIN r = DOMAIN channels
           /\ \A c \in DOMAIN channels : r[c].out # c /\ r[c] \in ChannelRecord
<1> DEFINE r == Redirect(channels, ds, a, b)
<1>1. channels \in [DOMAIN channels -> ChannelRecord] /\ DOMAIN channels \subseteq Channel
    BY TypeFacts DEF IInv
<1>2. DOMAIN r = DOMAIN channels /\ r \in [DOMAIN r -> ChannelRecord]
    BY <1>1, RedirectFacts
<1>3. \A c \in DOMAIN channels :
        r[c].out = IF "output" \in ds /\ channels[c].out = a THEN b ELSE channels[c].out
    BY <1>1, RedirectFacts
<1> HIDE DEF r
<1>4. \A c \in DOMAIN channels : r[c].out # c
    BY <1>1, <1>3 DEF NoneSendsToItself
<1>5. \A c \in DOMAIN channels : r[c] \in ChannelRecord
    BY <1>2
<1> QED
    BY <1>2, <1>4, <1>5 DEF r

\* The actions on the buses.
LEMMA BusActions ==
    ASSUME StripInv, ChangeBuses
    PROVE  Next /\ StripKept
<1>1. /\ IInv /\ ListsAgree /\ TypeOK /\ OutputsAreStereo /\ NamesAreTold /\ NoneSendsToItself
    BY DEF StripInv, IInv
<1>2. chosen' = NothingChosen /\ UNCHANGED <<names, solo>>
    BY DEF ChangeBuses
<1>3. ASSUME DOMAIN channels' = DOMAIN channels PROVE NamesAreTold'
    BY <1>1, <1>2, <1>3 DEF NamesAreTold
<1>4. Bus \subseteq Address \ Channel /\ BusName \subseteq Address \ Channel
    <2>1. \A b \in Bus : b \notin Channel
        BY AddressAssumption
    <2>2. \A name \in BusName : name \notin Channel
        BY AddressAssumption
    <2> HIDE DEF Address
    <2>3. Bus \subseteq Address /\ BusName \subseteq Address
        BY DEF Address
    <2> QED
        BY <2>1, <2>2, <2>3
<1>5. CASE \E b \in Bus, dir \in Direction, type \in BusType : AddBus(b, dir, type)
    <2>1. PICK b \in Bus, dir \in Direction, type \in BusType : AddBus(b, dir, type)
        BY <1>5
    <2>2. PICK list, name :
            LET resolved == Redirect(channels, {dir}, name, b) IN
            /\ b \notin DOMAIN buses /\ (dir = "output" => type = "stereo")
            /\ buses' = With(buses, b, [name |-> name, bus_type |-> type])
            /\ channels' = IF dir = "output" /\ resolved[Main].out = Default
                           THEN [resolved EXCEPT ![Main] = Route(@, @.in, b)] ELSE resolved
            /\ device_outputs' =
                IF dir = "output" THEN Append(device_outputs, b) ELSE device_outputs
        BY <2>1 DEF AddBus
    <2> DEFINE r == Redirect(channels, {dir}, name, b)
    <2>3. /\ DOMAIN r = DOMAIN channels
          /\ \A c \in DOMAIN channels : r[c].out # c /\ r[c] \in ChannelRecord
        BY <1>1, <1>4, RedirectedApart
    <2>4. r = [c \in DOMAIN r |-> r[c]]
        BY DEF Redirect
    <2>5. channels' = r \/ channels' = [r EXCEPT ![Main] = Route(r[Main], r[Main].in, b)]
        BY <2>2
    <2> HIDE DEF r
    <2>6. Main \in DOMAIN channels /\ Main # b
        BY <1>1, <1>4 DEF TypeOK
    <2>7. NoneSendsToItself' /\ DOMAIN channels' = DOMAIN channels
        <3>1. CASE channels' = r
            BY <2>3, <3>1 DEF NoneSendsToItself
        <3>2. CASE channels' = [r EXCEPT ![Main] = Route(r[Main], r[Main].in, b)]
            <4>1. DOMAIN channels' = DOMAIN channels
                BY <2>3, <2>4, <3>2
            <4>2. channels'[Main].out = b
                BY <2>3, <2>4, <2>6, <3>2 DEF Route
            <4>3. \A c \in DOMAIN channels : c # Main => channels'[c] = r[c]
                BY <2>3, <2>4, <3>2
            <4> QED
                BY <2>3, <2>6, <4>1, <4>2, <4>3 DEF NoneSendsToItself
        <3> QED
            BY <2>5, <3>1, <3>2
    <2>8. OutputsAreStereo'
        <3>1. /\ DOMAIN buses' = DOMAIN buses \cup {b} /\ buses'[b].bus_type = type
              /\ \A x \in DOMAIN buses : buses'[x] = buses[x]
            BY <2>2 DEF With
        <3>2. device_outputs \in Seq(Bus) /\ IsInjective(device_outputs)
              /\ Range(device_outputs) \subseteq DOMAIN buses
            BY <1>1 DEF TypeOK, ListsAgree
        <3>3. b \notin Range(device_outputs)
            BY <2>2, <3>2
        <3>4. Range(Append(device_outputs, b)) = Range(device_outputs) \cup {b}
            BY <3>2, <3>3, AppendFacts
        <3>5. CASE dir = "output"
            BY <1>1, <2>2, <3>1, <3>2, <3>4, <3>5 DEF OutputsAreStereo
        <3>6. CASE dir # "output"
            BY <1>1, <2>2, <3>1, <3>2, <3>6 DEF OutputsAreStereo
        <3> QED
            BY <3>5, <3>6
    <2>9. Next
        BY <2>1 DEF Next
    <2> QED
        BY <1>2, <1>3, <2>7, <2>8, <2>9, NothingShown DEF StripKept
<1>6. CASE \E b \in Bus : DeleteBus(b)
    <2>1. PICK b \in Bus : DeleteBus(b)
        BY <1>6
    <2>2. /\ b \in DOMAIN buses
          /\ channels' = Redirect(channels, Direction, b, buses[b].name)
          /\ buses' = Without(buses, b) /\ device_outputs' = Erased(device_outputs, b)
        BY <2>1 DEF DeleteBus
    <2>3. buses[b].name \in BusName
        BY <1>1, <2>2, TypeFacts DEF BusRecord
    <2>4. PICK name \in Address \ Channel : name = buses[b].name
        BY <1>4, <2>3
    <2>5. /\ DOMAIN channels' = DOMAIN channels
          /\ \A c \in DOMAIN channels : channels'[c].out # c
        BY <1>1, <2>2, <2>4, RedirectedApart
    <2>6. NoneSendsToItself'
        BY <2>5 DEF NoneSendsToItself
    <2>7. OutputsAreStereo'
        <3>1. Range(device_outputs') = Range(device_outputs) \ {b}
            BY <1>1, <2>2, ErasedFacts DEF TypeOK, ListsAgree
        <3>2. \A x \in DOMAIN buses \ {b} : buses'[x] = buses[x]
            BY <2>2 DEF Without
        <3>3. Range(device_outputs) \subseteq DOMAIN buses
            BY <1>1 DEF ListsAgree
        <3> QED
            BY <1>1, <3>1, <3>2, <3>3 DEF OutputsAreStereo
    <2>8. Next
        BY <2>1 DEF Next
    <2> QED
        BY <1>2, <1>3, <2>5, <2>6, <2>7, <2>8, NothingShown DEF StripKept
<1>7. CASE \E b \in Bus, name \in UserName : SetDeviceBusName(b, name)
    <2>1. PICK b \in Bus, name \in UserName : SetDeviceBusName(b, name)
        BY <1>7
    <2>2. PICK dir :
            /\ b \in DOMAIN buses
            /\ buses' = [buses EXCEPT ![b] = [name |-> name, bus_type |-> @.bus_type]]
            /\ channels' = Redirect(channels, {dir}, name, b)
            /\ device_outputs' = device_outputs
        BY <2>1 DEF SetDeviceBusName
    <2>3. /\ DOMAIN channels' = DOMAIN channels
          /\ \A c \in DOMAIN channels : channels'[c].out # c
        BY <1>1, <1>4, <2>2, RedirectedApart
    <2>4. NoneSendsToItself'
        BY <2>3 DEF NoneSendsToItself
    <2>5. OutputsAreStereo'
        <3>1. buses = [x \in DOMAIN buses |-> buses[x]]
            BY <1>1 DEF TypeOK
        <3>2. buses' = [buses EXCEPT ![b] = [name |-> name, bus_type |-> buses[b].bus_type]]
            BY <2>2
        <3>3. \A x \in DOMAIN buses : buses'[x].bus_type = buses[x].bus_type
            BY <3>1, <3>2
        <3>4. Range(device_outputs) \subseteq DOMAIN buses
            BY <1>1 DEF ListsAgree
        <3> QED
            BY <1>1, <2>2, <3>3, <3>4 DEF OutputsAreStereo
    <2>6. Next
        BY <2>1 DEF Next
    <2> QED
        BY <1>2, <1>3, <2>3, <2>4, <2>5, <2>6, NothingShown DEF StripKept
<1> QED
    BY <1>5, <1>6, <1>7 DEF ChangeBuses

-----------------------------------------------------------------------------
\* A session of two channels, sent to Main, and buses of both types.
LEMMA LoadedInitHolds ==
    ASSUME LoadedInit
    PROVE  StripInv /\ ChoiceIsShown
<1>1. PICK one, two, mic, line, speakers :
        /\ {one, two} \subseteq Channel \ {Main} /\ one # two
        /\ {mic, line, speakers} \subseteq Bus
        /\ mic # line /\ line # speakers /\ mic # speakers
        /\ one = Loaded.channels[1] /\ two = Loaded.channels[2]
        /\ mic = Loaded.buses[1] /\ line = Loaded.buses[2] /\ speakers = Loaded.buses[3]
    BY LoadedAssumption
<1> DEFINE NamedBus(dir, n, type) == [name |-> DefaultName(dir, n, type), bus_type |-> type]
<1>2. PICK type \in BusType : channels =
        [c \in {Main, one, two} |->
            [bus_type |-> IF c = one THEN type ELSE "stereo", in |-> Default,
             out |-> IF c = Main THEN speakers ELSE Main]]
    BY <1>1 DEF LoadedInit
<1>3. /\ inputs = <<one, two>> /\ device_inputs = <<mic, line>> /\ device_outputs = <<speakers>>
      /\ chosen = NothingChosen
    BY <1>1 DEF LoadedInit
<1>4. buses = [b \in {mic, line, speakers} |->
                CASE b = mic -> NamedBus("input", 1, "mono")
                  [] b = line -> NamedBus("input", 2, "stereo")
                  [] b = speakers -> NamedBus("output", 1, "stereo")]
    BY <1>1 DEF LoadedInit
<1>5. names = [c \in {Main, one, two} |->
                CASE c = Main -> <<"Main">> [] c = one -> <<"In", 1>> [] c = two -> <<"In", 2>>]
    BY <1>1 DEF LoadedInit
<1>6. /\ Range(inputs) = {one, two} /\ IsInjective(inputs) /\ inputs \in Seq(Channel)
    BY <1>1, <1>3 DEF Range, IsInjective
<1>7. /\ Range(device_inputs) = {mic, line} /\ IsInjective(device_inputs)
      /\ device_inputs \in Seq(Bus)
    BY <1>1, <1>3 DEF Range, IsInjective
<1>8. /\ Range(device_outputs) = {speakers} /\ IsInjective(device_outputs)
      /\ device_outputs \in Seq(Bus)
    BY <1>1, <1>3 DEF Range, IsInjective
<1>9. /\ DOMAIN buses = {mic, line, speakers}
      /\ buses[mic] = NamedBus("input", 1, "mono")
      /\ buses[line] = NamedBus("input", 2, "stereo")
      /\ buses[speakers] = NamedBus("output", 1, "stereo")
      /\ buses = [b \in DOMAIN buses |-> buses[b]]
    BY <1>1, <1>4
<1>10. /\ DOMAIN channels = {Main, one, two}
       /\ channels = [c \in DOMAIN channels |-> channels[c]]
       /\ \A c \in DOMAIN channels :
            channels[c] = [bus_type |-> IF c = one THEN type ELSE "stereo", in |-> Default,
                           out |-> IF c = Main THEN speakers ELSE Main]
    BY <1>2
<1>11. /\ \A c \in DOMAIN channels : channels[c].in = Default
       /\ \A c \in DOMAIN channels : channels[c].out = IF c = Main THEN speakers ELSE Main
       /\ channels[Main].bus_type = "stereo"
       /\ \A c \in DOMAIN channels : channels[c] \in ChannelRecord
    <2>1. Default \in Address /\ Main \in Address /\ speakers \in Address
        BY <1>1, MainAssumption DEF Address
    <2>2. type \in BusType /\ "stereo" \in BusType
        BY DEF BusType
    <2> HIDE DEF Address, BusType
    <2>3. \A c \in DOMAIN channels : channels[c] \in ChannelRecord
        BY <1>10, <2>1, <2>2 DEF ChannelRecord
    <2> QED
        BY <1>1, <1>10, <2>3
<1>12. /\ buses[mic] \in BusRecord /\ buses[line] \in BusRecord /\ buses[speakers] \in BusRecord
       /\ buses[speakers].bus_type = "stereo"
    <2>1. /\ DefaultName("input", 1, "mono") = <<"In", 1, "mono">>
          /\ DefaultName("input", 2, "stereo") = <<"In", 2, "stereo">>
          /\ DefaultName("output", 1, "stereo") = <<"Speaker", 1>>
        BY DEF DefaultName
    <2>2. /\ <<"In", 1, "mono">> \in {"In"} \X Nat \X BusType
          /\ <<"In", 2, "stereo">> \in {"In"} \X Nat \X BusType
          /\ <<"Speaker", 1>> \in {"Speaker"} \X Nat
        BY DEF BusType
    <2>3. /\ DefaultName("input", 1, "mono") \in BusName
          /\ DefaultName("input", 2, "stereo") \in BusName
          /\ DefaultName("output", 1, "stereo") \in BusName
        BY <2>1, <2>2 DEF BusName
    <2>4. "mono" \in BusType /\ "stereo" \in BusType
        BY DEF BusType
    <2> HIDE DEF BusType, BusName
    <2> QED
        BY <1>9, <2>3, <2>4 DEF BusRecord
<1> HIDE DEF NamedBus
<1>13. TypeOK
    <2>1. channels \in [DOMAIN channels -> ChannelRecord]
        BY <1>10, <1>11
    <2>2. buses \in [DOMAIN buses -> BusRecord]
        BY <1>9, <1>12
    <2> QED
        BY <1>1, <1>6, <1>7, <1>8, <1>9, <1>10, <1>11, <2>1, <2>2, MainAssumption
        DEF TypeOK, ChannelRecord, BusRecord
<1>14. ListsAgree
    BY <1>1, <1>6, <1>7, <1>8, <1>9, <1>10 DEF ListsAgree
<1>15. RoutesResolve
    <2>1. Default \notin Channel /\ Default \notin Bus /\ speakers \notin Channel /\ Main \notin Bus
        BY <1>1, AddressAssumption, MainAssumption
    <2> QED
        BY <1>8, <1>10, <1>11, <2>1 DEF RoutesResolve
<1>16. MonoTakesNoChannel
    <2>1. Default \notin Channel /\ speakers \notin Channel
        BY <1>1, AddressAssumption
    <2> QED
        BY <1>1, <1>10, <1>11, <2>1 DEF MonoTakesNoChannel
<1>17. OutputsAreStereo
    BY <1>8, <1>12 DEF OutputsAreStereo
<1>18. NamesAreTold
    <2>1. DOMAIN names = {Main, one, two}
        BY <1>5
    <2>2. names[Main] = <<"Main">> /\ names[one] = <<"In", 1>> /\ names[two] = <<"In", 2>>
        BY <1>1, <1>5
    <2>3. names[Main][1] = "Main" /\ names[one][1] = "In" /\ names[two][1] = "In"
        BY <2>2
    <2>4. Mix[1] = "Mix"
        BY DEF Mix
    <2> QED
        BY <1>10, <2>1, <2>3, <2>4 DEF NamesAreTold
<1>19. NoneSendsToItself
    <2>1. speakers # Main
        BY <1>1, AddressAssumption, MainAssumption
    <2> QED
        BY <1>1, <1>10, <1>11, <2>1 DEF NoneSendsToItself
<1>20. ChoiceIsShown
    BY <1>3 DEF ChoiceIsShown, NothingChosen
<1> QED
    BY <1>13, <1>14, <1>15, <1>16, <1>17, <1>18, <1>19, <1>20 DEF StripInv, IInv

LEMMA StripInitHolds ==
    ASSUME StripInit
    PROVE  StripInv /\ ChoiceIsShown
<1>1. CASE FirstInit
    <2>1. /\ Init /\ names = [c \in {Main} |-> <<"Main">>] /\ chosen = NothingChosen
        BY <1>1 DEF FirstInit
    <2>2. IInv
        BY <2>1, InitIInv
    <2>3. DOMAIN channels = {Main} /\ channels[Main].out = Default /\ device_outputs = <<>>
        BY <2>1 DEF Init
    <2>4. OutputsAreStereo
        BY <2>3 DEF OutputsAreStereo, Range
    <2>5. NamesAreTold
        <3>1. DOMAIN names = {Main} /\ names[Main][1] = "Main" /\ Mix[1] = "Mix"
            BY <2>1 DEF Mix
        <3> QED
            BY <2>3, <3>1 DEF NamesAreTold
    <2>6. NoneSendsToItself
        BY <2>3, AddressAssumption, MainAssumption DEF NoneSendsToItself
    <2>7. ChoiceIsShown
        BY <2>1 DEF ChoiceIsShown, NothingChosen
    <2> QED
        BY <2>2, <2>4, <2>5, <2>6, <2>7 DEF StripInv
<1>2. CASE LoadedInit
    BY <1>2, LoadedInitHolds
<1> QED
    BY <1>1, <1>2 DEF StripInit

LEMMA StripStep ==
    ASSUME StripInv, ChoiceIsShown, [StripNext]_<<vars, stripVars, steps>>
    PROVE  StripInv' /\ ChoiceIsShown'
<1>1. ASSUME [Next]_vars, StripKept
      PROVE  StripInv' /\ ChoiceIsShown'
    <2>1. IInv'
        BY <1>1, NextStep DEF StripInv
    <2> QED
        BY <1>1, <2>1 DEF StripInv, StripKept
<1>2. CASE StripNext
    <2>1. ASSUME NEW c \in DOMAIN channels, NEW index,
                 \/ ChangeInputToDefault(c)
                 \/ ChangeInputToDevice(c, index) \/ ChangeInputToChannel(c, index)
          PROVE  StripInv' /\ ChoiceIsShown'
        BY <1>1, <2>1, InputActions
    <2>2. ASSUME NEW c \in DOMAIN channels, NEW index,
                 \/ ChangeOutputToNone(c)
                 \/ ChangeOutputToDevice(c, index) \/ ChangeOutputToChannel(c, index)
          PROVE  StripInv' /\ ChoiceIsShown'
        BY <1>1, <2>2, OutputActions
    <2>3. ASSUME NEW c \in DOMAIN channels,
                 ChangeName(c, <<"Song">>) \/ Move(c) \/ DeleteChannel(c) \/ SetSolo(c)
          PROVE  StripInv' /\ ChoiceIsShown'
        BY <1>1, <2>3, ChannelActions
    <2>4. ASSUME NEW c \in Channel, NEW type \in BusType, AddChannel(c, type)
          PROVE  StripInv' /\ ChoiceIsShown'
        BY <1>1, <2>4, AddChannelAction
    <2>5. ASSUME ChangeBuses
          PROVE  StripInv' /\ ChoiceIsShown'
        BY <1>1, <2>5, BusActions
    <2> QED
        BY <1>2, <2>1, <2>2, <2>3, <2>4, <2>5 DEF StripNext
<1>3. CASE UNCHANGED <<vars, stripVars, steps>>
    <2>1. UNCHANGED <<channels, buses, device_outputs, names, chosen>> /\ UNCHANGED vars
        BY <1>3 DEF vars, stripVars
    <2>2. OutputsAreStereo' /\ NamesAreTold' /\ NoneSendsToItself'
        BY <2>1 DEF StripInv, OutputsAreStereo, NamesAreTold, NoneSendsToItself
    <2>3. ChoiceIsShown'
        <3>1. \A c : EditStrip(c)'.input = SelectedInput(c)'
                        /\ EditStrip(c)'.output = SelectedOutput(c)'
            BY DEF EditStrip
        <3>2. \A c : EditStrip(c).input = SelectedInput(c)
                        /\ EditStrip(c).output = SelectedOutput(c)
            BY DEF EditStrip
        <3>3. \A a : SelectedDevice(a)' = SelectedDevice(a)
            BY <2>1 DEF SelectedDevice, Shown
        <3>4. \A c : DefaultInputText(c)' = DefaultInputText(c)
            BY <2>1 DEF DefaultInputText
        <3>5. \A c : SelectedInput(c)' = SelectedInput(c)
            BY <2>1, <3>3, <3>4 DEF SelectedInput, Shown
        <3>6. \A c : SelectedOutput(c)' = SelectedOutput(c)
            BY <2>1, <3>3 DEF SelectedOutput, Shown
        <3> QED
            BY <2>1, <3>1, <3>2, <3>5, <3>6 DEF ChoiceIsShown
    <2> QED
        BY <1>1, <2>1, <2>2, <2>3 DEF StripKept
<1> QED
    BY <1>2, <1>3

\* Every entry of a menu that is chosen is what the strip then shows; what a strip
\* shows is offered; and the strips agree on what is mixed and who is silenced.
THEOREM SpecStripsShowRoutes == StripSpec => []StripsShowRoutes
<1>1. StripInv /\ ChoiceIsShown => StripsShowRoutes
    BY ShownIsOfferedHolds, NotMixedAgreesHolds, SoloAgreesHolds DEF StripsShowRoutes
<1> QED
    BY <1>1, StripInitHolds, StripStep, PTL DEF StripSpec
=============================================================================
