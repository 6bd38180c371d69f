-------------------------- MODULE MidiDevicesProofs --------------------------
(***************************************************************************)
(* What the user enabled works, or is waited for, for every set of devices *)
(* and ports and any number of plugs and restarts.                         *)
(*                                                                         *)
(* The user, the ports that come and go, the announcements of that and the *)
(* queue of the main thread are apart.  The invariant follows a device     *)
(* from one to the next: what is announced of a port alternates and ends   *)
(* with how the port is; a port that the manager knows leaves before it    *)
(* starts again; and a name that is kept is at one place, enabled in the   *)
(* state, awaited, or on its way in an action.                             *)
(***************************************************************************)
EXTENDS MidiDevices, Integers, SequenceTheorems, FiniteSetTheorems, WellFoundedInduction, TLAPS

-----------------------------------------------------------------------------
(* What the updates make of a state.  The recursion over the updates is over *)
(* a list that grows: what is known of its last value is known of the next.  *)

\* What one update makes of the devices, the names and the queue.
StepOf(midi, after, update) ==
    [devices |-> UpdateMidiDevices(after.devices, update),
     enabled |->
        CASE update.what = "added" /\ update.name \in Range(after.enabled.names) ->
                [names |-> EraseName(after.enabled.names, update.name),
                 dispatched |-> Append(after.enabled.dispatched,
                                       Activation(update.id, update.name))]
          [] /\ update.what = "removed" /\ update.id \in DOMAIN midi
             /\ midi[update.id].enabled ->
                [after.enabled EXCEPT !.names = Append(@, midi[update.id].name)]
          [] OTHER -> after.enabled]

Unhandled(midi, names) ==
    [devices |-> midi, enabled |-> [names |-> names, dispatched |-> <<>>]]

AreAfter(f, midi, names, list, m) ==
    f = [n \in 0 .. m |-> IF n = 0 THEN Unhandled(midi, names)
                          ELSE StepOf(midi, f[n - 1], list[n])]

After(midi, names, list) ==
    (CHOOSE f : AreAfter(f, midi, names, list, Len(list)))[Len(list)]

LEMMA UpdatedIsAfter == Updated = After(midi_devices, m_enabled_devices, updates)
BY DEF Updated, After, AreAfter, Unhandled, StepOf, Handle

LEMMA UpdatedIsAfterThen ==
    Updated' = After(midi_devices', m_enabled_devices', updates')
BY DEF Updated, After, AreAfter, Unhandled, StepOf, Handle

\* A set of numbers has a least one.
LEMMA LeastIsThere ==
    ASSUME NEW values \in SUBSET Nat, values # {}
    PROVE  \E x \in values : \A y \in values : x <= y
<1>1. PICK x \in values : \A y \in values : ~(<<y, x>> \in OpToRel(<, Nat))
    <2>1. IsWellFoundedOn(OpToRel(<, Nat), Nat)
        BY NatLessThanWellFounded
    <2> QED
        BY <2>1, WFMin
<1>2. \A y \in values : x <= y
    <2> SUFFICES ASSUME NEW y \in values PROVE x <= y
        OBVIOUS
    <2>1. x \in Nat /\ y \in Nat
        OBVIOUS
    <2>2. ~(y < x)
        BY <1>1, <2>1 DEF OpToRel
    <2> QED
        BY <2>1, <2>2
<1> QED
    BY <1>2

\* The recursion has a value for every list.
LEMMA AfterIsThere ==
    ASSUME NEW midi, NEW names, NEW list, NEW m \in Nat
    PROVE  \E f : AreAfter(f, midi, names, list, m)
<1> DEFINE There(k) == \E f : AreAfter(f, midi, names, list, k)
           Lacking == {k \in 0 .. m : ~There(k)}
<1>1. ASSUME Lacking # {} PROVE FALSE
    <2>1. PICK k \in Lacking : \A j \in Lacking : k <= j
        <3>1. Lacking \in SUBSET Nat
            OBVIOUS
        <3> HIDE DEF Lacking
        <3> QED
            BY <1>1, <3>1, LeastIsThere
    <2>2. k \in 0 .. m /\ ~There(k)
        OBVIOUS
    <2>3. k \in Nat /\ k <= m
        BY <2>2
    <2>4. k # 0
        <3> DEFINE z == [n \in 0 .. 0 |-> Unhandled(midi, names)]
        <3>1. z = [n \in 0 .. 0 |-> IF n = 0 THEN Unhandled(midi, names)
                                    ELSE StepOf(midi, z[n - 1], list[n])]
            OBVIOUS
        <3>2. There(0)
            <4> HIDE DEF z
            <4> QED
                BY <3>1 DEF AreAfter
        <3> QED
            BY <2>2, <3>2
    <2>5. k - 1 \notin Lacking /\ k - 1 \in 0 .. m
        <3> HIDE DEF Lacking
        <3> QED
            BY <2>1, <2>2, <2>3, <2>4
    <2>6. PICK f : AreAfter(f, midi, names, list, k - 1)
        BY <2>5
    <2> DEFINE new == StepOf(midi, f[k - 1], list[k])
               g == [n \in 0 .. k |-> IF n = k THEN new ELSE f[n]]
    <2> HIDE DEF new
    <2>7. g[k] = new /\ g[k - 1] = f[k - 1] /\ \A n \in 0 .. k - 1 : g[n] = f[n]
        BY <2>3, <2>4
    <2>8. ASSUME NEW n \in 0 .. k
          PROVE  g[n] = IF n = 0 THEN Unhandled(midi, names)
                        ELSE StepOf(midi, g[n - 1], list[n])
        <3> HIDE DEF g
        <3>1. CASE n = k
            BY <2>4, <2>7, <3>1 DEF new
        <3>2. CASE n # k
            <4>1. n \in 0 .. k - 1
                BY <2>3, <3>2
            <4>2. n # 0 => n - 1 \in 0 .. k - 1
                BY <2>3, <4>1
            <4>3. f[n] = IF n = 0 THEN Unhandled(midi, names)
                         ELSE StepOf(midi, f[n - 1], list[n])
                BY <2>6, <4>1 DEF AreAfter
            <4> QED
                BY <2>7, <4>1, <4>2, <4>3
        <3> QED
            BY <3>1, <3>2
    <2>9. AreAfter(g, midi, names, list, k)
        <3>1. g = [n \in 0 .. k |-> g[n]]
            OBVIOUS
        <3> HIDE DEF g
        <3> QED
            BY <2>8, <3>1 DEF AreAfter
    <2>10. There(k)
        <3> HIDE DEF g
        <3> QED
            BY <2>9
    <2> QED
        BY <2>2, <2>10
<1> QED
    <2>1. m \notin Lacking /\ m \in 0 .. m
        BY <1>1
    <2> QED
        BY <2>1

\* It has one value, which what comes later in the list does not change.
LEMMA AfterIsOne ==
    ASSUME NEW midi, NEW names, NEW list, NEW longer, NEW m \in Nat, NEW l \in Nat,
           m <= l, \A n \in 1 .. m : longer[n] = list[n],
           NEW f, AreAfter(f, midi, names, list, m),
           NEW g, AreAfter(g, midi, names, longer, l)
    PROVE  \A n \in 0 .. m : g[n] = f[n]
<1> DEFINE Apart == {n \in 0 .. m : g[n] # f[n]}
<1> SUFFICES ASSUME Apart # {} PROVE FALSE
    OBVIOUS
<1>1. PICK k \in Apart : \A j \in Apart : k <= j
    <2>1. Apart \in SUBSET Nat
        OBVIOUS
    <2> HIDE DEF Apart
    <2> QED
        BY <2>1, LeastIsThere
<1>2. k \in 0 .. m /\ g[k] # f[k]
    OBVIOUS
<1>3. k \in Nat /\ k \in 0 .. l
    BY <1>2
<1>4. f[k] = IF k = 0 THEN Unhandled(midi, names) ELSE StepOf(midi, f[k - 1], list[k])
    BY <1>2 DEF AreAfter
<1>5. g[k] = IF k = 0 THEN Unhandled(midi, names) ELSE StepOf(midi, g[k - 1], longer[k])
    BY <1>3 DEF AreAfter
<1>6. k # 0
    BY <1>2, <1>4, <1>5
<1>7. k \in 1 .. m /\ k - 1 \in 0 .. m
    BY <1>2, <1>6
<1>8. k - 1 \notin Apart
    <2> HIDE DEF Apart
    <2> QED
        BY <1>1, <1>3
<1>9. g[k - 1] = f[k - 1]
    BY <1>7, <1>8
<1> QED
    BY <1>2, <1>4, <1>5, <1>6, <1>7, <1>9

\* Without updates, nothing is changed.
LEMMA AfterNone ==
    ASSUME NEW midi, NEW names
    PROVE  After(midi, names, <<>>) = Unhandled(midi, names)
<1>1. Len(<<>>) = 0
    OBVIOUS
<1>2. PICK f : AreAfter(f, midi, names, <<>>, 0)
    BY AfterIsThere
<1> DEFINE g == CHOOSE f_1 : AreAfter(f_1, midi, names, <<>>, 0)
<1>3. AreAfter(g, midi, names, <<>>, 0)
    BY <1>2
<1>4. After(midi, names, <<>>) = g[0]
    BY <1>1 DEF After
<1> HIDE DEF g
<1>5. 0 \in 0 .. 0
    OBVIOUS
<1> QED
    BY <1>3, <1>4, <1>5 DEF AreAfter

\* One update more is one step more.
LEMMA AfterOneMore ==
    ASSUME NEW midi, NEW names, NEW T, NEW list \in Seq(T), NEW update \in T
    PROVE  After(midi, names, Append(list, update))
            = StepOf(midi, After(midi, names, list), update)
<1> DEFINE longer == Append(list, update)
<1>1. PICK l \in Nat : l = Len(list)
    OBVIOUS
<1>2. Len(longer) = l + 1 /\ longer[l + 1] = update /\ \A n \in 1 .. l : longer[n] = list[n]
    BY <1>1
<1> HIDE DEF longer
<1> DEFINE f == CHOOSE f_1 : AreAfter(f_1, midi, names, list, l)
           g == CHOOSE f_1 : AreAfter(f_1, midi, names, longer, l + 1)
<1>3. AreAfter(f, midi, names, list, l)
    <2>1. \E f_1 : AreAfter(f_1, midi, names, list, l)
        BY AfterIsThere
    <2> QED
        BY <2>1
<1>4. AreAfter(g, midi, names, longer, l + 1)
    <2>1. l + 1 \in Nat
        OBVIOUS
    <2>2. \E f_1 : AreAfter(f_1, midi, names, longer, l + 1)
        BY <2>1, AfterIsThere
    <2> QED
        BY <2>2
<1>5. After(midi, names, list) = f[l] /\ After(midi, names, longer) = g[l + 1]
    BY <1>1, <1>2 DEF After
<1> HIDE DEF f, g
<1>6. g[l] = f[l]
    <2>1. PICK k \in Nat : k = l + 1
        OBVIOUS
    <2>2. l <= k /\ l \in 0 .. l
        BY <2>1
    <2>3. \A n \in 1 .. l : longer[n] = list[n]
        BY <1>2
    <2>4. AreAfter(g, midi, names, longer, k)
        BY <1>4, <2>1
    <2>5. \A n \in 0 .. l : g[n] = f[n]
        BY <1>3, <2>2, <2>3, <2>4, AfterIsOne
    <2> QED
        BY <2>2, <2>5
<1>7. l + 1 \in 0 .. (l + 1) /\ l + 1 # 0 /\ (l + 1) - 1 = l
    OBVIOUS
<1>8. g[l + 1] = StepOf(midi, g[(l + 1) - 1], longer[l + 1])
    BY <1>4, <1>7 DEF AreAfter
<1> QED
    BY <1>2, <1>5, <1>6, <1>7, <1>8 DEF longer

-----------------------------------------------------------------------------
(* The sequencer: what is announced of a port alternates, and what is announced *)
(* last is how the port is.                                                     *)

StateOf(p) == IF plugged[p] = Nothing THEN "exit" ELSE "start"

Announcement == [event : {"start", "exit"}, port : Port]

DevicesAreApart ==
    \A p, q \in Port : p # q /\ plugged[p] # Nothing => plugged[p] # plugged[q]

\* Between i and j another event of the port is announced.
Between(i, j, event, port) ==
    \E k \in DOMAIN announced :
        i < k /\ k < j /\ announced[k].port = port /\ announced[k].event # event

AnnouncementsAlternate ==
    /\ \A i, j \in DOMAIN announced :
        i < j /\ announced[i] = announced[j]
            => Between(i, j, announced[i].event, announced[i].port)
    /\ \A i \in DOMAIN announced :
        announced[i].event # StateOf(announced[i].port)
            => Between(i, Len(announced) + 1, announced[i].event, announced[i].port)

Unannounced(p) == \A i \in DOMAIN announced : announced[i].port # p

KernelTypeOK ==
    /\ plugged \in [Port -> Device \cup {Nothing}] /\ subscribed \subseteq Port
    /\ announced \in Seq(Announcement)

KernelInv == KernelTypeOK /\ DevicesAreApart /\ AnnouncementsAlternate

\* What a list holds after its first element is taken, or one is added.
LEMMA TailFacts ==
    ASSUME NEW T, NEW list \in Seq(T), list # <<>>
    PROVE  /\ Len(list) \in Nat /\ Len(list) >= 1
           /\ Tail(list) \in Seq(T) /\ Head(list) = list[1]
           /\ Len(Tail(list)) = Len(list) - 1
           /\ DOMAIN list = 1 .. Len(list) /\ DOMAIN Tail(list) = 1 .. (Len(list) - 1)
           /\ \A i \in 1 .. (Len(list) - 1) : Tail(list)[i] = list[i + 1]
OBVIOUS

LEMMA AppendFacts ==
    ASSUME NEW T, NEW list \in Seq(T), NEW e \in T
    PROVE  /\ Len(list) \in Nat
           /\ Append(list, e) \in Seq(T) /\ Len(Append(list, e)) = Len(list) + 1
           /\ DOMAIN list = 1 .. Len(list)
           /\ DOMAIN Append(list, e) = 1 .. (Len(list) + 1)
           /\ \A i \in 1 .. Len(list) : Append(list, e)[i] = list[i]
           /\ Append(list, e)[Len(list) + 1] = e
OBVIOUS

\* A port starts or leaves, and is announced.
LEMMA AnnounceKernel ==
    ASSUME KernelInv, NEW p \in Port, NEW event \in {"start", "exit"},
           announced' = Append(announced, [event |-> event, port |-> p]),
           plugged' \in [Port -> Device \cup {Nothing}], subscribed' \subseteq Port,
           StateOf(p) # event, StateOf(p)' = event,
           \A q \in Port : q # p => plugged'[q] = plugged[q],
           DevicesAreApart'
    PROVE  KernelInv'
<1>1. PICK n \in Nat : n = Len(announced)
    BY DEF KernelInv, KernelTypeOK
<1>2. PICK e \in Announcement : e = [event |-> event, port |-> p]
    BY DEF Announcement
<1>3. announced \in Seq(Announcement) /\ announced' = Append(announced, e)
    BY <1>2 DEF KernelInv, KernelTypeOK
<1>4. /\ announced' \in Seq(Announcement) /\ Len(announced') = n + 1
      /\ DOMAIN announced = 1 .. n /\ DOMAIN announced' = 1 .. (n + 1)
      /\ \A i \in 1 .. n : announced'[i] = announced[i]
      /\ announced'[n + 1] = e
    BY <1>1, <1>3, AppendFacts
<1>5. \A i \in 1 .. n : announced[i] \in Announcement
    BY <1>3, <1>4
<1>6. e.event = event /\ e.port = p
    BY <1>2
<1>7. \A q \in Port : q # p => StateOf(q)' = StateOf(q)
    BY DEF StateOf
<1>8. \A q \in Port : StateOf(q)' \in {"start", "exit"}
    BY DEF StateOf
<1>9. ASSUME NEW i \in 1 .. n, announced[i].port = p, announced[i].event = event
      PROVE  \E k \in 1 .. n : i < k /\ announced[k].port = p /\ announced[k].event # event
    <2>1. announced[i].event # StateOf(announced[i].port)
        BY <1>9
    <2>2. Between(i, n + 1, announced[i].event, announced[i].port)
        BY <1>1, <1>4, <2>1 DEF KernelInv, AnnouncementsAlternate
    <2> QED
        BY <1>4, <1>9, <2>2 DEF Between
<1>10. ASSUME NEW i \in 1 .. (n + 1), NEW j \in 1 .. (n + 1), i < j,
              announced'[i] = announced'[j]
       PROVE  Between(i, j, announced[i].event, announced[i].port)'
    <2>1. i \in 1 .. n /\ announced'[i] = announced[i]
        BY <1>4, <1>10
    <2>2. CASE j = n + 1
        <3>1. announced[i].port = p /\ announced[i].event = event
            BY <1>4, <1>6, <1>10, <2>1, <2>2
        <3>2. PICK k \in 1 .. n : i < k /\ announced[k].port = p /\ announced[k].event # event
            BY <1>9, <2>1, <3>1
        <3>3. k \in 1 .. (n + 1) /\ k < j /\ announced'[k] = announced[k]
            BY <1>4, <2>2
        <3> QED
            BY <1>4, <2>1, <3>1, <3>2, <3>3 DEF Between
    <2>3. CASE j # n + 1
        <3>1. j \in 1 .. n
            BY <2>3
        <3>2. announced[i] = announced[j]
            BY <1>4, <1>10, <2>1, <3>1
        <3>3. Between(i, j, announced[i].event, announced[i].port)
            BY <1>4, <1>10, <2>1, <3>1, <3>2 DEF KernelInv, AnnouncementsAlternate
        <3>4. PICK k \in 1 .. n : i < k /\ k < j /\ announced[k].port = announced[i].port
                                  /\ announced[k].event # announced[i].event
            BY <1>4, <3>3 DEF Between
        <3>5. k \in 1 .. (n + 1) /\ announced'[k] = announced[k]
            BY <1>4
        <3> QED
            BY <1>4, <2>1, <3>4, <3>5 DEF Between
    <2> QED
        BY <2>2, <2>3
<1>11. ASSUME NEW i \in 1 .. (n + 1), announced'[i].event # StateOf(announced[i].port)'
       PROVE  Between(i, n + 2, announced[i].event, announced[i].port)'
    <2>1. i # n + 1
        <3>1. announced'[n + 1].event = StateOf(p)' /\ announced'[n + 1].port = p
            BY <1>4, <1>6
        <3>2. CASE i = n + 1
            <4>1. announced'[i].event = StateOf(p)' /\ announced'[i].port = p
                BY <3>1, <3>2
            <4> QED
                BY <1>11, <4>1 DEF StateOf
        <3> QED
            BY <3>2
    <2>2. i \in 1 .. n /\ announced'[i] = announced[i] /\ announced[i] \in Announcement
        BY <1>4, <1>5, <2>1
    <2>3. CASE announced[i].port = p
        <3>1. announced[i].event # event
            BY <1>11, <2>2, <2>3 DEF StateOf
        <3>2. n + 1 \in 1 .. (n + 1) /\ i < n + 1 /\ n + 1 < n + 2
            BY <2>2
        <3> QED
            BY <1>4, <1>6, <2>2, <2>3, <3>1, <3>2 DEF Between
    <2>4. CASE announced[i].port # p
        <3>1. announced[i].port \in Port
            BY <2>2 DEF Announcement
        <3>2. announced[i].event # StateOf(announced[i].port)
            BY <1>11, <2>2, <2>4, <3>1 DEF StateOf
        <3>3. Between(i, n + 1, announced[i].event, announced[i].port)
            BY <1>1, <1>4, <2>2, <3>2 DEF KernelInv, AnnouncementsAlternate
        <3>4. PICK k \in 1 .. n : i < k /\ announced[k].port = announced[i].port
                                  /\ announced[k].event # announced[i].event
            BY <1>4, <3>3 DEF Between
        <3>5. k \in 1 .. (n + 1) /\ announced'[k] = announced[k] /\ k < n + 2
            BY <1>4
        <3> QED
            BY <1>4, <2>2, <3>4, <3>5 DEF Between
    <2> QED
        BY <2>3, <2>4
<1>12. Len(announced') + 1 = n + 2
    BY <1>4
<1>13. AnnouncementsAlternate'
    BY <1>4, <1>10, <1>11, <1>12 DEF AnnouncementsAlternate
<1>14. KernelTypeOK'
    BY <1>4 DEF KernelTypeOK
<1> QED
    BY <1>13, <1>14 DEF KernelInv

LEMMA PlugKernel ==
    ASSUME KernelInv, NEW d \in Device, NEW p \in Port, Plug(d, p)
    PROVE  KernelInv'
<1>1. /\ plugged' = [plugged EXCEPT ![p] = d] /\ plugged \in [Port -> Device \cup {Nothing}]
      /\ plugged[p] = Nothing /\ \A q \in Port : plugged[q] # d
    BY DEF Plug, KernelInv, KernelTypeOK
<1>2. StateOf(p) # "start" /\ StateOf(p)' = "start"
    BY <1>1, MidiAssumption DEF StateOf
<1>3. DevicesAreApart'
    BY <1>1 DEF DevicesAreApart, KernelInv
<1>4. subscribed' \subseteq Port
    BY DEF Plug, KernelInv, KernelTypeOK
<1>5. announced' = Append(announced, [event |-> "start", port |-> p])
    BY DEF Plug
<1>6. plugged' \in [Port -> Device \cup {Nothing}]
      /\ \A q \in Port : q # p => plugged'[q] = plugged[q]
    BY <1>1
<1> QED
    BY <1>2, <1>3, <1>4, <1>5, <1>6, AnnounceKernel

LEMMA UnplugKernel ==
    ASSUME KernelInv, NEW p \in Port, Unplug(p)
    PROVE  KernelInv'
<1>1. /\ plugged' = [plugged EXCEPT ![p] = Nothing]
      /\ plugged \in [Port -> Device \cup {Nothing}] /\ plugged[p] # Nothing
    BY DEF Unplug, KernelInv, KernelTypeOK
<1>2. StateOf(p) # "exit" /\ StateOf(p)' = "exit"
    BY <1>1 DEF StateOf
<1>3. DevicesAreApart'
    BY <1>1 DEF DevicesAreApart, KernelInv
<1>4. subscribed' \subseteq Port
    BY DEF Unplug, KernelInv, KernelTypeOK
<1>5. announced' = Append(announced, [event |-> "exit", port |-> p])
    BY DEF Unplug
<1>6. plugged' \in [Port -> Device \cup {Nothing}]
      /\ \A q \in Port : q # p => plugged'[q] = plugged[q]
    BY <1>1
<1> QED
    BY <1>2, <1>3, <1>4, <1>5, <1>6, AnnounceKernel

\* An announcement is read.
LEMMA ReadKernel ==
    ASSUME KernelInv, announced # <<>>, announced' = Tail(announced),
           UNCHANGED <<plugged, subscribed>>
    PROVE  KernelInv'
<1>1. PICK n \in Nat : n = Len(announced)
    BY DEF KernelInv, KernelTypeOK
<1>2. announced \in Seq(Announcement)
    BY DEF KernelInv, KernelTypeOK
<1>3. /\ n >= 1 /\ announced' \in Seq(Announcement) /\ Len(announced') = n - 1
      /\ DOMAIN announced = 1 .. n /\ DOMAIN announced' = 1 .. (n - 1)
      /\ \A i \in 1 .. (n - 1) : announced'[i] = announced[i + 1]
    BY <1>1, <1>2, TailFacts
<1>4. \A q : StateOf(q)' = StateOf(q)
    BY DEF StateOf
<1>5. ASSUME NEW k \in 1 .. n, k > 1
      PROVE  \E l \in 1 .. (n - 1) : k = l + 1 /\ announced'[l] = announced[k]
    <2>1. k - 1 \in 1 .. (n - 1) /\ k = (k - 1) + 1
        BY <1>5
    <2> QED
        BY <1>3, <2>1
<1>6. ASSUME NEW i \in 1 .. (n - 1), NEW j \in 1 .. (n - 1), i < j,
             announced'[i] = announced'[j]
      PROVE  Between(i, j, announced[i].event, announced[i].port)'
    <2>1. i + 1 \in 1 .. n /\ j + 1 \in 1 .. n /\ i + 1 < j + 1 /\ j \in 1 .. n
        BY <1>6
    <2>2. announced'[i] = announced[i + 1] /\ announced'[j] = announced[j + 1]
        BY <1>3
    <2>3. Between(i + 1, j + 1, announced[i + 1].event, announced[i + 1].port)
        BY <1>3, <1>6, <2>1, <2>2 DEF KernelInv, AnnouncementsAlternate
    <2>4. PICK k \in 1 .. n : i + 1 < k /\ k < j + 1 /\ announced[k].port = announced'[i].port
                              /\ announced[k].event # announced'[i].event
        BY <1>3, <2>2, <2>3 DEF Between
    <2>5. PICK l \in 1 .. (n - 1) : k = l + 1 /\ announced'[l] = announced[k]
        <3>1. k > 1
            BY <2>4
        <3> QED
            BY <1>5, <3>1
    <2>6. i < l /\ l < j
        BY <2>4, <2>5
    <2> QED
        BY <1>3, <2>4, <2>5, <2>6 DEF Between
<1>7. ASSUME NEW i \in 1 .. (n - 1), announced'[i].event # StateOf(announced[i].port)'
      PROVE  Between(i, n, announced[i].event, announced[i].port)'
    <2>1. i + 1 \in 1 .. n
        BY <1>3
    <2>2. announced'[i] = announced[i + 1]
        BY <1>3
    <2>3. announced[i + 1].event # StateOf(announced[i + 1].port)
        BY <1>7, <2>2 DEF StateOf
    <2>4. Between(i + 1, n + 1, announced[i + 1].event, announced[i + 1].port)
        BY <1>1, <1>3, <2>1, <2>3 DEF KernelInv, AnnouncementsAlternate
    <2>5. PICK k \in 1 .. n : i + 1 < k /\ announced[k].port = announced'[i].port
                              /\ announced[k].event # announced'[i].event
        BY <1>3, <2>2, <2>4 DEF Between
    <2>6. PICK l \in 1 .. (n - 1) : k = l + 1 /\ announced'[l] = announced[k]
        <3>1. k > 1
            BY <2>5
        <3> QED
            BY <1>5, <3>1
    <2>7. i < l /\ l < n
        BY <2>5, <2>6
    <2> QED
        BY <1>3, <2>5, <2>6, <2>7 DEF Between
<1>8. Len(announced') + 1 = n
    BY <1>3
<1>9. AnnouncementsAlternate'
    BY <1>3, <1>6, <1>7, <1>8 DEF AnnouncementsAlternate
<1>10. KernelTypeOK' /\ DevicesAreApart'
    BY <1>3 DEF KernelTypeOK, KernelInv, DevicesAreApart
<1> QED
    BY <1>9, <1>10 DEF KernelInv

-----------------------------------------------------------------------------
(* What holds of the updates at each length: an id that was there is as it was, *)
(* a new one is off, and a name is at one place, awaited, enabled or dispatched. *)

Config == [name : Device, enabled : BOOLEAN]
Action ==
    [do : {"scan", "refresh", "load", "apply", "activate", "deactivate"},
     id : Nat, name : Device \cup {Nothing}]

Once(list) == \A i, j \in DOMAIN list : list[i] = list[j] => i = j
NamedOnce(list) == \A i, j \in DOMAIN list : list[i].name = list[j].name => i = j
NamesIn(list) == {list[i].name : i \in DOMAIN list}
IdsDiffer(midi) == \A i, j \in DOMAIN midi : midi[i].name = midi[j].name => i = j

Typed(after, bound) ==
    /\ after.devices \in [DOMAIN after.devices -> Config]
    /\ \A id \in DOMAIN after.devices : id \in Nat /\ id < bound
    /\ after.enabled \in [names : Seq(Device), dispatched : Seq(Action)]
    /\ \A i \in DOMAIN after.enabled.dispatched : after.enabled.dispatched[i].do = "activate"

Fits(after, midi) ==
    /\ \A id \in DOMAIN after.devices :
        IF id \in DOMAIN midi THEN after.devices[id] = midi[id]
        ELSE after.devices[id].enabled = FALSE
    /\ Once(after.enabled.names) /\ NamedOnce(after.enabled.dispatched)
    /\ NamesIn(after.enabled.dispatched) \cap Range(after.enabled.names) = {}
    /\ NamesIn(after.enabled.dispatched) \cap EnabledNames(after.devices) = {}
    /\ Range(after.enabled.names) \cap EnabledNames(after.devices) = {}
    /\ \A i \in DOMAIN after.enabled.dispatched :
        LET action == after.enabled.dispatched[i]
        IN  action.id \in DOMAIN after.devices => after.devices[action.id].name = action.name

KeptBy(after) ==
    Range(after.enabled.names) \cup EnabledNames(after.devices)
        \cup NamesIn(after.enabled.dispatched)

\* Ids that were removed do not come back.
IdsBelow(list, bound) == \A i \in DOMAIN list : list[i].id < bound

LEMMA EraseFacts ==
    ASSUME NEW names \in Seq(Device), NEW x \in Range(names)
    PROVE  /\ EraseName(names, x) \in Seq(Device)
           /\ Once(names) => /\ Once(EraseName(names, x))
                             /\ Range(EraseName(names, x)) = Range(names) \ {x}
<1>1. PICK n \in Nat : /\ n = Len(names) /\ DOMAIN names = 1 .. n
                       /\ \A i \in 1 .. n : names[i] \in Device
    OBVIOUS
<1> DEFINE First(i) == names[i] = x /\ \A j \in 1 .. (i - 1) : names[j] # x
           Places == {i \in 1 .. n : names[i] = x}
<1>2. Places # {} /\ Places \in SUBSET Nat
    BY <1>1 DEF Range
<1>3. PICK k \in Places : \A j \in Places : k <= j
    <2> HIDE DEF Places
    <2> QED
        BY <1>2, LeastIsThere
<1>4. k \in 1 .. n /\ First(k)
    BY <1>3
<1> DEFINE it == CHOOSE i \in DOMAIN names : First(i)
<1>5. it \in 1 .. n /\ names[it] = x
    <2> HIDE DEF First
    <2>1. it \in DOMAIN names /\ First(it)
        BY <1>1, <1>4
    <2> QED
        BY <1>1, <2>1 DEF First
<1>6. EraseName(names, x) = [i \in 1 .. (n - 1) |-> IF i < it THEN names[i] ELSE names[i + 1]]
    BY <1>1 DEF EraseName
<1> HIDE DEF it, First
<1> DEFINE s == [i \in 1 .. (n - 1) |-> IF i < it THEN names[i] ELSE names[i + 1]]
<1>7. \A i \in 1 .. (n - 1) : s[i] = IF i < it THEN names[i] ELSE names[i + 1]
    OBVIOUS
<1>8. \A i \in 1 .. (n - 1) : i \in 1 .. n /\ i + 1 \in 1 .. n
    OBVIOUS
<1>9. s \in [1 .. (n - 1) -> Device]
    BY <1>1, <1>8
<1>10. n - 1 \in Nat
    BY <1>5
<1>11. s \in Seq(Device) /\ DOMAIN s = 1 .. (n - 1)
    BY <1>9, <1>10, SeqDef
<1> HIDE DEF s
<1>12. ASSUME Once(names) PROVE Once(s)
    <2> SUFFICES ASSUME NEW i \in 1 .. (n - 1), NEW j \in 1 .. (n - 1), s[i] = s[j]
                 PROVE  i = j
        BY <1>11 DEF Once
    <2>1. \A a, b \in 1 .. n : names[a] = names[b] => a = b
        BY <1>1, <1>12 DEF Once
    <2>2. CASE i < it /\ j < it
        BY <1>7, <1>8, <2>1, <2>2
    <2>3. CASE i < it /\ ~(j < it)
        <3>1. names[i] = names[j + 1]
            BY <1>7, <2>3
        <3>2. i = j + 1
            BY <1>8, <2>1, <3>1
        <3> QED
            BY <1>5, <2>3, <3>2
    <2>4. CASE ~(i < it) /\ j < it
        <3>1. names[j] = names[i + 1]
            BY <1>7, <2>4
        <3>2. j = i + 1
            BY <1>8, <2>1, <3>1
        <3> QED
            BY <1>5, <2>4, <3>2
    <2>5. CASE ~(i < it) /\ ~(j < it)
        <3>1. names[i + 1] = names[j + 1]
            BY <1>7, <2>5
        <3>2. i + 1 = j + 1
            BY <1>8, <2>1, <3>1
        <3> QED
            BY <3>2
    <2> QED
        BY <2>2, <2>3, <2>4, <2>5
<1>13. ASSUME Once(names) PROVE Range(s) = Range(names) \ {x}
    <2>1. \A a \in 1 .. n : names[a] = x => a = it
        BY <1>1, <1>5, <1>13 DEF Once
    <2>2. ASSUME NEW i \in 1 .. (n - 1) PROVE s[i] \in Range(names) \ {x}
        <3>1. CASE i < it
            <4>1. i # it
                BY <1>5, <3>1
            <4>2. s[i] = names[i] /\ i \in 1 .. n
                BY <1>7, <1>8, <3>1
            <4> QED
                BY <1>1, <2>1, <4>1, <4>2 DEF Range
        <3>2. CASE ~(i < it)
            <4>1. i + 1 # it
                BY <1>5, <3>2
            <4>2. s[i] = names[i + 1] /\ i + 1 \in 1 .. n
                BY <1>7, <1>8, <3>2
            <4> QED
                BY <1>1, <2>1, <4>1, <4>2 DEF Range
        <3> QED
            BY <3>1, <3>2
    <2>3. ASSUME NEW a \in 1 .. n, names[a] # x PROVE names[a] \in Range(s)
        <3>1. a # it
            BY <1>5, <2>3
        <3>2. CASE a < it
            <4>1. a \in 1 .. (n - 1)
                BY <1>5, <3>2
            <4>2. s[a] = names[a]
                BY <1>7, <3>2, <4>1
            <4> QED
                BY <1>11, <4>1, <4>2 DEF Range
        <3>3. CASE ~(a < it)
            <4>1. a - 1 \in 1 .. (n - 1) /\ ~(a - 1 < it) /\ (a - 1) + 1 = a
                BY <1>5, <3>1, <3>3
            <4>2. s[a - 1] = names[(a - 1) + 1]
                BY <1>7, <4>1
            <4>3. s[a - 1] = names[a]
                BY <4>1, <4>2
            <4> QED
                BY <1>11, <4>1, <4>3 DEF Range
        <3> QED
            BY <3>2, <3>3
    <2> QED
        BY <1>1, <1>11, <2>2, <2>3 DEF Range
<1>14. EraseName(names, x) = s
    BY <1>6 DEF s
<1> QED
    BY <1>11, <1>12, <1>13, <1>14

LEMMA AddedToList ==
    ASSUME NEW T, NEW list \in Seq(T), NEW e \in T
    PROVE  /\ Range(Append(list, e)) = Range(list) \cup {e}
           /\ NamesIn(Append(list, e)) = NamesIn(list) \cup {e.name}
           /\ Once(list) /\ e \notin Range(list) => Once(Append(list, e))
           /\ NamedOnce(list) /\ e.name \notin NamesIn(list) => NamedOnce(Append(list, e))
<1>1. PICK n \in Nat : n = Len(list)
    OBVIOUS
<1> DEFINE s == Append(list, e)
<1>2. /\ DOMAIN list = 1 .. n /\ DOMAIN s = 1 .. (n + 1)
      /\ \A i \in 1 .. n : s[i] = list[i]
      /\ s[n + 1] = e
    BY <1>1, AppendFacts
<1> HIDE DEF s
<1>3. \A i \in 1 .. (n + 1) : i \in 1 .. n \/ i = n + 1
    OBVIOUS
<1>4. n + 1 \in 1 .. (n + 1) /\ \A i \in 1 .. n : i \in 1 .. (n + 1) /\ i # n + 1
    OBVIOUS
<1>5. Range(s) = Range(list) \cup {e}
    BY <1>2, <1>3, <1>4 DEF Range
<1>6. NamesIn(s) = NamesIn(list) \cup {e.name}
    <2>1. \A i \in 1 .. (n + 1) : s[i].name \in NamesIn(list) \cup {e.name}
        BY <1>2, <1>3 DEF NamesIn
    <2>2. \A i \in 1 .. n : list[i].name \in NamesIn(s)
        BY <1>2, <1>4 DEF NamesIn
    <2>3. e.name \in NamesIn(s)
        BY <1>2, <1>4 DEF NamesIn
    <2> QED
        BY <1>2, <2>1, <2>2, <2>3 DEF NamesIn
<1>7. ASSUME Once(list), e \notin Range(list) PROVE Once(s)
    <2>1. \A i \in 1 .. n : list[i] # e
        BY <1>2, <1>7 DEF Range
    <2> SUFFICES ASSUME NEW i \in 1 .. (n + 1), NEW j \in 1 .. (n + 1), s[i] = s[j] PROVE i = j
        BY <1>2 DEF Once
    <2> QED
        BY <1>2, <1>3, <1>7, <2>1 DEF Once
<1>8. ASSUME NamedOnce(list), e.name \notin NamesIn(list) PROVE NamedOnce(s)
    <2>1. \A i \in 1 .. n : list[i].name # e.name
        BY <1>2, <1>8 DEF NamesIn
    <2> SUFFICES ASSUME NEW i \in 1 .. (n + 1), NEW j \in 1 .. (n + 1), s[i].name = s[j].name
                 PROVE  i = j
        BY <1>2 DEF NamedOnce
    <2> QED
        BY <1>2, <1>3, <1>8, <2>1 DEF NamedOnce
<1> QED
    BY <1>5, <1>6, <1>7, <1>8 DEF s

Addition(id, name) == [what |-> "added", id |-> id, name |-> name]
Removal(id) == [what |-> "removed", id |-> id, name |-> Nothing]

AdditionLeaves(then, after, bound, x) ==
    /\ DOMAIN then.devices = DOMAIN after.devices \cup {bound}
    /\ then.devices[bound] = [name |-> x, enabled |-> FALSE]
    /\ \A id \in DOMAIN after.devices :
        id # bound /\ then.devices[id] = after.devices[id]
    /\ EnabledNames(then.devices) = EnabledNames(after.devices)
    /\ IF x \in Range(after.enabled.names)
       THEN then.enabled = [names |-> EraseName(after.enabled.names, x),
                            dispatched |-> Append(after.enabled.dispatched,
                                                  Activation(bound, x))]
       ELSE then.enabled = after.enabled
    /\ Typed(then, bound + 1)

RemovalLeaves(then, after, bound, midi, id) ==
    /\ DOMAIN then.devices = DOMAIN after.devices \ {id}
    /\ \A other \in DOMAIN after.devices \ {id} :
        then.devices[other] = after.devices[other]
    /\ then.enabled.dispatched = after.enabled.dispatched
    /\ IF id \in DOMAIN midi /\ midi[id].enabled
       THEN then.enabled.names = Append(after.enabled.names, midi[id].name)
       ELSE then.enabled.names = after.enabled.names
    /\ Typed(then, bound)

\* A device that is added is off, and is dispatched if its name is awaited.
LEMMA AdditionStep ==
    ASSUME NEW bound \in Nat, NEW midi, NEW after, Typed(after, bound), NEW x \in Device
    PROVE  AdditionLeaves(StepOf(midi, after, Addition(bound, x)), after, bound, x)
<1> DEFINE u == Addition(bound, x)
           then == StepOf(midi, after, u)
<1>1. u.what = "added" /\ u.id = bound /\ u.name = x
    BY DEF Addition
<1>2. \A id \in DOMAIN after.devices : id \in Nat /\ id < bound /\ id # bound
    BY DEF Typed
<1>3. then.devices = [id \in DOMAIN after.devices \cup {bound} |->
            IF id \in DOMAIN after.devices THEN after.devices[id]
            ELSE [name |-> x, enabled |-> FALSE]]
    <2>1. then.devices = UpdateMidiDevices(after.devices, u)
        BY DEF StepOf
    <2> HIDE DEF u, then
    <2> QED
        BY <1>1, <2>1 DEF UpdateMidiDevices
<1>4. then.enabled =
        IF x \in Range(after.enabled.names)
        THEN [names |-> EraseName(after.enabled.names, x),
              dispatched |-> Append(after.enabled.dispatched, Activation(bound, x))]
        ELSE after.enabled
    <2> HIDE DEF u
    <2> QED
        BY <1>1 DEF StepOf
<1> HIDE DEF u, then
<1>5. /\ DOMAIN then.devices = DOMAIN after.devices \cup {bound}
      /\ then.devices[bound] = [name |-> x, enabled |-> FALSE]
      /\ \A id \in DOMAIN after.devices : id # bound /\ then.devices[id] = after.devices[id]
    BY <1>2, <1>3
<1>6. EnabledNames(then.devices) = EnabledNames(after.devices)
    <2>1. \A id \in DOMAIN then.devices : then.devices[id].enabled =>
            id \in DOMAIN after.devices /\ then.devices[id] = after.devices[id]
        BY <1>5
    <2>2. \A id \in DOMAIN after.devices : id \in DOMAIN then.devices
        BY <1>5
    <2> QED
        BY <1>5, <2>1, <2>2 DEF EnabledNames
<1>7. then.devices \in [DOMAIN then.devices -> Config]
    <2>1. [name |-> x, enabled |-> FALSE] \in Config
        BY DEF Config
    <2>2. \A id \in DOMAIN after.devices : after.devices[id] \in Config
        BY DEF Typed
    <2> QED
        BY <1>3, <2>1, <2>2
<1>8. \A id \in DOMAIN then.devices : id \in Nat /\ id < bound + 1
    BY <1>2, <1>5
<1>9. /\ after.enabled.names \in Seq(Device) /\ after.enabled.dispatched \in Seq(Action)
      /\ \A i \in DOMAIN after.enabled.dispatched : after.enabled.dispatched[i].do = "activate"
      /\ after.enabled \in [names : Seq(Device), dispatched : Seq(Action)]
    BY DEF Typed
<1>10. /\ then.enabled \in [names : Seq(Device), dispatched : Seq(Action)]
       /\ \A i \in DOMAIN then.enabled.dispatched : then.enabled.dispatched[i].do = "activate"
    <2>1. CASE x \in Range(after.enabled.names)
        <3>1. EraseName(after.enabled.names, x) \in Seq(Device)
            BY <1>9, <2>1, EraseFacts
        <3>2. Activation(bound, x) \in Action /\ Activation(bound, x).do = "activate"
            BY DEF Activation, Action
        <3>3. PICK e \in Action : e = Activation(bound, x)
            BY <3>2
        <3>4. PICK d \in Seq(Action) : d = after.enabled.dispatched
            BY <1>9
        <3>5. Append(d, e) \in Seq(Action)
            BY AppendFacts
        <3>6. \A i \in DOMAIN Append(d, e) : Append(d, e)[i].do = "activate"
            <4>1. e.do = "activate"
                BY <3>2, <3>3
            <4>2. \A i \in DOMAIN d : d[i].do = "activate"
                BY <1>9, <3>4
            <4>3. \A i \in DOMAIN Append(d, e) :
                    \/ i \in DOMAIN d /\ Append(d, e)[i] = d[i]
                    \/ Append(d, e)[i] = e
                OBVIOUS
            <4> QED
                BY <4>1, <4>2, <4>3
        <3>7. then.enabled = [names |-> EraseName(after.enabled.names, x),
                              dispatched |-> Append(d, e)]
            BY <1>4, <2>1, <3>3, <3>4
        <3> QED
            BY <3>1, <3>5, <3>6, <3>7
    <2>2. CASE x \notin Range(after.enabled.names)
        BY <1>4, <1>9, <2>2
    <2> QED
        BY <2>1, <2>2
<1>11. Typed(then, bound + 1)
    BY <1>7, <1>8, <1>10 DEF Typed
<1> QED
    BY <1>4, <1>5, <1>6, <1>11 DEF AdditionLeaves, then, u

\* A device that is removed is awaited if it was enabled before the updates.
LEMMA RemovalStep ==
    ASSUME NEW bound \in Nat, NEW midi, NEW after, Typed(after, bound),
           midi \in [DOMAIN midi -> Config], NEW id
    PROVE  RemovalLeaves(StepOf(midi, after, Removal(id)), after, bound, midi, id)
<1> DEFINE u == Removal(id)
           then == StepOf(midi, after, u)
<1>1. u.what = "removed" /\ u.id = id
    BY DEF Removal
<1>2. then.devices = [other \in DOMAIN after.devices \ {id} |-> after.devices[other]]
    <2>1. then.devices = UpdateMidiDevices(after.devices, u)
        BY DEF StepOf
    <2> HIDE DEF u, then
    <2> QED
        BY <1>1, <2>1 DEF UpdateMidiDevices
<1>3. then.enabled =
        IF id \in DOMAIN midi /\ midi[id].enabled
        THEN [after.enabled EXCEPT !.names = Append(@, midi[id].name)]
        ELSE after.enabled
    <2> HIDE DEF u
    <2> QED
        BY <1>1 DEF StepOf
<1> HIDE DEF u, then
<1>4. /\ DOMAIN then.devices = DOMAIN after.devices \ {id}
      /\ \A other \in DOMAIN after.devices \ {id} : then.devices[other] = after.devices[other]
    BY <1>2
<1>5. /\ after.enabled \in [names : Seq(Device), dispatched : Seq(Action)]
      /\ after.enabled.names \in Seq(Device)
      /\ \A i \in DOMAIN after.enabled.dispatched : after.enabled.dispatched[i].do = "activate"
    BY DEF Typed
<1>6. /\ then.enabled.dispatched = after.enabled.dispatched
      /\ IF id \in DOMAIN midi /\ midi[id].enabled
         THEN then.enabled.names = Append(after.enabled.names, midi[id].name)
         ELSE then.enabled.names = after.enabled.names
    BY <1>3, <1>5
<1>7. then.enabled \in [names : Seq(Device), dispatched : Seq(Action)]
    <2>1. CASE id \in DOMAIN midi /\ midi[id].enabled
        <3>1. midi[id].name \in Device
            BY <2>1 DEF Config
        <3>2. Append(after.enabled.names, midi[id].name) \in Seq(Device)
            BY <1>5, <3>1
        <3> QED
            BY <1>3, <1>5, <2>1, <3>2
    <2>2. CASE ~(id \in DOMAIN midi /\ midi[id].enabled)
        BY <1>3, <1>5, <2>2
    <2> QED
        BY <2>1, <2>2
<1>8. then.devices \in [DOMAIN then.devices -> Config]
    <2>1. \A other \in DOMAIN after.devices : after.devices[other] \in Config
        BY DEF Typed
    <2> QED
        BY <1>2, <2>1
<1>9. \A other \in DOMAIN then.devices : other \in Nat /\ other < bound
    BY <1>4 DEF Typed
<1>10. Typed(then, bound)
    BY <1>5, <1>6, <1>7, <1>8, <1>9 DEF Typed
<1> QED
    BY <1>4, <1>6, <1>10 DEF RemovalLeaves, then, u

\* A name that is awaited is dispatched to the device that has it now.
LEMMA AdditionFits ==
    ASSUME NEW bound \in Nat, NEW midi, NEW after, Typed(after, bound), NEW x \in Device,
           Fits(after, midi), \A id \in DOMAIN midi : id \in Nat /\ id < bound,
           IdsBelow(after.enabled.dispatched, bound)
    PROVE  LET then == StepOf(midi, after, Addition(bound, x))
           IN  /\ Fits(then, midi) /\ KeptBy(then) = KeptBy(after)
               /\ Range(then.enabled.names) = Range(after.enabled.names) \ {x}
               /\ IdsBelow(then.enabled.dispatched, bound + 1)
<1> DEFINE then == StepOf(midi, after, Addition(bound, x))
<1>0. AdditionLeaves(then, after, bound, x)
    BY AdditionStep
<1> HIDE DEF then
<1>1. /\ DOMAIN then.devices = DOMAIN after.devices \cup {bound}
      /\ then.devices[bound] = [name |-> x, enabled |-> FALSE]
      /\ \A id \in DOMAIN after.devices : id # bound /\ then.devices[id] = after.devices[id]
    BY <1>0 DEF AdditionLeaves
<1>2. EnabledNames(then.devices) = EnabledNames(after.devices)
    BY <1>0 DEF AdditionLeaves
<1>3. IF x \in Range(after.enabled.names)
      THEN then.enabled = [names |-> EraseName(after.enabled.names, x),
                           dispatched |-> Append(after.enabled.dispatched, Activation(bound, x))]
      ELSE then.enabled = after.enabled
    BY <1>0 DEF AdditionLeaves
<1>4. PICK names \in Seq(Device) : names = after.enabled.names
    BY DEF Typed
<1>5. PICK list \in Seq(Action) : list = after.enabled.dispatched
    BY DEF Typed
<1>6. Once(names) /\ NamedOnce(list) /\ NamesIn(list) \cap Range(names) = {}
    BY <1>4, <1>5 DEF Fits
<1>7. NamesIn(list) \cap EnabledNames(after.devices) = {}
      /\ Range(names) \cap EnabledNames(after.devices) = {}
    BY <1>4, <1>5 DEF Fits
<1>8. PICK e \in Action : e = Activation(bound, x)
    BY DEF Activation, Action
<1>9. e.name = x /\ e.id = bound
    BY <1>8 DEF Activation
<1>10. ASSUME NEW id \in DOMAIN then.devices
       PROVE  IF id \in DOMAIN midi THEN then.devices[id] = midi[id]
              ELSE then.devices[id].enabled = FALSE
    <2>1. CASE id = bound
        BY <1>1, <2>1
    <2>2. CASE id # bound
        BY <1>1, <2>2 DEF Fits
    <2> QED
        BY <2>1, <2>2
<1>11. ASSUME NEW action \in Action, action.id < bound,
              action.id \in DOMAIN after.devices => after.devices[action.id].name = action.name,
              action.id \in DOMAIN then.devices
       PROVE  then.devices[action.id].name = action.name
    BY <1>1, <1>11
<1>12. \A i \in DOMAIN list : /\ list[i] \in Action /\ list[i].id < bound
                              /\ list[i].id \in DOMAIN after.devices
                                    => after.devices[list[i].id].name = list[i].name
    BY <1>5 DEF IdsBelow, Fits
<1>13. CASE x \in Range(names)
    <2>1. EraseName(names, x) \in Seq(Device) /\ Once(EraseName(names, x))
          /\ Range(EraseName(names, x)) = Range(names) \ {x}
        BY <1>6, <1>13, EraseFacts
    <2>2. then.enabled.names = EraseName(names, x) /\ then.enabled.dispatched = Append(list, e)
        BY <1>3, <1>4, <1>5, <1>8, <1>13
    <2>3. NamesIn(Append(list, e)) = NamesIn(list) \cup {x}
        BY <1>9, AddedToList
    <2>4. x \notin NamesIn(list)
        BY <1>6, <1>13
    <2>5. NamedOnce(Append(list, e))
        BY <1>6, <1>9, <2>4, AddedToList
    <2>6. x \notin EnabledNames(after.devices)
        BY <1>7, <1>13
    <2>7. \A i \in DOMAIN Append(list, e) :
            \/ i \in DOMAIN list /\ Append(list, e)[i] = list[i]
            \/ Append(list, e)[i] = e
        OBVIOUS
    <2>8. e.id \in DOMAIN then.devices => then.devices[e.id].name = e.name
        BY <1>1, <1>9
    <2>9. ASSUME NEW i \in DOMAIN Append(list, e)
          PROVE  /\ Append(list, e)[i].id < bound + 1
                 /\ LET action == Append(list, e)[i]
                    IN  action.id \in DOMAIN then.devices
                            => then.devices[action.id].name = action.name
        <3>1. CASE Append(list, e)[i] = e
            BY <1>9, <2>8, <3>1
        <3>2. CASE i \in DOMAIN list /\ Append(list, e)[i] = list[i]
            <4>1. list[i] \in Action /\ list[i].id \in Nat /\ list[i].id < bound
                BY <1>12, <3>2 DEF Action
            <4>2. list[i].id < bound + 1
                BY <4>1
            <4>3. list[i].id \in DOMAIN then.devices => then.devices[list[i].id].name = list[i].name
                BY <1>11, <1>12, <3>2
            <4> QED
                BY <3>2, <4>2, <4>3
        <3> QED
            BY <2>7, <3>1, <3>2
    <2>10. IdsBelow(then.enabled.dispatched, bound + 1)
        BY <2>2, <2>9 DEF IdsBelow
    <2>11. Fits(then, midi)
        <3>1. \A i \in DOMAIN then.enabled.dispatched :
                LET action == then.enabled.dispatched[i]
                IN  action.id \in DOMAIN then.devices
                        => then.devices[action.id].name = action.name
            BY <2>2, <2>9
        <3>2. Once(then.enabled.names) /\ NamedOnce(then.enabled.dispatched)
            BY <2>1, <2>2, <2>5
        <3>3. NamesIn(then.enabled.dispatched) \cap Range(then.enabled.names) = {}
            BY <1>6, <2>1, <2>2, <2>3
        <3>4. /\ NamesIn(then.enabled.dispatched) \cap EnabledNames(then.devices) = {}
              /\ Range(then.enabled.names) \cap EnabledNames(then.devices) = {}
            BY <1>2, <1>7, <2>1, <2>2, <2>3, <2>6
        <3> QED
            BY <1>10, <3>1, <3>2, <3>3, <3>4 DEF Fits
    <2>12. KeptBy(then) = KeptBy(after)
        BY <1>2, <1>4, <1>5, <1>13, <2>1, <2>2, <2>3 DEF KeptBy
    <2> QED
        BY <1>4, <2>1, <2>2, <2>10, <2>11, <2>12 DEF then
<1>14. CASE x \notin Range(names)
    <2>1. then.enabled = after.enabled
        BY <1>3, <1>4, <1>14
    <2>2. ASSUME NEW i \in DOMAIN list
          PROVE  list[i].id < bound + 1
        <3>1. list[i] \in Action /\ list[i].id \in Nat /\ list[i].id < bound
            BY <1>12 DEF Action
        <3> QED
            BY <3>1
    <2>3. IdsBelow(then.enabled.dispatched, bound + 1)
        BY <1>5, <2>1, <2>2 DEF IdsBelow
    <2>4. \A i \in DOMAIN list : list[i].id \in DOMAIN then.devices
            => then.devices[list[i].id].name = list[i].name
        BY <1>11, <1>12
    <2>5. Fits(then, midi)
        BY <1>2, <1>4, <1>5, <1>6, <1>7, <1>10, <2>1, <2>4 DEF Fits
    <2>6. KeptBy(then) = KeptBy(after)
        BY <1>2, <2>1 DEF KeptBy
    <2> QED
        BY <1>4, <1>14, <2>1, <2>3, <2>5, <2>6 DEF then
<1> QED
    BY <1>13, <1>14

\* The name of an enabled device that is removed is awaited, and nowhere else.
LEMMA RemovalFits ==
    ASSUME NEW bound \in Nat, NEW midi, NEW after, Typed(after, bound),
           midi \in [DOMAIN midi -> Config], IdsDiffer(midi), Fits(after, midi),
           NEW id \in DOMAIN after.devices
    PROVE  LET then == StepOf(midi, after, Removal(id))
           IN  /\ Fits(then, midi) /\ KeptBy(then) = KeptBy(after)
               /\ Range(then.enabled.names)
                    \subseteq Range(after.enabled.names) \cup {after.devices[id].name}
<1> DEFINE then == StepOf(midi, after, Removal(id))
<1>0. RemovalLeaves(then, after, bound, midi, id)
    BY RemovalStep
<1> HIDE DEF then
<1>1. /\ DOMAIN then.devices = DOMAIN after.devices \ {id}
      /\ \A other \in DOMAIN after.devices \ {id} : then.devices[other] = after.devices[other]
      /\ then.enabled.dispatched = after.enabled.dispatched
    BY <1>0 DEF RemovalLeaves
<1>2. IF id \in DOMAIN midi /\ midi[id].enabled
      THEN then.enabled.names = Append(after.enabled.names, midi[id].name)
      ELSE then.enabled.names = after.enabled.names
    BY <1>0 DEF RemovalLeaves
<1>3. PICK names \in Seq(Device) : names = after.enabled.names
    BY DEF Typed
<1>4. PICK list \in Seq(Action) : list = after.enabled.dispatched
    BY DEF Typed
<1>5. Once(names) /\ NamedOnce(list) /\ NamesIn(list) \cap Range(names) = {}
    BY <1>3, <1>4 DEF Fits
<1>6. NamesIn(list) \cap EnabledNames(after.devices) = {}
      /\ Range(names) \cap EnabledNames(after.devices) = {}
    BY <1>3, <1>4 DEF Fits
<1>7. \A other \in DOMAIN after.devices :
        IF other \in DOMAIN midi THEN after.devices[other] = midi[other]
        ELSE after.devices[other].enabled = FALSE
    BY DEF Fits
<1>8. \A other \in DOMAIN then.devices :
        IF other \in DOMAIN midi THEN then.devices[other] = midi[other]
        ELSE then.devices[other].enabled = FALSE
    BY <1>1, <1>7
<1>9. \A i \in DOMAIN list : list[i].id \in DOMAIN then.devices
        => then.devices[list[i].id].name = list[i].name
    <2>1. \A i \in DOMAIN list : list[i].id \in DOMAIN after.devices
            => after.devices[list[i].id].name = list[i].name
        BY <1>4 DEF Fits
    <2> QED
        BY <1>1, <2>1
<1>10. CASE id \in DOMAIN midi /\ midi[id].enabled
    <2>1. PICK x \in Device : x = midi[id].name
        BY <1>10 DEF Config
    <2>2. after.devices[id] = midi[id]
        BY <1>7, <1>10
    <2>3. x \in EnabledNames(after.devices)
        BY <1>10, <2>1, <2>2 DEF EnabledNames
    <2>4. EnabledNames(then.devices) = EnabledNames(after.devices) \ {x}
        <3>1. ASSUME NEW other \in DOMAIN then.devices, then.devices[other].enabled
              PROVE  then.devices[other].name \in EnabledNames(after.devices) \ {x}
            <4>1. /\ other \in DOMAIN after.devices \ {id}
                  /\ then.devices[other] = after.devices[other]
                BY <1>1, <3>1
            <4>2. other \in DOMAIN midi /\ then.devices[other] = midi[other]
                BY <1>8, <3>1
            <4>3. midi[other].name # x
                BY <1>10, <2>1, <4>1, <4>2 DEF IdsDiffer
            <4> QED
                BY <3>1, <4>1, <4>2, <4>3 DEF EnabledNames
        <3>2. ASSUME NEW other \in DOMAIN after.devices, after.devices[other].enabled,
                     after.devices[other].name # x
              PROVE  after.devices[other].name \in EnabledNames(then.devices)
            <4>1. other # id
                BY <2>1, <2>2, <3>2
            <4>2. other \in DOMAIN then.devices /\ then.devices[other] = after.devices[other]
                BY <1>1, <4>1
            <4> QED
                BY <3>2, <4>2 DEF EnabledNames
        <3>3. \A n \in EnabledNames(then.devices) : n \in EnabledNames(after.devices) \ {x}
            BY <3>1 DEF EnabledNames
        <3>4. \A n \in EnabledNames(after.devices) : n # x => n \in EnabledNames(then.devices)
            BY <3>2 DEF EnabledNames
        <3> QED
            BY <3>3, <3>4
    <2>5. then.enabled.names = Append(names, x)
        BY <1>2, <1>3, <1>10, <2>1
    <2>6. x \notin Range(names) /\ x \notin NamesIn(list)
        BY <1>6, <2>3
    <2>7. Range(Append(names, x)) = Range(names) \cup {x}
        BY AddedToList
    <2>8. Once(Append(names, x))
        BY <1>5, <2>6, AddedToList
    <2>9. Fits(then, midi)
        BY <1>1, <1>4, <1>5, <1>6, <1>8, <1>9, <2>4, <2>5, <2>6, <2>7, <2>8 DEF Fits
    <2>10. KeptBy(then) = KeptBy(after)
        BY <1>1, <1>3, <2>3, <2>4, <2>5, <2>7 DEF KeptBy
    <2>11. Range(then.enabled.names) = Range(after.enabled.names) \cup {after.devices[id].name}
        BY <1>3, <2>1, <2>2, <2>5, <2>7
    <2> QED
        BY <2>9, <2>10, <2>11 DEF then
<1>11. CASE ~(id \in DOMAIN midi /\ midi[id].enabled)
    <2>1. then.enabled.names = names
        BY <1>2, <1>3, <1>11
    <2>2. ~after.devices[id].enabled
        BY <1>7, <1>11
    <2>3. EnabledNames(then.devices) = EnabledNames(after.devices)
        <3>1. \A other \in DOMAIN then.devices :
                other \in DOMAIN after.devices /\ then.devices[other] = after.devices[other]
            BY <1>1
        <3>2. \A other \in DOMAIN after.devices : after.devices[other].enabled =>
                other \in DOMAIN then.devices /\ then.devices[other] = after.devices[other]
            BY <1>1, <2>2
        <3> QED
            BY <3>1, <3>2 DEF EnabledNames
    <2>4. Fits(then, midi)
        BY <1>1, <1>4, <1>5, <1>6, <1>8, <1>9, <2>1, <2>3 DEF Fits
    <2>5. KeptBy(then) = KeptBy(after)
        BY <1>1, <1>3, <2>1, <2>3 DEF KeptBy
    <2> QED
        BY <1>3, <2>1, <2>4, <2>5 DEF then
<1> QED
    BY <1>10, <1>11

-----------------------------------------------------------------------------
(* The ports that the device manager knows, by an id or since the scan.  A port  *)
(* whose announcements are read is known if and only if it is plugged, under its *)
(* name; for any other port it is still to be announced that it has left.        *)

Devices == Updated.devices

IsKnown(p, n) ==
    \/ \E id \in DOMAIN m_alsa_input_devices :
        m_alsa_input_devices[id] = p /\ Devices[id].name = n
    \/ \E i \in DOMAIN m_initial_updates :
        m_initial_updates[i].port = p /\ m_initial_updates[i].name = n

PortsHaveOneId ==
    /\ \A id, other \in DOMAIN m_alsa_input_devices :
        m_alsa_input_devices[id] = m_alsa_input_devices[other] => id = other
    /\ \A i, j \in DOMAIN m_initial_updates :
        m_initial_updates[i].port = m_initial_updates[j].port => i = j
    /\ \A id \in DOMAIN m_alsa_input_devices, i \in DOMAIN m_initial_updates :
        m_alsa_input_devices[id] # m_initial_updates[i].port

StartQueue == <<Do("scan"), Do("refresh"), Do("load")>>
BeforeScan == queue = StartQueue

ExitBefore(i, p) ==
    \E k \in DOMAIN announced : k < i /\ announced[k].port = p /\ announced[k].event = "exit"

KnownExitFirst ==
    \A p \in Port, n \in Device : IsKnown(p, n) =>
        \A i \in DOMAIN announced :
            announced[i].port = p /\ announced[i].event = "start" => ExitBefore(i, p)

UnannouncedAreKnown ==
    \A p \in Port : Unannounced(p) /\ ~BeforeScan =>
        (plugged[p] # Nothing <=> \E n \in Device : IsKnown(p, n))

NothingIsKnownBefore == BeforeScan => \A p \in Port, n \in Device : ~IsKnown(p, n)

NamesAreRight ==
    \A p \in Port, n \in Device : IsKnown(p, n) /\ Unannounced(p) => n = plugged[p]

\* What starts elsewhere is announced after its port has left.
IsLast(i, q) ==
    /\ announced[i].port = q /\ announced[i].event = "start"
    /\ \A j \in DOMAIN announced : j > i => announced[j].port # q

MovedExitFirst ==
    \A q, r \in Port, i \in DOMAIN announced :
        r # q /\ IsLast(i, q) /\ plugged[q] \in Device /\ IsKnown(r, plugged[q])
            => ExitBefore(i, r)

MovedAreKnownOnce ==
    \A q, r \in Port, n \in Device :
        r # q /\ Unannounced(q) /\ IsKnown(q, n) => ~IsKnown(r, n)

KnownInv ==
    /\ KnownExitFirst /\ UnannouncedAreKnown /\ NothingIsKnownBefore /\ NamesAreRight
    /\ MovedExitFirst /\ MovedAreKnownOnce

\* Nothing that is known changes, and nothing is announced.
LEMMA KnownKept ==
    ASSUME KnownInv, \A p \in Port, n \in Device : IsKnown(p, n)' <=> IsKnown(p, n),
           UNCHANGED <<announced, plugged>>, ~BeforeScan, ~BeforeScan'
    PROVE  KnownInv'
<1>1. \A p : Unannounced(p)' <=> Unannounced(p)
    BY DEF Unannounced
<1>2. \A i, p : ExitBefore(i, p)' <=> ExitBefore(i, p)
    BY DEF ExitBefore
<1>3. \A i, p : IsLast(i, p)' <=> IsLast(i, p)
    BY DEF IsLast
<1>4. KnownExitFirst'
    BY <1>2 DEF KnownExitFirst, KnownInv
<1>5. UnannouncedAreKnown'
    BY <1>1 DEF UnannouncedAreKnown, KnownInv
<1>6. NamesAreRight' /\ NothingIsKnownBefore'
    BY <1>1 DEF NamesAreRight, NothingIsKnownBefore, KnownInv
<1>7. MovedExitFirst'
    BY <1>2, <1>3 DEF MovedExitFirst, KnownInv
<1>8. MovedAreKnownOnce'
    BY <1>1 DEF MovedAreKnownOnce, KnownInv
<1> QED
    BY <1>4, <1>5, <1>6, <1>7, <1>8 DEF KnownInv

\* A port that starts or leaves is announced behind what is known of it.
LEMMA AnnounceKnown ==
    ASSUME KernelInv, KnownInv, NEW p \in Port, NEW event \in {"start", "exit"},
           announced' = Append(announced, [event |-> event, port |-> p]),
           plugged' \in [Port -> Device \cup {Nothing}],
           \A q \in Port : q # p => plugged'[q] = plugged[q],
           event = "start" => plugged[p] = Nothing /\ \A q \in Port : plugged[q] # plugged'[p],
           event = "exit" => plugged'[p] = Nothing,
           \A q \in Port, n \in Device : IsKnown(q, n)' <=> IsKnown(q, n),
           UNCHANGED queue
    PROVE  KnownInv'
<1>1. PICK n \in Nat : n = Len(announced)
    BY DEF KernelInv, KernelTypeOK
<1>2. PICK e \in Announcement : e = [event |-> event, port |-> p]
    BY DEF Announcement
<1>3. announced \in Seq(Announcement) /\ announced' = Append(announced, e)
    BY <1>2 DEF KernelInv, KernelTypeOK
<1>4. /\ DOMAIN announced = 1 .. n /\ DOMAIN announced' = 1 .. (n + 1)
      /\ \A i \in 1 .. n : announced'[i] = announced[i]
      /\ announced'[n + 1] = e
    BY <1>1, <1>3, AppendFacts
<1>5. \A i \in 1 .. n : announced[i] \in Announcement
    BY <1>3, <1>4
<1>6. e.event = event /\ e.port = p
    BY <1>2
<1>7. BeforeScan' <=> BeforeScan
    BY DEF BeforeScan
<1>8. n + 1 \in 1 .. (n + 1) /\ \A i \in 1 .. n : i \in 1 .. (n + 1) /\ i < n + 1
    OBVIOUS
<1>9. \A q : Unannounced(q)' => q # p /\ Unannounced(q)
    BY <1>4, <1>6, <1>8 DEF Unannounced
<1>10. ASSUME NEW i \in 1 .. n, NEW q, ExitBefore(i, q)
       PROVE  ExitBefore(i, q)'
    BY <1>4, <1>8, <1>10 DEF ExitBefore
<1>11. ASSUME event = "start", NEW q \in Port, NEW m \in Device, IsKnown(q, m),
              q = p \/ m = plugged'[p]
       PROVE  ExitBefore(n + 1, q)'
    <2>1. CASE Unannounced(q)
        <3>1. ~BeforeScan
            BY <1>11 DEF KnownInv, NothingIsKnownBefore
        <3>2. plugged[q] # Nothing /\ m = plugged[q]
            BY <1>11, <2>1, <3>1 DEF KnownInv, UnannouncedAreKnown, NamesAreRight
        <3> QED
            BY <1>11, <3>2
    <2>2. CASE ~Unannounced(q)
        <3>1. PICK i \in 1 .. n : announced[i].port = q
            BY <1>4, <2>2 DEF Unannounced
        <3>2. announced[i].event \in {"start", "exit"}
            BY <1>5 DEF Announcement
        <3>3. CASE announced[i].event = "exit"
            BY <1>4, <1>8, <3>1, <3>3 DEF ExitBefore
        <3>4. CASE announced[i].event = "start"
            <4>1. ExitBefore(i, q)
                BY <1>4, <1>11, <3>1, <3>4 DEF KnownInv, KnownExitFirst
            <4>2. PICK k \in 1 .. n : announced[k].port = q /\ announced[k].event = "exit"
                BY <1>4, <4>1 DEF ExitBefore
            <4> QED
                BY <1>4, <1>8, <4>2 DEF ExitBefore
        <3> QED
            BY <3>2, <3>3, <3>4
    <2> QED
        BY <2>1, <2>2
<1>12. KnownExitFirst'
    <2> SUFFICES ASSUME NEW q \in Port, NEW m \in Device, IsKnown(q, m),
                        NEW i \in 1 .. (n + 1),
                        announced'[i].port = q, announced'[i].event = "start"
                 PROVE  ExitBefore(i, q)'
        BY <1>4 DEF KnownExitFirst
    <2>1. CASE i = n + 1
        BY <1>4, <1>6, <1>11, <2>1
    <2>2. CASE i # n + 1
        <3>1. i \in 1 .. n
            BY <2>2
        <3>2. ExitBefore(i, q)
            BY <1>4, <3>1 DEF KnownInv, KnownExitFirst
        <3> QED
            BY <1>10, <3>1, <3>2
    <2> QED
        BY <2>1, <2>2
<1>13. UnannouncedAreKnown'
    BY <1>7, <1>9 DEF KnownInv, UnannouncedAreKnown
<1>14. NothingIsKnownBefore'
    BY <1>7 DEF KnownInv, NothingIsKnownBefore
<1>15. NamesAreRight'
    BY <1>9 DEF KnownInv, NamesAreRight
<1>16. MovedAreKnownOnce'
    BY <1>9 DEF KnownInv, MovedAreKnownOnce
<1>17. MovedExitFirst'
    <2> SUFFICES ASSUME NEW q \in Port, NEW r \in Port, NEW i \in 1 .. (n + 1),
                        r # q, IsLast(i, q)', plugged'[q] \in Device, IsKnown(r, plugged'[q])
                 PROVE  ExitBefore(i, r)'
        BY <1>4 DEF MovedExitFirst
    <2>1. CASE i = n + 1
        <3>1. q = p /\ event = "start"
            BY <1>4, <1>6, <2>1 DEF IsLast
        <3> QED
            BY <1>11, <2>1, <3>1
    <2>2. CASE i # n + 1
        <3>1. i \in 1 .. n
            BY <2>2
        <3>2. n + 1 > i
            BY <3>1
        <3>3. q # p
            BY <1>4, <1>6, <1>8, <3>2 DEF IsLast
        <3>4. plugged'[q] = plugged[q]
            BY <3>3
        <3>5. IsLast(i, q)
            BY <1>4, <1>8, <3>1 DEF IsLast
        <3>6. ExitBefore(i, r)
            BY <1>4, <3>1, <3>4, <3>5 DEF KnownInv, MovedExitFirst
        <3> QED
            BY <1>10, <3>1, <3>6
    <2> QED
        BY <2>1, <2>2
<1> QED
    BY <1>12, <1>13, <1>14, <1>15, <1>16, <1>17 DEF KnownInv

\* The positions of the announcements after the first is read.
LEMMA TailPlaces ==
    ASSUME KernelInv, announced # <<>>, announced' = Tail(announced)
    PROVE  /\ 1 \in DOMAIN announced /\ Head(announced) = announced[1]
           /\ announced[1] \in Announcement
           /\ \A i \in DOMAIN announced : i \in Nat /\ i >= 1
           /\ \A i \in DOMAIN announced' : i \in Nat /\ i + 1 \in DOMAIN announced
                                           /\ announced'[i] = announced[i + 1]
           /\ \A k \in DOMAIN announced : k > 1 =>
                k - 1 \in DOMAIN announced' /\ announced'[k - 1] = announced[k]
<1>1. PICK n \in Nat : n = Len(announced)
    BY DEF KernelInv, KernelTypeOK
<1>2. announced \in Seq(Announcement)
    BY DEF KernelInv, KernelTypeOK
<1>3. /\ n >= 1 /\ DOMAIN announced = 1 .. n /\ DOMAIN announced' = 1 .. (n - 1)
      /\ \A i \in 1 .. (n - 1) : announced'[i] = announced[i + 1]
      /\ Head(announced) = announced[1]
    BY <1>1, <1>2, TailFacts
<1>4. announced[1] \in Announcement
    BY <1>2, <1>3
<1>5. \A i \in 1 .. (n - 1) : i + 1 \in 1 .. n
    OBVIOUS
<1>6. ASSUME NEW k \in 1 .. n, k > 1
      PROVE  k - 1 \in 1 .. (n - 1) /\ announced'[k - 1] = announced[k]
    <2>1. k - 1 \in 1 .. (n - 1) /\ (k - 1) + 1 = k
        BY <1>6
    <2>2. announced'[k - 1] = announced[(k - 1) + 1]
        BY <1>3, <2>1
    <2> QED
        BY <2>1, <2>2
<1> QED
    BY <1>3, <1>4, <1>5, <1>6

\* What is announced of a port that is not the first announcement stays so.
LEMMA TailKeeps ==
    ASSUME KernelInv, announced # <<>>, announced' = Tail(announced)
    PROVE  /\ \A r : r # announced[1].port => (Unannounced(r)' <=> Unannounced(r))
           /\ \A i \in DOMAIN announced' : \A r :
                /\ IsLast(i, r)' => IsLast(i + 1, r)
                /\ announced[1].event = "start" \/ announced[1].port # r =>
                    (ExitBefore(i + 1, r) => ExitBefore(i, r)')
<1>1. /\ 1 \in DOMAIN announced /\ announced[1] \in Announcement
      /\ \A i \in DOMAIN announced : i \in Nat /\ i >= 1
      /\ \A i \in DOMAIN announced' : i \in Nat /\ i + 1 \in DOMAIN announced
                                      /\ announced'[i] = announced[i + 1]
      /\ \A k \in DOMAIN announced : k > 1 =>
            k - 1 \in DOMAIN announced' /\ announced'[k - 1] = announced[k]
    BY TailPlaces
<1>2. ASSUME NEW r, r # announced[1].port PROVE Unannounced(r)' <=> Unannounced(r)
    <2>1. ASSUME Unannounced(r), NEW i \in DOMAIN announced' PROVE announced'[i].port # r
        BY <1>1, <2>1 DEF Unannounced
    <2>2. ASSUME Unannounced(r)', NEW k \in DOMAIN announced PROVE announced[k].port # r
        <3>1. CASE k = 1
            BY <1>2, <3>1
        <3>2. CASE k > 1
            BY <1>1, <2>2, <3>2 DEF Unannounced
        <3> QED
            BY <1>1, <3>1, <3>2
    <2> QED
        BY <2>1, <2>2 DEF Unannounced
<1>3. ASSUME NEW i \in DOMAIN announced', NEW r, IsLast(i, r)' PROVE IsLast(i + 1, r)
    <2>1. i \in Nat /\ announced[i + 1].port = r /\ announced[i + 1].event = "start"
        BY <1>1, <1>3 DEF IsLast
    <2>2. ASSUME NEW j \in DOMAIN announced, j > i + 1 PROVE announced[j].port # r
        <3>1. j \in Nat /\ j > 1 /\ j - 1 > i
            BY <1>1, <2>1, <2>2
        <3>2. j - 1 \in DOMAIN announced' /\ announced'[j - 1] = announced[j]
            BY <1>1, <3>1
        <3> QED
            BY <1>3, <3>1, <3>2 DEF IsLast
    <2> QED
        BY <2>1, <2>2 DEF IsLast
<1>4. ASSUME NEW i \in DOMAIN announced', NEW r, ExitBefore(i + 1, r),
             announced[1].event = "start" \/ announced[1].port # r
      PROVE  ExitBefore(i, r)'
    <2>1. PICK k \in DOMAIN announced :
            k < i + 1 /\ announced[k].port = r /\ announced[k].event = "exit"
        BY <1>4 DEF ExitBefore
    <2>2. k # 1
        BY <1>4, <2>1
    <2>3. k \in Nat /\ k > 1 /\ k - 1 < i /\ i \in Nat
        BY <1>1, <2>1, <2>2
    <2>4. k - 1 \in DOMAIN announced' /\ announced'[k - 1] = announced[k]
        BY <1>1, <2>3
    <2> QED
        BY <2>1, <2>3, <2>4 DEF ExitBefore
<1> QED
    BY <1>2, <1>3, <1>4

\* A port whose first announcement is a start is not known.
LEMMA StartIsUnknown ==
    ASSUME KernelInv, KnownInv, announced # <<>>, announced[1].event = "start", NEW n \in Device
    PROVE  announced[1].port \in Port /\ ~IsKnown(announced[1].port, n)
<1>1. announced \in Seq(Announcement)
    BY DEF KernelInv, KernelTypeOK
<1>2. 1 \in DOMAIN announced /\ announced[1] \in Announcement
    BY <1>1
<1>3. \A k \in DOMAIN announced : ~(k < 1)
    BY <1>1
<1>4. ~ExitBefore(1, announced[1].port)
    BY <1>3 DEF ExitBefore
<1>5. announced[1].port \in Port
    BY <1>2 DEF Announcement
<1> QED
    BY <1>2, <1>4, <1>5 DEF KnownInv, KnownExitFirst

\* The first announcement was the last of its port, and there is none left.
LEMMA NoneLeft ==
    ASSUME KernelInv, announced # <<>>, announced' = Tail(announced),
           NEW q, q = announced[1].port, Unannounced(q)'
    PROVE  /\ announced[1].event = StateOf(q)
           /\ announced[1].event = "start" => IsLast(1, q)
<1>1. /\ 1 \in DOMAIN announced
      /\ \A i \in DOMAIN announced : i \in Nat /\ i >= 1
      /\ \A k \in DOMAIN announced : k > 1 =>
            k - 1 \in DOMAIN announced' /\ announced'[k - 1] = announced[k]
    BY TailPlaces
<1>2. ASSUME NEW k \in DOMAIN announced, k > 1 PROVE announced[k].port # announced[1].port
    BY <1>1, <1>2 DEF Unannounced
<1>3. announced[1].event = StateOf(announced[1].port)
    <2>1. ASSUME announced[1].event # StateOf(announced[1].port) PROVE FALSE
        <3>1. Between(1, Len(announced) + 1, announced[1].event, announced[1].port)
            BY <1>1, <2>1 DEF KernelInv, AnnouncementsAlternate
        <3>2. PICK k \in DOMAIN announced : 1 < k /\ announced[k].port = announced[1].port
            BY <3>1 DEF Between
        <3>3. k > 1
            BY <1>1, <3>2
        <3> QED
            BY <1>2, <3>2, <3>3
    <2> QED
        BY <2>1
<1>4. announced[1].event = "start" => IsLast(1, announced[1].port)
    BY <1>2 DEF IsLast
<1> QED
    BY <1>3, <1>4

\* A start is read: the port is known from now on, if it is still plugged.
LEMMA StartRead ==
    ASSUME KernelInv, KnownInv, announced # <<>>, announced' = Tail(announced),
           announced[1].event = "start", NEW q, q = announced[1].port,
           UNCHANGED plugged, ~BeforeScan, ~BeforeScan',
           \A p \in Port, n \in Device :
                IsKnown(p, n)' <=> IsKnown(p, n) \/ (p = q /\ n = plugged[q])
    PROVE  KnownInv'
<1>1. /\ 1 \in DOMAIN announced /\ q \in Port
      /\ \A i \in DOMAIN announced : i \in Nat /\ i >= 1
      /\ \A i \in DOMAIN announced' : i \in Nat /\ i + 1 \in DOMAIN announced
                                      /\ announced'[i] = announced[i + 1]
      /\ \A k \in DOMAIN announced : k > 1 =>
            k - 1 \in DOMAIN announced' /\ announced'[k - 1] = announced[k]
    BY TailPlaces DEF Announcement
<1>2. \A r : r # q => (Unannounced(r)' <=> Unannounced(r))
    BY TailKeeps
<1>3. \A i \in DOMAIN announced' : \A r : IsLast(i, r)' => IsLast(i + 1, r)
    BY TailKeeps
<1>4. \A i \in DOMAIN announced' : \A r : ExitBefore(i + 1, r) => ExitBefore(i, r)'
    BY TailKeeps
<1>5. \A n \in Device : ~IsKnown(q, n)
    BY StartIsUnknown
<1>6. plugged \in [Port -> Device \cup {Nothing}] /\ plugged[q] \in Device \cup {Nothing}
    BY <1>1 DEF KernelInv, KernelTypeOK
<1>7. \A p, r \in Port : p # r /\ plugged[p] \in Device => plugged[p] # plugged[r]
    BY MidiAssumption DEF KernelInv, DevicesAreApart
<1>8. Unannounced(q)' => plugged[q] # Nothing /\ IsLast(1, q)
    <2>1. ASSUME Unannounced(q)' PROVE StateOf(q) = "start" /\ IsLast(1, q)
        BY <2>1, NoneLeft
    <2> QED
        BY <2>1 DEF StateOf
<1>9. KnownExitFirst'
    <2> SUFFICES ASSUME NEW p \in Port, NEW n \in Device, IsKnown(p, n)',
                        NEW i \in DOMAIN announced',
                        announced'[i].port = p, announced'[i].event = "start"
                 PROVE  ExitBefore(i, p)'
        BY DEF KnownExitFirst
    <2>1. /\ i + 1 \in DOMAIN announced
          /\ announced[i + 1].port = p /\ announced[i + 1].event = "start"
        BY <1>1
    <2>2. CASE p # q
        <3>1. IsKnown(p, n)
            BY <2>2
        <3>2. ExitBefore(i + 1, p)
            BY <2>1, <3>1 DEF KnownInv, KnownExitFirst
        <3> QED
            BY <1>4, <3>2
    <2>3. CASE p = q
        <3>1. i \in Nat /\ 1 < i + 1
            BY <1>1
        <3>2. announced[1] = announced[i + 1]
            <4>1. announced[1] \in Announcement /\ announced[i + 1] \in Announcement
                BY <1>1, <2>1 DEF KernelInv, KernelTypeOK
            <4> QED
                BY <2>1, <2>3, <4>1 DEF Announcement
        <3>3. Between(1, i + 1, "start", q)
            BY <1>1, <2>1, <3>1, <3>2 DEF KernelInv, AnnouncementsAlternate
        <3>4. PICK k \in DOMAIN announced : 1 < k /\ k < i + 1 /\ announced[k].port = q
                                            /\ announced[k].event # "start"
            BY <3>3 DEF Between
        <3>5. announced[k].event = "exit"
            <4>1. announced[k] \in Announcement
                BY DEF KernelInv, KernelTypeOK
            <4> QED
                BY <3>4, <4>1 DEF Announcement
        <3>6. ExitBefore(i + 1, q)
            BY <3>4, <3>5 DEF ExitBefore
        <3> QED
            BY <1>4, <2>3, <3>6
    <2> QED
        BY <2>2, <2>3
<1>10. UnannouncedAreKnown'
    <2> SUFFICES ASSUME NEW p \in Port, Unannounced(p)'
                 PROVE  plugged[p] # Nothing <=> \E n \in Device : IsKnown(p, n)'
        BY DEF UnannouncedAreKnown
    <2>1. CASE p = q
        BY <1>6, <1>8, <2>1
    <2>2. CASE p # q
        BY <1>2, <2>2 DEF KnownInv, UnannouncedAreKnown
    <2> QED
        BY <2>1, <2>2
<1>11. NothingIsKnownBefore'
    BY DEF NothingIsKnownBefore
<1>12. NamesAreRight'
    <2> SUFFICES ASSUME NEW p \in Port, NEW n \in Device, IsKnown(p, n)', Unannounced(p)'
                 PROVE  n = plugged[p]
        BY DEF NamesAreRight
    <2>1. CASE p = q
        BY <1>5, <2>1
    <2>2. CASE p # q
        BY <1>2, <2>2 DEF KnownInv, NamesAreRight
    <2> QED
        BY <2>1, <2>2
<1>13. MovedExitFirst'
    <2> SUFFICES ASSUME NEW p \in Port, NEW r \in Port, NEW i \in DOMAIN announced',
                        r # p, IsLast(i, p)', plugged[p] \in Device, IsKnown(r, plugged[p])'
                 PROVE  ExitBefore(i, r)'
        BY DEF MovedExitFirst
    <2>1. IsKnown(r, plugged[p])
        <3>1. r = q => plugged[p] # plugged[q]
            BY <1>1, <1>7
        <3> QED
            BY <3>1
    <2>2. i + 1 \in DOMAIN announced /\ IsLast(i + 1, p)
        BY <1>1, <1>3
    <2>3. ExitBefore(i + 1, r)
        BY <2>1, <2>2 DEF KnownInv, MovedExitFirst
    <2> QED
        BY <1>4, <2>3
<1>14. MovedAreKnownOnce'
    <2> SUFFICES ASSUME NEW p \in Port, NEW r \in Port, NEW n \in Device,
                        r # p, Unannounced(p)', IsKnown(p, n)', IsKnown(r, n)'
                 PROVE  FALSE
        BY DEF MovedAreKnownOnce
    <2>1. CASE p = q
        <3>1. n = plugged[q] /\ IsKnown(r, n)
            BY <1>5, <2>1
        <3>2. IsLast(1, q)
            BY <1>8, <2>1
        <3>3. ExitBefore(1, r)
            BY <1>1, <2>1, <3>1, <3>2 DEF KnownInv, MovedExitFirst
        <3> QED
            BY <1>1, <3>3 DEF ExitBefore
    <2>2. CASE p # q
        <3>1. Unannounced(p) /\ IsKnown(p, n)
            BY <1>2, <2>2
        <3>2. n = plugged[p]
            BY <3>1 DEF KnownInv, NamesAreRight
        <3>3. ~IsKnown(r, n)
            BY <3>1 DEF KnownInv, MovedAreKnownOnce
        <3>4. r = q /\ n = plugged[q]
            BY <3>3
        <3>5. plugged[p] \in Device /\ plugged[p] = plugged[q]
            BY <3>2, <3>4
        <3> QED
            BY <1>1, <1>7, <2>2, <3>5
    <2> QED
        BY <2>1, <2>2
<1> QED
    BY <1>9, <1>10, <1>11, <1>12, <1>13, <1>14 DEF KnownInv

\* An exit is read: the port is not known any more.
LEMMA ExitRead ==
    ASSUME KernelInv, KnownInv, announced # <<>>, announced' = Tail(announced),
           announced[1].event = "exit", NEW q, q = announced[1].port,
           UNCHANGED plugged, ~BeforeScan, ~BeforeScan',
           \A p \in Port, n \in Device : IsKnown(p, n)' <=> IsKnown(p, n) /\ p # q
    PROVE  KnownInv'
<1>1. /\ 1 \in DOMAIN announced /\ q \in Port
      /\ \A i \in DOMAIN announced' : i \in Nat /\ i + 1 \in DOMAIN announced
                                      /\ announced'[i] = announced[i + 1]
    BY TailPlaces DEF Announcement
<1>2. \A r : r # q => (Unannounced(r)' <=> Unannounced(r))
    BY TailKeeps
<1>3. \A i \in DOMAIN announced' : \A r : IsLast(i, r)' => IsLast(i + 1, r)
    BY TailKeeps
<1>4. \A i \in DOMAIN announced' : \A r : r # q => (ExitBefore(i + 1, r) => ExitBefore(i, r)')
    BY TailKeeps
<1>5. Unannounced(q)' => plugged[q] = Nothing
    <2>1. ASSUME Unannounced(q)' PROVE StateOf(q) = "exit"
        BY <2>1, NoneLeft
    <2> QED
        BY <2>1 DEF StateOf
<1>6. KnownExitFirst'
    <2> SUFFICES ASSUME NEW p \in Port, NEW n \in Device, IsKnown(p, n)',
                        NEW i \in DOMAIN announced',
                        announced'[i].port = p, announced'[i].event = "start"
                 PROVE  ExitBefore(i, p)'
        BY DEF KnownExitFirst
    <2>1. /\ i + 1 \in DOMAIN announced
          /\ announced[i + 1].port = p /\ announced[i + 1].event = "start"
        BY <1>1
    <2>2. ExitBefore(i + 1, p)
        BY <2>1 DEF KnownInv, KnownExitFirst
    <2> QED
        BY <1>4, <2>2
<1>7. UnannouncedAreKnown'
    <2> SUFFICES ASSUME NEW p \in Port, Unannounced(p)'
                 PROVE  plugged[p] # Nothing <=> \E n \in Device : IsKnown(p, n)'
        BY DEF UnannouncedAreKnown
    <2>1. CASE p = q
        BY <1>5, <2>1
    <2>2. CASE p # q
        BY <1>2, <2>2 DEF KnownInv, UnannouncedAreKnown
    <2> QED
        BY <2>1, <2>2
<1>8. NothingIsKnownBefore'
    BY DEF NothingIsKnownBefore
<1>9. NamesAreRight'
    BY <1>2 DEF KnownInv, NamesAreRight
<1>10. MovedExitFirst'
    <2> SUFFICES ASSUME NEW p \in Port, NEW r \in Port, NEW i \in DOMAIN announced',
                        r # p, IsLast(i, p)', plugged[p] \in Device, IsKnown(r, plugged[p])'
                 PROVE  ExitBefore(i, r)'
        BY DEF MovedExitFirst
    <2>1. IsKnown(r, plugged[p]) /\ r # q
        OBVIOUS
    <2>2. i + 1 \in DOMAIN announced /\ IsLast(i + 1, p)
        BY <1>1, <1>3
    <2>3. ExitBefore(i + 1, r)
        BY <2>1, <2>2 DEF KnownInv, MovedExitFirst
    <2> QED
        BY <1>4, <2>1, <2>3
<1>11. MovedAreKnownOnce'
    BY <1>2 DEF KnownInv, MovedAreKnownOnce
<1> QED
    BY <1>6, <1>7, <1>8, <1>9, <1>10, <1>11 DEF KnownInv

-----------------------------------------------------------------------------
(* The invariant.  When a port is both scanned and announced, only the types and *)
(* the sequencer are as they should be until the next start.                     *)

Update == [what : {"added", "removed"}, id : Nat, name : Device \cup {Nothing}]

MidiTypeOK ==
    /\ next_id \in Nat /\ next_id >= 1
    /\ m_initial_updates \in Seq([port : Port, name : Device])
    /\ m_alsa_input_devices \in [DOMAIN m_alsa_input_devices -> Port]
    /\ midi_devices \in [DOMAIN midi_devices -> Config]
    /\ \A id \in DOMAIN midi_devices : id \in Nat /\ id < next_id
    /\ m_enabled_devices \in Seq(Device)
    /\ updates \in Seq(Update) /\ queue \in Seq(Action)
    /\ saved \in (SUBSET Device) \cup {Nothing} /\ twice \in BOOLEAN
    /\ Typed(Updated, next_id) /\ DOMAIN Devices = DOMAIN m_alsa_input_devices

\* What is read is handled before anything else.
RefreshFits ==
    queue = <<>> \/ Head(queue) # Do("refresh") => updates = <<>> /\ m_initial_updates = <<>>

StartFits ==
    /\ BeforeScan =>
        /\ ~twice /\ m_initial_updates = <<>> /\ DOMAIN m_alsa_input_devices = {}
        /\ DOMAIN midi_devices = {} /\ updates = <<>>
    /\ \A i \in DOMAIN queue :
        /\ queue[i].do = "scan" => BeforeScan
        /\ queue[i].do = "apply" => saved # Nothing
    /\ RefreshFits

Kept == Range(m_enabled_devices) \cup EnabledNames(midi_devices)

UpdatesFit ==
    /\ Fits(Updated, midi_devices) /\ KeptBy(Updated) = Kept
    /\ IdsBelow(Updated.enabled.dispatched, next_id)

\* A device that is there to stay is not awaited.
AwaitedAreAway ==
    \A id \in DOMAIN m_alsa_input_devices :
        Devices[id].name \in Range(Updated.enabled.names) => ~Unannounced(m_alsa_input_devices[id])

StateFits ==
    /\ IdsDiffer(midi_devices) /\ Once(m_enabled_devices)
    /\ \A id \in DOMAIN midi_devices : midi_devices[id].name \notin Range(m_enabled_devices)

QueueFits ==
    \/ queue \in {<<>>, StartQueue, Tail(StartQueue), <<Do("load")>>, <<Do("apply")>>,
                  <<Do("refresh")>>}
    \/ \A i \in DOMAIN queue : queue[i].do = "activate"
    \/ Len(queue) = 1 /\ queue[1].do = "deactivate"

Loading == queue \in {StartQueue, Tail(StartQueue), <<Do("load")>>, <<Do("apply")>>}

LoadingFits ==
    Loading =>
        /\ Kept = {} /\ failed = {}
        /\ wished = IF saved = Nothing THEN {} ELSE saved

Activated == {queue[i].name : i \in {j \in DOMAIN queue : queue[j].do = "activate"}}
Deactivated == {queue[i].name : i \in {j \in DOMAIN queue : queue[j].do = "deactivate"}}

ActivationFits(action) ==
    /\ action.name \notin Kept
    /\ action.id \in DOMAIN midi_devices => midi_devices[action.id].name = action.name

DeactivationFits(action) ==
    /\ action.id \in DOMAIN midi_devices
    /\ midi_devices[action.id].name = action.name
    /\ action.name \notin wished

ActionsFit ==
    /\ \A i, j \in DOMAIN queue :
        queue[i].do = "activate" /\ queue[j].do = "activate" /\ queue[i].name = queue[j].name
            => i = j
    /\ \A i \in DOMAIN queue : queue[i].do = "activate" => ActivationFits(queue[i])
    /\ \A i \in DOMAIN queue : queue[i].do = "deactivate" => DeactivationFits(queue[i])

WishesFit ==
    ~Loading =>
        /\ wished \ failed \subseteq Kept \cup Activated
        /\ Kept \cup Activated \subseteq wished \cup Deactivated
        /\ failed \cap Kept = {}

EnabledAreConnected ==
    \A id \in DOMAIN Devices : Devices[id].enabled =>
        /\ Unannounced(m_alsa_input_devices[id]) => m_alsa_input_devices[id] \in subscribed
        /\ handler # Nothing =>
            /\ m_alsa_input_devices[id] \in DOMAIN handler
            /\ handler[m_alsa_input_devices[id]] = id

OnceInv ==
    /\ KnownInv /\ PortsHaveOneId /\ UpdatesFit /\ AwaitedAreAway /\ StateFits
    /\ QueueFits /\ LoadingFits /\ ActionsFit /\ WishesFit
    /\ EnabledAreConnected

MidiInv == KernelInv /\ MidiTypeOK /\ StartFits /\ (~twice => OnceInv)

LEMMA UpdatedKept ==
    ASSUME UNCHANGED <<midi_devices, m_enabled_devices, updates>>
    PROVE  Updated' = Updated /\ Devices' = Devices
BY UpdatedIsAfter, UpdatedIsAfterThen DEF Devices

LEMMA UpdatedNone ==
    /\ updates = <<>> => Updated = Unhandled(midi_devices, m_enabled_devices)
    /\ updates' = <<>> => Updated' = Unhandled(midi_devices', m_enabled_devices')
BY UpdatedIsAfter, UpdatedIsAfterThen, AfterNone

LEMMA UpdatedMore ==
    ASSUME updates \in Seq(Update), NEW u \in Update, updates' = Append(updates, u),
           UNCHANGED <<midi_devices, m_enabled_devices>>
    PROVE  Updated' = StepOf(midi_devices, Updated, u)
<1>1. After(midi_devices, m_enabled_devices, Append(updates, u))
        = StepOf(midi_devices, After(midi_devices, m_enabled_devices, updates), u)
    BY AfterOneMore
<1> QED
    BY <1>1, UpdatedIsAfter, UpdatedIsAfterThen

\* Without updates what holds of them is what holds of the state.
LEMMA UnhandledFacts ==
    ASSUME NEW midi, NEW names \in Seq(Device), NEW bound \in Nat,
           midi \in [DOMAIN midi -> Config], \A id \in DOMAIN midi : id \in Nat /\ id < bound
    PROVE  /\ Unhandled(midi, names).devices = midi
           /\ Unhandled(midi, names).enabled.names = names
           /\ Unhandled(midi, names).enabled.dispatched = <<>>
           /\ Typed(Unhandled(midi, names), bound)
           /\ KeptBy(Unhandled(midi, names)) = Range(names) \cup EnabledNames(midi)
           /\ IdsBelow(<<>>, bound)
<1> DEFINE u == Unhandled(midi, names)
<1>1. u.devices = midi /\ u.enabled = [names |-> names, dispatched |-> <<>>]
    BY DEF Unhandled
<1>2. u.enabled.names = names /\ u.enabled.dispatched = <<>>
    BY <1>1
<1> HIDE DEF u
<1>3. \A i \in DOMAIN <<>> : FALSE
    OBVIOUS
<1>4. <<>> \in Seq(Action) /\ u.enabled \in [names : Seq(Device), dispatched : Seq(Action)]
    BY <1>1
<1>5. Typed(u, bound)
    BY <1>1, <1>2, <1>3, <1>4 DEF Typed
<1>6. NamesIn(<<>>) = {}
    BY <1>3 DEF NamesIn
<1>7. KeptBy(u) = Range(names) \cup EnabledNames(midi)
    BY <1>1, <1>2, <1>6 DEF KeptBy
<1>8. IdsBelow(<<>>, bound)
    BY <1>3 DEF IdsBelow
<1> QED
    BY <1>1, <1>2, <1>5, <1>7, <1>8 DEF u

LEMMA UnhandledFits ==
    ASSUME NEW midi, NEW names \in Seq(Device), NEW bound \in Nat,
           midi \in [DOMAIN midi -> Config], \A id \in DOMAIN midi : id \in Nat /\ id < bound,
           Once(names), \A id \in DOMAIN midi : midi[id].name \notin Range(names)
    PROVE  Fits(Unhandled(midi, names), midi)
<1> DEFINE u == Unhandled(midi, names)
<1>1. u.devices = midi /\ u.enabled.names = names /\ u.enabled.dispatched = <<>>
    BY UnhandledFacts
<1> HIDE DEF u
<1>2. \A i \in DOMAIN <<>> : FALSE
    OBVIOUS
<1>3. NamedOnce(<<>>) /\ NamesIn(<<>>) = {}
    BY <1>2 DEF NamedOnce, NamesIn
<1>4. Range(names) \cap EnabledNames(midi) = {}
    BY DEF EnabledNames
<1>5. Fits(u, midi)
    BY <1>1, <1>2, <1>3, <1>4 DEF Fits
<1> QED
    BY <1>5 DEF u

LEMMA IsKnownKept ==
    ASSUME UNCHANGED <<m_alsa_input_devices, m_initial_updates, midi_devices,
                       m_enabled_devices, updates>>,
           NEW p, NEW n
    PROVE  IsKnown(p, n)' <=> IsKnown(p, n)
<1>1. Devices' = Devices
    BY UpdatedKept
<1> QED
    BY <1>1 DEF IsKnown

-----------------------------------------------------------------------------
(* Ports come and go. *)

LEMMA HotplugInv ==
    ASSUME MidiInv, Hotplug
    PROVE  MidiInv'
<1>0. /\ UNCHANGED <<m_initial_updates, m_alsa_input_devices, next_id, midi_devices,
                     m_enabled_devices, updates, queue, handler, saved, wished, failed, twice>>
      /\ KernelInv /\ MidiTypeOK /\ StartFits
    BY DEF Hotplug, managerVars, wishVars, MidiInv
<1>1. PICK p \in Port, event \in {"start", "exit"} :
        /\ announced' = Append(announced, [event |-> event, port |-> p])
        /\ \A q \in Port : q # p => plugged'[q] = plugged[q]
        /\ event = "start" => plugged[p] = Nothing /\ \A q \in Port : plugged[q] # plugged'[p]
        /\ event = "exit" => plugged'[p] = Nothing
        /\ \A q \in subscribed : q # p => q \in subscribed'
        /\ KernelInv'
    <2>1. ASSUME NEW d \in Device, NEW p \in Port, Plug(d, p)
          PROVE  /\ announced' = Append(announced, [event |-> "start", port |-> p])
                 /\ \A q \in Port : q # p => plugged'[q] = plugged[q]
                 /\ plugged[p] = Nothing /\ \A q \in Port : plugged[q] # plugged'[p]
                 /\ subscribed' = subscribed
                 /\ KernelInv'
        <3>1. KernelInv'
            BY <1>0, <2>1, PlugKernel
        <3>2. plugged \in [Port -> Device \cup {Nothing}]
            BY <1>0 DEF KernelInv, KernelTypeOK
        <3> QED
            BY <2>1, <3>1, <3>2 DEF Plug
    <2>2. ASSUME NEW p \in Port, Unplug(p)
          PROVE  /\ announced' = Append(announced, [event |-> "exit", port |-> p])
                 /\ \A q \in Port : q # p => plugged'[q] = plugged[q]
                 /\ plugged'[p] = Nothing
                 /\ \A q \in subscribed : q # p => q \in subscribed'
                 /\ KernelInv'
        <3>1. KernelInv'
            BY <1>0, <2>2, UnplugKernel
        <3>2. plugged \in [Port -> Device \cup {Nothing}]
            BY <1>0 DEF KernelInv, KernelTypeOK
        <3> QED
            BY <2>2, <3>1, <3>2 DEF Unplug
    <2>3. CASE \E d \in Device, p \in Port : Plug(d, p)
        <3>1. PICK d \in Device, p \in Port : Plug(d, p)
            BY <2>3
        <3> QED
            BY <2>1, <3>1
    <2>4. CASE \E p \in Port : Unplug(p)
        <3>1. PICK p \in Port : Unplug(p)
            BY <2>4
        <3> QED
            BY <2>2, <3>1
    <2> QED
        BY <2>3, <2>4 DEF Hotplug
<1>2. Updated' = Updated /\ Devices' = Devices
    BY <1>0, UpdatedKept
<1>3. MidiTypeOK'
    BY <1>0, <1>2 DEF MidiTypeOK
<1>4. StartFits'
    BY <1>0 DEF StartFits, BeforeScan, RefreshFits
<1>5. ASSUME ~twice PROVE OnceInv'
    <2>0. OnceInv
        BY <1>5 DEF MidiInv
    <2>1. KnownInv'
        <3>1. KnownInv
            BY <2>0 DEF OnceInv
        <3>2. plugged' \in [Port -> Device \cup {Nothing}]
            BY <1>1 DEF KernelInv, KernelTypeOK
        <3>3. \A q \in Port, n \in Device : IsKnown(q, n)' <=> IsKnown(q, n)
            BY <1>0, <1>2 DEF IsKnown
        <3> QED
            BY <1>0, <1>1, <3>1, <3>2, <3>3, AnnounceKnown
    <2>2. \A q : Unannounced(q)' => Unannounced(q) /\ q # p
        <3>1. announced \in Seq(Announcement)
            BY <1>0 DEF KernelInv, KernelTypeOK
        <3>2. PICK e \in Announcement : e = [event |-> event, port |-> p]
            BY DEF Announcement
        <3>3. PICK n \in Nat : n = Len(announced)
            BY <3>1
        <3>4. /\ DOMAIN announced = 1 .. n /\ DOMAIN announced' = 1 .. (n + 1)
              /\ \A i \in 1 .. n : announced'[i] = announced[i]
              /\ announced'[n + 1] = e
            BY <1>1, <3>1, <3>2, <3>3, AppendFacts
        <3>5. n + 1 \in 1 .. (n + 1) /\ \A i \in 1 .. n : i \in 1 .. (n + 1)
            OBVIOUS
        <3>6. e.port = p
            BY <3>2
        <3> QED
            BY <3>4, <3>5, <3>6 DEF Unannounced
    <2>3. PortsHaveOneId'
        BY <1>0, <2>0 DEF OnceInv, PortsHaveOneId
    <2>4. UpdatesFit'
        BY <1>0, <1>2, <2>0 DEF OnceInv, UpdatesFit, Kept
    <2>5. AwaitedAreAway'
        BY <1>0, <1>2, <2>0, <2>2 DEF OnceInv, AwaitedAreAway
    <2>6. StateFits' /\ QueueFits'
        BY <1>0, <2>0 DEF OnceInv, StateFits, QueueFits
    <2>7. Kept' = Kept /\ Loading' = Loading /\ Activated' = Activated
          /\ Deactivated' = Deactivated
        BY <1>0 DEF Kept, Loading, Activated, Deactivated
    <2>8. LoadingFits' /\ WishesFit'
        BY <1>0, <2>0, <2>7 DEF OnceInv, LoadingFits, WishesFit
    <2>9. ActionsFit'
        BY <1>0, <2>0, <2>7 DEF OnceInv, ActionsFit, ActivationFits, DeactivationFits
    <2>10. EnabledAreConnected'
        <3>1. \A id \in DOMAIN Devices : m_alsa_input_devices[id] \in subscribed
                /\ m_alsa_input_devices[id] # p => m_alsa_input_devices[id] \in subscribed'
            BY <1>1
        <3> QED
            BY <1>0, <1>2, <2>0, <2>2, <3>1 DEF OnceInv, EnabledAreConnected
    <2> QED
        BY <2>1, <2>3, <2>4, <2>5, <2>6, <2>8, <2>9, <2>10 DEF OnceInv
<1> QED
    BY <1>0, <1>1, <1>3, <1>4, <1>5 DEF MidiInv

-----------------------------------------------------------------------------
(* The scan. *)

\* The list of a set has each element at one place.
LEMMA ListOfSet ==
    ASSUME NEW S, IsFiniteSet(S)
    PROVE  /\ Cardinality(S) \in Nat
           /\ SetToSeq(S) \in [1 .. Cardinality(S) -> S]
           /\ SetToSeq(S) \in Seq(S)
           /\ Once(SetToSeq(S)) /\ Range(SetToSeq(S)) = S
<1> DEFINE n == Cardinality(S)
           s == SetToSeq(S)
<1>1. n \in Nat /\ ExistsBijection(1 .. n, S)
    BY FS_CardinalityType
<1>2. \E f \in [1 .. n -> S] : IsInjective(f)
    <2>1. PICK f \in Bijection(1 .. n, S) : TRUE
        BY <1>1 DEF ExistsBijection
    <2>2. f \in [1 .. n -> S] /\ \A i, j \in 1 .. n : f[i] = f[j] => i = j
        BY <2>1 DEF Bijection, Injection, IsInjective
    <2> QED
        BY <2>2 DEF IsInjective
<1>3. s \in [1 .. n -> S] /\ IsInjective(s)
    <2>1. s = CHOOSE f \in [1 .. n -> S] : IsInjective(f)
        BY DEF SetToSeq
    <2> HIDE DEF s, n
    <2> QED
        BY <1>2, <2>1
<1>4. s \in Injection(1 .. n, S)
    <2> HIDE DEF s, n
    <2> QED
        BY <1>3 DEF Injection, IsInjective
<1>5. Cardinality(1 .. n) = n
    <2>1. Cardinality(1 .. n) = IF 1 > n THEN 0 ELSE n - 1 + 1
        BY <1>1, FS_Interval
    <2> HIDE DEF n
    <2> QED
        BY <1>1, <2>1
<1>6. s \in Surjection(1 .. n, S)
    <2> HIDE DEF s
    <2> QED
        BY <1>4, <1>5, FS_Injection
<1> HIDE DEF s, n
<1>7. Range(s) = S
    BY <1>3, <1>6 DEF Surjection, Range
<1>8. Once(s)
    BY <1>3 DEF Once, IsInjective
<1>9. s \in Seq(S)
    BY <1>1, <1>3, SeqDef
<1> QED
    BY <1>1, <1>3, <1>7, <1>8, <1>9 DEF s, n

LEMMA StartQueueFacts ==
    /\ Tail(StartQueue) = <<Do("refresh"), Do("load")>>
    /\ Head(StartQueue) = Do("scan") /\ Head(StartQueue).do = "scan"
    /\ Do("scan").do = "scan" /\ Do("refresh").do = "refresh" /\ Do("load").do = "load"
    /\ Do("apply").do = "apply"
    /\ Do("scan") \in Action /\ Do("refresh") \in Action /\ Do("load") \in Action
    /\ Do("apply") \in Action
    /\ StartQueue # <<>> /\ Tail(StartQueue) # StartQueue /\ <<Do("load")>> # StartQueue
    /\ <<Do("apply")>> # StartQueue /\ <<Do("refresh")>> # StartQueue
BY DEF StartQueue, Do, Action

\* What a queue with none of the actions on devices says about them.
LEMMA NoActions ==
    ASSUME \A i \in DOMAIN queue' : queue'[i].do \notin {"activate", "deactivate"}
    PROVE  ActionsFit' /\ Activated' = {} /\ Deactivated' = {}
BY DEF ActionsFit, Activated, Deactivated

LEMMA ScanInv ==
    ASSUME MidiInv, queue # <<>>, Scan, UNCHANGED <<plugs, restarts>>
    PROVE  MidiInv'
<1>1. /\ Head(queue) = Do("scan") /\ queue' = Tail(queue)
      /\ UNCHANGED <<plugged, subscribed, announced, m_alsa_input_devices, next_id, midi_devices,
                     m_enabled_devices, updates, handler, saved, wished, failed>>
      /\ KernelInv /\ MidiTypeOK /\ StartFits
    BY DEF Scan, kernelVars, wishVars, MidiInv
<1>2. BeforeScan /\ queue = StartQueue /\ queue' = <<Do("refresh"), Do("load")>>
    <2>1. queue \in Seq(Action)
        BY <1>1 DEF MidiTypeOK
    <2>2. 1 \in DOMAIN queue /\ queue[1] = Do("scan")
        BY <1>1, <2>1
    <2>3. BeforeScan
        BY <1>1, <2>2, StartQueueFacts DEF StartFits
    <2> QED
        BY <1>1, <2>3, StartQueueFacts DEF BeforeScan
<1>3. /\ ~twice /\ m_initial_updates = <<>> /\ DOMAIN m_alsa_input_devices = {}
      /\ DOMAIN midi_devices = {} /\ updates = <<>> /\ OnceInv
    BY <1>1, <1>2 DEF StartFits, MidiInv
<1> DEFINE found == ScanInputDevices
           s == SetToSeq(found)
           n == Cardinality(found)
<1>4. /\ n \in Nat /\ s \in [1 .. n -> found] /\ Once(s) /\ Range(s) = found
      /\ DOMAIN s = 1 .. n
    <2>1. IsFiniteSet(found)
        <3>1. found \subseteq Port
            BY DEF ScanInputDevices
        <3> HIDE DEF found
        <3> QED
            BY <3>1, MidiAssumption, FS_Subset
    <2> HIDE DEF found
    <2>2. n \in Nat /\ s \in [1 .. n -> found] /\ Once(s) /\ Range(s) = found
        BY <2>1, ListOfSet
    <2> QED
        BY <2>2
<1>5. m_initial_updates' = [i \in 1 .. n |-> [port |-> s[i], name |-> plugged[s[i]]]]
    BY DEF Scan
<1>6. twice' = (\E i \in DOMAIN announced :
                    announced[i].event = "start" /\ announced[i].port \in found)
    BY DEF Scan
<1>7. /\ plugged \in [Port -> Device \cup {Nothing}]
      /\ \A p : p \in found <=> p \in Port /\ plugged[p] # Nothing
      /\ \A p \in found : plugged[p] \in Device
    BY <1>1 DEF KernelInv, KernelTypeOK, ScanInputDevices
<1> HIDE DEF s, n, found
<1>8. m_initial_updates' \in Seq([port : Port, name : Device])
    <2>1. \A i \in 1 .. n : s[i] \in found
        BY <1>4
    <2>2. m_initial_updates' \in [1 .. n -> [port : Port, name : Device]]
        BY <1>5, <1>7, <2>1
    <2>3. \A T, f : f \in [1 .. n -> T] => f \in Seq(T)
        BY <1>4, SeqDef
    <2> QED
        BY <2>2, <2>3
<1>9. Updated' = Updated /\ Devices' = Devices
    BY <1>1, UpdatedKept
<1>10. queue' \in Seq(Action) /\ DOMAIN queue' = {1, 2} /\ queue'[1].do = "refresh"
       /\ queue'[2].do = "load" /\ Head(queue') = Do("refresh") /\ queue' = Tail(StartQueue)
       /\ queue' # StartQueue
    <2>1. PICK a \in Action, b \in Action : a = Do("refresh") /\ b = Do("load")
        BY StartQueueFacts
    <2>2. queue' = <<a, b>> /\ a.do = "refresh" /\ b.do = "load"
        BY <1>2, <2>1, StartQueueFacts
    <2>3. queue' \in Seq(Action) /\ DOMAIN queue' = {1, 2} /\ queue'[1].do = "refresh"
          /\ queue'[2].do = "load" /\ Head(queue') = Do("refresh")
        BY <2>1, <2>2
    <2> QED
        BY <1>2, <2>3, StartQueueFacts
<1>11. ~BeforeScan'
    BY <1>10 DEF BeforeScan, StartQueue, Do
<1>12. KernelInv'
    BY <1>1 DEF KernelInv, KernelTypeOK, DevicesAreApart, AnnouncementsAlternate, Between, StateOf
<1>13. MidiTypeOK'
    <2>1. twice' \in BOOLEAN
        BY <1>6
    <2> QED
        BY <1>1, <1>8, <1>9, <1>10, <2>1 DEF MidiTypeOK
<1>14. StartFits'
    <2>1. RefreshFits'
        BY <1>10 DEF RefreshFits
    <2>2. \A i \in DOMAIN queue' : queue'[i].do \notin {"scan", "apply"}
        BY <1>10
    <2> QED
        BY <1>11, <2>1, <2>2 DEF StartFits
<1>15. ASSUME ~twice' PROVE OnceInv'
    <2>1. \A p \in Port, m \in Device : IsKnown(p, m)' <=> p \in found /\ m = plugged[p]
        <3>1. DOMAIN m_alsa_input_devices' = {}
            BY <1>1, <1>3
        <3>2. DOMAIN m_initial_updates' = 1 .. n
            BY <1>5
        <3>3. \A i \in 1 .. n : m_initial_updates'[i].port = s[i]
                               /\ m_initial_updates'[i].name = plugged[s[i]]
            BY <1>5
        <3>4. \A p : p \in found <=> \E i \in 1 .. n : s[i] = p
            BY <1>4 DEF Range
        <3> QED
            BY <3>1, <3>2, <3>3, <3>4 DEF IsKnown
    <2>2. \A i \in DOMAIN announced : announced[i].event = "start" => announced[i].port \notin found
        BY <1>6, <1>15
    <2>3. KnownInv'
        <3>1. KnownExitFirst'
            BY <1>1, <2>1, <2>2 DEF KnownExitFirst
        <3>2. UnannouncedAreKnown'
            BY <1>1, <1>7, <2>1 DEF UnannouncedAreKnown
        <3>3. NothingIsKnownBefore'
            BY <1>11 DEF NothingIsKnownBefore
        <3>4. NamesAreRight'
            BY <1>1, <2>1 DEF NamesAreRight
        <3>5. MovedExitFirst'
            <4>1. \A q \in Port : plugged[q] \in Device => q \in found
                BY <1>7, MidiAssumption
            <4>2. \A q \in Port, i \in DOMAIN announced : IsLast(i, q)' => q \notin found
                BY <1>1, <2>2 DEF IsLast
            <4> QED
                BY <1>1, <4>1, <4>2 DEF MovedExitFirst
        <3>6. MovedAreKnownOnce'
            <4>1. \A p, r \in found : p # r => plugged[p] # plugged[r]
                BY <1>1, <1>7 DEF KernelInv, DevicesAreApart
            <4> QED
                BY <2>1, <4>1 DEF MovedAreKnownOnce
        <3> QED
            BY <3>1, <3>2, <3>3, <3>4, <3>5, <3>6 DEF KnownInv
    <2>4. PortsHaveOneId'
        <3>1. DOMAIN m_initial_updates' = 1 .. n
              /\ \A i \in 1 .. n : m_initial_updates'[i].port = s[i]
            BY <1>5
        <3>2. \A i, j \in 1 .. n : s[i] = s[j] => i = j
            BY <1>4 DEF Once
        <3> QED
            BY <1>1, <1>3, <3>1, <3>2 DEF PortsHaveOneId
    <2>5. UpdatesFit' /\ StateFits'
        BY <1>1, <1>3, <1>9 DEF OnceInv, UpdatesFit, Kept, StateFits
    <2>6. AwaitedAreAway'
        BY <1>1, <1>3 DEF AwaitedAreAway
    <2>7. QueueFits'
        BY <1>10 DEF QueueFits
    <2>8. ActionsFit' /\ Activated' = {} /\ Deactivated' = {}
        BY <1>10, NoActions
    <2>9. Loading /\ Loading'
        BY <1>2, <1>10 DEF Loading
    <2>10. LoadingFits' /\ WishesFit'
        <3>1. Kept' = Kept
            BY <1>1 DEF Kept
        <3>2. queue' # <<Do("apply")>>
            BY <1>10, StartQueueFacts
        <3> QED
            BY <1>1, <1>3, <2>9, <3>1, <3>2 DEF OnceInv, LoadingFits, WishesFit
    <2>11. EnabledAreConnected'
        <3>1. DOMAIN Devices' = {}
            BY <1>1, <1>3, <1>9 DEF MidiTypeOK
        <3> QED
            BY <3>1 DEF EnabledAreConnected
    <2> QED
        BY <2>3, <2>4, <2>5, <2>6, <2>7, <2>8, <2>10, <2>11 DEF OnceInv
<1> QED
    BY <1>12, <1>13, <1>14, <1>15 DEF MidiInv

-----------------------------------------------------------------------------
(* Reading: what the scan found, a start, and an exit. *)

\* What is not of the device manager is as it was.
LEMMA QueueSideKept ==
    ASSUME OnceInv, UNCHANGED <<midi_devices, m_enabled_devices, queue, saved, wished, failed>>
    PROVE  StateFits' /\ QueueFits' /\ LoadingFits' /\ ActionsFit' /\ WishesFit' /\ Kept' = Kept
<1>1. /\ Kept' = Kept /\ Loading' = Loading /\ Activated' = Activated
      /\ Deactivated' = Deactivated
    BY DEF Kept, Loading, Activated, Deactivated
<1>2. StateFits' /\ QueueFits'
    BY DEF OnceInv, StateFits, QueueFits
<1>3. LoadingFits' /\ WishesFit'
    BY <1>1 DEF OnceInv, LoadingFits, WishesFit
<1>4. ActionsFit'
    BY <1>1 DEF OnceInv, ActionsFit, ActivationFits, DeactivationFits
<1> QED
    BY <1>1, <1>2, <1>3, <1>4

HasId(p, n) ==
    \E id \in DOMAIN m_alsa_input_devices :
        m_alsa_input_devices[id] = p /\ Devices[id].name = n

IsFound(p, n) ==
    \E i \in DOMAIN m_initial_updates :
        m_initial_updates[i].port = p /\ m_initial_updates[i].name = n

LEMMA AddedFacts ==
    ASSUME MidiTypeOK, NEW port \in Port, NEW x \in Device, Added(port, x),
           UNCHANGED <<midi_devices, m_enabled_devices>>
    PROVE  /\ Updated' = StepOf(midi_devices, Updated, Addition(next_id, x))
           /\ next_id \notin DOMAIN m_alsa_input_devices
           /\ DOMAIN m_alsa_input_devices' = DOMAIN m_alsa_input_devices \cup {next_id}
           /\ m_alsa_input_devices'[next_id] = port
           /\ \A id \in DOMAIN m_alsa_input_devices :
                m_alsa_input_devices'[id] = m_alsa_input_devices[id] /\ Devices'[id] = Devices[id]
           /\ Devices'[next_id] = [name |-> x, enabled |-> FALSE]
           /\ \A p, n : HasId(p, n)' <=> HasId(p, n) \/ (p = port /\ n = x)
           /\ m_alsa_input_devices' \in [DOMAIN m_alsa_input_devices' -> Port]
           /\ next_id' = next_id + 1 /\ next_id' \in Nat /\ next_id' >= 1
           /\ updates' \in Seq(Update)
           /\ Typed(Updated', next_id') /\ DOMAIN Devices' = DOMAIN m_alsa_input_devices'
<1>1. /\ next_id \in Nat /\ next_id >= 1 /\ updates \in Seq(Update) /\ Typed(Updated, next_id)
      /\ DOMAIN Devices = DOMAIN m_alsa_input_devices
      /\ m_alsa_input_devices \in [DOMAIN m_alsa_input_devices -> Port]
    BY DEF MidiTypeOK
<1>2. Addition(next_id, x) \in Update
    BY <1>1 DEF Addition, Update
<1>3. updates' = Append(updates, Addition(next_id, x))
    BY DEF Added, Addition
<1>4. Updated' = StepOf(midi_devices, Updated, Addition(next_id, x))
    BY <1>1, <1>2, <1>3, UpdatedMore
<1>5. AdditionLeaves(Updated', Updated, next_id, x)
    <2>1. AdditionLeaves(StepOf(midi_devices, Updated, Addition(next_id, x)), Updated, next_id, x)
        BY <1>1, AdditionStep
    <2> QED
        BY <1>4, <2>1
<1>6. /\ DOMAIN Devices' = DOMAIN Devices \cup {next_id}
      /\ Devices'[next_id] = [name |-> x, enabled |-> FALSE]
      /\ \A id \in DOMAIN Devices : id # next_id /\ Devices'[id] = Devices[id]
      /\ Typed(Updated', next_id + 1)
    BY <1>5 DEF AdditionLeaves, Devices
<1>7. m_alsa_input_devices' = [id \in DOMAIN m_alsa_input_devices \cup {next_id} |->
            IF id = next_id THEN port ELSE m_alsa_input_devices[id]]
      /\ next_id' = next_id + 1
    BY DEF Added
<1>8. next_id \notin DOMAIN m_alsa_input_devices
    BY <1>1, <1>6
<1>9. /\ DOMAIN m_alsa_input_devices' = DOMAIN m_alsa_input_devices \cup {next_id}
      /\ m_alsa_input_devices'[next_id] = port
      /\ \A id \in DOMAIN m_alsa_input_devices :
            id # next_id /\ m_alsa_input_devices'[id] = m_alsa_input_devices[id]
    BY <1>7, <1>8
<1>10. m_alsa_input_devices' \in [DOMAIN m_alsa_input_devices' -> Port]
    BY <1>1, <1>7
<1>11. updates' \in Seq(Update)
    BY <1>1, <1>2, <1>3, AppendFacts
<1>12. ASSUME NEW p, NEW n PROVE HasId(p, n)' <=> HasId(p, n) \/ (p = port /\ n = x)
    <2>1. Devices'[next_id].name = x
        BY <1>6
    <2>2. \A id \in DOMAIN m_alsa_input_devices : Devices'[id] = Devices[id]
        BY <1>1, <1>6
    <2> QED
        BY <1>9, <2>1, <2>2 DEF HasId
<1>13. next_id + 1 \in Nat /\ next_id + 1 >= 1
    BY <1>1
<1> QED
    BY <1>1, <1>4, <1>6, <1>7, <1>8, <1>9, <1>10, <1>11, <1>12, <1>13

LEMMA RemovedFacts ==
    ASSUME MidiTypeOK, NEW gone \in DOMAIN m_alsa_input_devices, Removed(gone),
           UNCHANGED <<midi_devices, m_enabled_devices>>
    PROVE  /\ Updated' = StepOf(midi_devices, Updated, Removal(gone))
           /\ DOMAIN m_alsa_input_devices' = DOMAIN m_alsa_input_devices \ {gone}
           /\ \A id \in DOMAIN m_alsa_input_devices' :
                m_alsa_input_devices'[id] = m_alsa_input_devices[id] /\ Devices'[id] = Devices[id]
           /\ m_alsa_input_devices' \in [DOMAIN m_alsa_input_devices' -> Port]
           /\ UNCHANGED next_id
           /\ updates' \in Seq(Update)
           /\ Typed(Updated', next_id') /\ DOMAIN Devices' = DOMAIN m_alsa_input_devices'
           /\ Updated'.enabled.dispatched = Updated.enabled.dispatched
<1>1. /\ next_id \in Nat /\ updates \in Seq(Update) /\ Typed(Updated, next_id)
      /\ DOMAIN Devices = DOMAIN m_alsa_input_devices
      /\ m_alsa_input_devices \in [DOMAIN m_alsa_input_devices -> Port]
      /\ midi_devices \in [DOMAIN midi_devices -> Config]
    BY DEF MidiTypeOK
<1>2. Removal(gone) \in Update
    <2>1. gone \in Nat
        BY <1>1 DEF Typed, Devices
    <2> QED
        BY <2>1 DEF Removal, Update
<1>3. updates' = Append(updates, Removal(gone))
    BY DEF Removed, Removal
<1>4. Updated' = StepOf(midi_devices, Updated, Removal(gone))
    BY <1>1, <1>2, <1>3, UpdatedMore
<1>5. RemovalLeaves(Updated', Updated, next_id, midi_devices, gone)
    <2>1. RemovalLeaves(StepOf(midi_devices, Updated, Removal(gone)), Updated, next_id,
                        midi_devices, gone)
        BY <1>1, RemovalStep
    <2> QED
        BY <1>4, <2>1
<1>6. /\ DOMAIN Devices' = DOMAIN Devices \ {gone}
      /\ \A id \in DOMAIN Devices \ {gone} : Devices'[id] = Devices[id]
      /\ Typed(Updated', next_id)
      /\ Updated'.enabled.dispatched = Updated.enabled.dispatched
    BY <1>5 DEF RemovalLeaves, Devices
<1>7. m_alsa_input_devices' =
            [id \in DOMAIN m_alsa_input_devices \ {gone} |-> m_alsa_input_devices[id]]
      /\ next_id' = next_id
    BY DEF Removed
<1>8. updates' \in Seq(Update)
    BY <1>1, <1>2, <1>3, AppendFacts
<1> QED
    BY <1>1, <1>4, <1>6, <1>7, <1>8

\* An id more: its device is off, and its name is not awaited any longer.
LEMMA AddedOnce ==
    ASSUME MidiTypeOK, OnceInv, NEW port \in Port, NEW x \in Device, Added(port, x),
           UNCHANGED <<midi_devices, m_enabled_devices, handler, subscribed>>,
           \A id \in DOMAIN m_alsa_input_devices :
                Unannounced(m_alsa_input_devices[id])' => Unannounced(m_alsa_input_devices[id])
    PROVE  UpdatesFit' /\ AwaitedAreAway' /\ EnabledAreConnected'
<1>1. /\ Updated' = StepOf(midi_devices, Updated, Addition(next_id, x))
      /\ next_id \notin DOMAIN m_alsa_input_devices
      /\ DOMAIN m_alsa_input_devices' = DOMAIN m_alsa_input_devices \cup {next_id}
      /\ \A id \in DOMAIN m_alsa_input_devices :
            m_alsa_input_devices'[id] = m_alsa_input_devices[id] /\ Devices'[id] = Devices[id]
      /\ Devices'[next_id] = [name |-> x, enabled |-> FALSE]
      /\ next_id' = next_id + 1
      /\ DOMAIN Devices' = DOMAIN m_alsa_input_devices'
    BY AddedFacts
<1>2. /\ Typed(Updated, next_id) /\ next_id \in Nat
      /\ \A id \in DOMAIN midi_devices : id \in Nat /\ id < next_id
      /\ DOMAIN Devices = DOMAIN m_alsa_input_devices
    BY DEF MidiTypeOK
<1>3. /\ Fits(Updated, midi_devices) /\ KeptBy(Updated) = Kept
      /\ IdsBelow(Updated.enabled.dispatched, next_id)
    BY DEF OnceInv, UpdatesFit
<1> DEFINE then == StepOf(midi_devices, Updated, Addition(next_id, x))
<1>4. /\ Fits(then, midi_devices) /\ KeptBy(then) = KeptBy(Updated)
      /\ Range(then.enabled.names) = Range(Updated.enabled.names) \ {x}
      /\ IdsBelow(then.enabled.dispatched, next_id + 1)
    BY <1>2, <1>3, AdditionFits
<1>5. Updated' = then
    BY <1>1
<1> HIDE DEF then
<1>6. UpdatesFit'
    BY <1>1, <1>3, <1>4, <1>5 DEF UpdatesFit, Kept
<1>7. AwaitedAreAway'
    <2> SUFFICES ASSUME NEW id \in DOMAIN m_alsa_input_devices',
                        Devices'[id].name \in Range(then.enabled.names)
                 PROVE  ~Unannounced(m_alsa_input_devices[id])'
        BY <1>5 DEF AwaitedAreAway
    <2>1. id # next_id
        BY <1>1, <1>4
    <2>2. id \in DOMAIN m_alsa_input_devices /\ Devices[id].name \in Range(Updated.enabled.names)
          /\ m_alsa_input_devices'[id] = m_alsa_input_devices[id]
        BY <1>1, <1>4, <2>1
    <2>3. ~Unannounced(m_alsa_input_devices[id])
        BY <2>2 DEF OnceInv, AwaitedAreAway
    <2> QED
        BY <2>2, <2>3 DEF Unannounced
<1>8. EnabledAreConnected'
    <2> SUFFICES ASSUME NEW id \in DOMAIN Devices', Devices'[id].enabled
                 PROVE  /\ Unannounced(m_alsa_input_devices[id])'
                            => m_alsa_input_devices'[id] \in subscribed'
                        /\ handler' # Nothing =>
                            /\ m_alsa_input_devices'[id] \in DOMAIN handler'
                            /\ handler'[m_alsa_input_devices'[id]] = id
        BY DEF EnabledAreConnected
    <2>1. id # next_id
        BY <1>1
    <2>2. id \in DOMAIN m_alsa_input_devices /\ id \in DOMAIN Devices
        BY <1>1, <1>2, <2>1
    <2>3. m_alsa_input_devices'[id] = m_alsa_input_devices[id] /\ Devices[id].enabled
        BY <1>1, <2>2
    <2>4. /\ Unannounced(m_alsa_input_devices[id]) => m_alsa_input_devices[id] \in subscribed
          /\ handler # Nothing =>
                /\ m_alsa_input_devices[id] \in DOMAIN handler
                /\ handler[m_alsa_input_devices[id]] = id
        BY <2>2, <2>3 DEF OnceInv, EnabledAreConnected
    <2>5. Unannounced(m_alsa_input_devices[id])' => Unannounced(m_alsa_input_devices[id])
        BY <2>2, <2>3
    <2> QED
        BY <2>3, <2>4, <2>5
<1> QED
    BY <1>6, <1>7, <1>8

\* The first of what the scan found is taken.
LEMMA FoundTail ==
    ASSUME MidiTypeOK, m_initial_updates # <<>>, m_initial_updates' = Tail(m_initial_updates)
    PROVE  /\ Head(m_initial_updates) = m_initial_updates[1]
           /\ Head(m_initial_updates) \in [port : Port, name : Device]
           /\ 1 \in DOMAIN m_initial_updates
           /\ m_initial_updates' \in Seq([port : Port, name : Device])
           /\ \A p, n : IsFound(p, n) <=>
                \/ IsFound(p, n)'
                \/ p = Head(m_initial_updates).port /\ n = Head(m_initial_updates).name
           /\ \A i \in DOMAIN m_initial_updates' :
                /\ i \in Nat /\ i + 1 # 1 /\ i + 1 \in DOMAIN m_initial_updates
                /\ m_initial_updates'[i] = m_initial_updates[i + 1]
<1>1. m_initial_updates \in Seq([port : Port, name : Device])
    BY DEF MidiTypeOK
<1> DEFINE T == [port : Port, name : Device]
<1>2. PICK n \in Nat : n = Len(m_initial_updates)
    BY <1>1
<1> HIDE DEF T
<1>3. m_initial_updates \in Seq(T)
    BY <1>1 DEF T
<1>4. /\ n >= 1 /\ m_initial_updates' \in Seq(T)
      /\ DOMAIN m_initial_updates = 1 .. n /\ DOMAIN m_initial_updates' = 1 .. (n - 1)
      /\ \A i \in 1 .. (n - 1) : m_initial_updates'[i] = m_initial_updates[i + 1]
      /\ Head(m_initial_updates) = m_initial_updates[1]
    BY <1>2, <1>3, TailFacts
<1>5. 1 \in 1 .. n /\ \A i \in 1 .. (n - 1) : i \in Nat /\ i + 1 # 1 /\ i + 1 \in 1 .. n
    BY <1>4
<1>6. m_initial_updates[1] \in T
    BY <1>3, <1>4, <1>5
<1>7. ASSUME NEW p, NEW m
      PROVE  IsFound(p, m) <=>
                \/ IsFound(p, m)'
                \/ p = m_initial_updates[1].port /\ m = m_initial_updates[1].name
    <2>1. ASSUME NEW i \in 1 .. n, m_initial_updates[i].port = p, m_initial_updates[i].name = m,
                 i # 1
          PROVE  IsFound(p, m)'
        <3>1. i - 1 \in 1 .. (n - 1) /\ (i - 1) + 1 = i
            BY <2>1
        <3>2. m_initial_updates'[i - 1] = m_initial_updates[(i - 1) + 1]
            BY <1>4, <3>1
        <3>3. m_initial_updates'[i - 1] = m_initial_updates[i]
            BY <3>1, <3>2
        <3> QED
            BY <1>4, <2>1, <3>1, <3>3 DEF IsFound
    <2>2. ASSUME IsFound(p, m)' PROVE IsFound(p, m)
        BY <1>4, <1>5, <2>2 DEF IsFound
    <2>3. ASSUME p = m_initial_updates[1].port, m = m_initial_updates[1].name
          PROVE  IsFound(p, m)
        BY <1>4, <1>5, <2>3 DEF IsFound
    <2>4. ASSUME IsFound(p, m)
          PROVE  \/ IsFound(p, m)'
                 \/ p = m_initial_updates[1].port /\ m = m_initial_updates[1].name
        <3>1. PICK i \in 1 .. n : m_initial_updates[i].port = p /\ m_initial_updates[i].name = m
            BY <1>4, <2>4 DEF IsFound
        <3> QED
            BY <2>1, <3>1
    <2> QED
        BY <2>2, <2>3, <2>4
<1> QED
    BY <1>4, <1>5, <1>6, <1>7 DEF T

LEMMA RefreshIsHead ==
    ASSUME MidiTypeOK, queue # <<>>, Head(queue) = Do("refresh")
    PROVE  ~BeforeScan
<1>1. Head(queue).do = "refresh"
    BY StartQueueFacts
<1> QED
    BY <1>1, StartQueueFacts DEF BeforeScan

\* A port that was found at the start gets its id.
LEMMA ReadFoundInv ==
    ASSUME MidiInv, queue # <<>>, Head(queue) = Do("refresh"), m_initial_updates # <<>>,
           m_initial_updates' = Tail(m_initial_updates),
           Added(Head(m_initial_updates).port, Head(m_initial_updates).name),
           UNCHANGED <<kernelVars, midi_devices, m_enabled_devices, queue, handler, saved,
                       wishVars, twice>>
    PROVE  MidiInv'
<1>1. /\ UNCHANGED <<plugged, subscribed, announced, midi_devices, m_enabled_devices, queue,
                     handler, saved, wished, failed, twice>>
      /\ KernelInv /\ MidiTypeOK /\ StartFits /\ ~BeforeScan
    BY RefreshIsHead DEF kernelVars, wishVars, MidiInv
<1>2. PICK port \in Port, x \in Device :
            port = Head(m_initial_updates).port /\ x = Head(m_initial_updates).name
    BY <1>1, FoundTail
<1>3. Added(port, x)
    BY <1>2
<1>4. KernelInv' /\ StartFits' /\ ~BeforeScan'
    BY <1>1 DEF KernelInv, KernelTypeOK, DevicesAreApart, AnnouncementsAlternate, Between,
                StateOf, StartFits, BeforeScan, RefreshFits
<1>5. MidiTypeOK'
    <2>1. m_initial_updates' \in Seq([port : Port, name : Device])
        BY <1>1, FoundTail
    <2>2. /\ next_id' \in Nat /\ next_id' >= 1 /\ next_id' = next_id + 1
          /\ m_alsa_input_devices' \in [DOMAIN m_alsa_input_devices' -> Port]
          /\ updates' \in Seq(Update) /\ Typed(Updated', next_id')
          /\ DOMAIN Devices' = DOMAIN m_alsa_input_devices'
        BY <1>1, <1>3, AddedFacts
    <2>3. \A id \in DOMAIN midi_devices' : id \in Nat /\ id < next_id'
        <3>1. next_id \in Nat /\ \A id \in DOMAIN midi_devices : id \in Nat /\ id < next_id
            BY <1>1 DEF MidiTypeOK
        <3> QED
            BY <1>1, <2>2, <3>1
    <2> QED
        BY <1>1, <2>1, <2>2, <2>3 DEF MidiTypeOK
<1>6. ASSUME ~twice PROVE OnceInv'
    <2>0. OnceInv
        BY <1>6 DEF MidiInv
    <2>1. \A p \in Port, n \in Device : IsKnown(p, n)' <=> IsKnown(p, n)
        <3>1. \A p, n : HasId(p, n)' <=> HasId(p, n) \/ (p = port /\ n = x)
            BY <1>1, <1>3, AddedFacts
        <3>2. \A p, n : IsFound(p, n) <=> IsFound(p, n)' \/ (p = port /\ n = x)
            BY <1>1, <1>2, FoundTail
        <3>3. \A p, n : /\ IsKnown(p, n) <=> HasId(p, n) \/ IsFound(p, n)
                        /\ IsKnown(p, n)' <=> HasId(p, n)' \/ IsFound(p, n)'
            BY DEF IsKnown, HasId, IsFound
        <3> QED
            BY <3>1, <3>2, <3>3
    <2>2. KnownInv'
        BY <1>1, <1>4, <2>0, <2>1, KnownKept DEF OnceInv
    <2>3. PortsHaveOneId'
        <3>1. /\ next_id \notin DOMAIN m_alsa_input_devices
              /\ DOMAIN m_alsa_input_devices' = DOMAIN m_alsa_input_devices \cup {next_id}
              /\ m_alsa_input_devices'[next_id] = port
              /\ \A id \in DOMAIN m_alsa_input_devices :
                    m_alsa_input_devices'[id] = m_alsa_input_devices[id]
            BY <1>1, <1>3, AddedFacts
        <3>2. /\ 1 \in DOMAIN m_initial_updates /\ m_initial_updates[1].port = port
              /\ \A i \in DOMAIN m_initial_updates' :
                    /\ i \in Nat /\ i + 1 # 1 /\ i + 1 \in DOMAIN m_initial_updates
                    /\ m_initial_updates'[i] = m_initial_updates[i + 1]
            BY <1>1, <1>2, FoundTail
        <3>3. \A id \in DOMAIN m_alsa_input_devices : m_alsa_input_devices[id] # port
            BY <2>0, <3>2 DEF OnceInv, PortsHaveOneId
        <3>4. \A id \in DOMAIN m_alsa_input_devices', other \in DOMAIN m_alsa_input_devices' :
                m_alsa_input_devices'[id] = m_alsa_input_devices'[other] => id = other
            BY <2>0, <3>1, <3>3 DEF OnceInv, PortsHaveOneId
        <3>5. \A i \in DOMAIN m_initial_updates' : m_initial_updates'[i].port # port
            BY <2>0, <3>2 DEF OnceInv, PortsHaveOneId
        <3>6. \A i \in DOMAIN m_initial_updates', j \in DOMAIN m_initial_updates' :
                m_initial_updates'[i].port = m_initial_updates'[j].port => i = j
            <4>1. \A i \in DOMAIN m_initial_updates', j \in DOMAIN m_initial_updates' :
                    m_initial_updates'[i].port = m_initial_updates'[j].port => i + 1 = j + 1
                BY <2>0, <3>2 DEF OnceInv, PortsHaveOneId
            <4> QED
                BY <3>2, <4>1
        <3>7. \A id \in DOMAIN m_alsa_input_devices', i \in DOMAIN m_initial_updates' :
                m_alsa_input_devices'[id] # m_initial_updates'[i].port
            <4>1. \A id \in DOMAIN m_alsa_input_devices, i \in DOMAIN m_initial_updates' :
                    m_alsa_input_devices[id] # m_initial_updates'[i].port
                BY <2>0, <3>2 DEF OnceInv, PortsHaveOneId
            <4> QED
                BY <3>1, <3>5, <4>1
        <3> QED
            BY <3>4, <3>6, <3>7 DEF PortsHaveOneId
    <2>4. UpdatesFit' /\ AwaitedAreAway' /\ EnabledAreConnected'
        <3>1. \A id \in DOMAIN m_alsa_input_devices :
                Unannounced(m_alsa_input_devices[id])' => Unannounced(m_alsa_input_devices'[id])
            BY <1>1 DEF Unannounced
        <3>2. \A id \in DOMAIN m_alsa_input_devices :
                m_alsa_input_devices'[id] = m_alsa_input_devices[id]
            BY <1>1, <1>3, AddedFacts
        <3>3. \A id \in DOMAIN m_alsa_input_devices :
                Unannounced(m_alsa_input_devices[id])' => Unannounced(m_alsa_input_devices[id])
            BY <3>1, <3>2
        <3> QED
            BY <1>1, <1>3, <2>0, <3>3, AddedOnce
    <2>5. StateFits' /\ QueueFits' /\ LoadingFits' /\ ActionsFit' /\ WishesFit'
        BY <1>1, <2>0, QueueSideKept
    <2> QED
        BY <2>2, <2>3, <2>4, <2>5 DEF OnceInv
<1> QED
    BY <1>1, <1>4, <1>5, <1>6 DEF MidiInv

\* A start is read: the port gets an id, if it is still plugged.
LEMMA ReadStartInv ==
    ASSUME MidiInv, queue # <<>>, Head(queue) = Do("refresh"), m_initial_updates = <<>>,
           announced # <<>>, announced' = Tail(announced), announced[1].event = "start",
           NEW q, q = announced[1].port,
           IF plugged[q] = Nothing THEN Irrelevant ELSE Added(q, plugged[q]),
           UNCHANGED <<plugged, subscribed, m_initial_updates, midi_devices, m_enabled_devices,
                       queue, handler, saved, wishVars, twice>>
    PROVE  MidiInv'
<1>1. /\ UNCHANGED <<plugged, subscribed, m_initial_updates, midi_devices, m_enabled_devices, queue,
                     handler, saved, wished, failed, twice>>
      /\ KernelInv /\ MidiTypeOK /\ StartFits /\ ~BeforeScan
    BY RefreshIsHead DEF wishVars, MidiInv
<1>2. KernelInv'
    BY <1>1, ReadKernel
<1>3. q \in Port /\ plugged[q] \in Device \cup {Nothing} /\ announced[1] \in Announcement
    <2>1. announced[1] \in Announcement
        BY <1>1, TailPlaces
    <2> QED
        BY <1>1, <2>1 DEF Announcement, KernelInv, KernelTypeOK
<1>4. StartFits' /\ ~BeforeScan'
    BY <1>1 DEF StartFits, BeforeScan, RefreshFits
<1>5. ASSUME ~twice
      PROVE  /\ OnceInv /\ \A n \in Device : ~IsKnown(q, n)
             /\ \A id \in DOMAIN m_alsa_input_devices : m_alsa_input_devices[id] # q
             /\ \A id \in DOMAIN m_alsa_input_devices : \A r :
                    r = m_alsa_input_devices[id] => (Unannounced(r)' => Unannounced(r))
    <2>0. OnceInv
        BY <1>5 DEF MidiInv
    <2>1. \A n \in Device : ~IsKnown(q, n)
        BY <1>1, <2>0, StartIsUnknown DEF OnceInv
    <2>2. \A id \in DOMAIN m_alsa_input_devices : Devices[id].name \in Device
        BY <1>1 DEF MidiTypeOK, Typed, Devices, Config
    <2>3. \A id \in DOMAIN m_alsa_input_devices : m_alsa_input_devices[id] # q
        BY <2>1, <2>2 DEF IsKnown
    <2>4. \A r : r # q => (Unannounced(r)' => Unannounced(r))
        BY <1>1, TailKeeps
    <2> QED
        BY <2>0, <2>1, <2>3, <2>4
<1>6. CASE plugged[q] = Nothing
    <2>1. UNCHANGED <<m_alsa_input_devices, updates, next_id>>
        BY <1>6 DEF Irrelevant
    <2>2. Updated' = Updated /\ Devices' = Devices
        BY <1>1, <2>1, UpdatedKept
    <2>3. MidiTypeOK'
        BY <1>1, <2>1, <2>2 DEF MidiTypeOK
    <2>4. ASSUME ~twice PROVE OnceInv'
        <3>1. \A p, n : IsKnown(p, n)' <=> IsKnown(p, n)
            BY <1>1, <2>1, IsKnownKept
        <3>2. \A p \in Port, n \in Device :
                IsKnown(p, n)' <=> IsKnown(p, n) \/ (p = q /\ n = plugged[q])
            BY <1>6, <3>1, MidiAssumption
        <3>3. KnownInv'
            BY <1>1, <1>4, <1>5, <2>4, <3>2, StartRead DEF OnceInv
        <3>4. PortsHaveOneId' /\ UpdatesFit'
            BY <1>1, <1>5, <2>1, <2>2, <2>4
               DEF OnceInv, PortsHaveOneId, UpdatesFit, Kept
        <3>5. \A id \in DOMAIN m_alsa_input_devices :
                Unannounced(m_alsa_input_devices[id])' => Unannounced(m_alsa_input_devices[id])
            <4>1. \A id \in DOMAIN m_alsa_input_devices :
                    m_alsa_input_devices'[id] = m_alsa_input_devices[id]
                BY <2>1
            <4> QED
                BY <1>5, <2>4, <4>1
        <3>6. AwaitedAreAway'
            BY <1>1, <1>5, <2>1, <2>2, <2>4, <3>5 DEF OnceInv, AwaitedAreAway
        <3>7. EnabledAreConnected'
            <4>1. DOMAIN Devices = DOMAIN m_alsa_input_devices
                BY <1>1 DEF MidiTypeOK
            <4> QED
                BY <1>1, <1>5, <2>1, <2>2, <2>4, <3>5, <4>1 DEF OnceInv, EnabledAreConnected
        <3>8. StateFits' /\ QueueFits' /\ LoadingFits' /\ ActionsFit' /\ WishesFit'
            BY <1>1, <1>5, <2>4, QueueSideKept
        <3> QED
            BY <3>3, <3>4, <3>6, <3>7, <3>8 DEF OnceInv
    <2> QED
        BY <1>1, <1>2, <1>4, <2>3, <2>4 DEF MidiInv
<1>7. CASE plugged[q] # Nothing
    <2>1. PICK x \in Device : x = plugged[q]
        BY <1>3, <1>7
    <2>2. Added(q, x)
        BY <1>7, <2>1
    <2>3. /\ DOMAIN m_alsa_input_devices' = DOMAIN m_alsa_input_devices \cup {next_id}
          /\ m_alsa_input_devices'[next_id] = q
          /\ \A id \in DOMAIN m_alsa_input_devices :
                m_alsa_input_devices'[id] = m_alsa_input_devices[id]
          /\ \A p, n : HasId(p, n)' <=> HasId(p, n) \/ (p = q /\ n = x)
          /\ m_alsa_input_devices' \in [DOMAIN m_alsa_input_devices' -> Port]
          /\ next_id' = next_id + 1 /\ next_id' \in Nat /\ next_id' >= 1
          /\ updates' \in Seq(Update)
          /\ Typed(Updated', next_id') /\ DOMAIN Devices' = DOMAIN m_alsa_input_devices'
        <3>1. /\ DOMAIN m_alsa_input_devices' = DOMAIN m_alsa_input_devices \cup {next_id}
              /\ m_alsa_input_devices'[next_id] = q
              /\ \A id \in DOMAIN m_alsa_input_devices :
                    m_alsa_input_devices'[id] = m_alsa_input_devices[id]
            BY <1>1, <1>3, <2>2, AddedFacts
        <3>2. \A p, n : HasId(p, n)' <=> HasId(p, n) \/ (p = q /\ n = x)
            BY <1>1, <1>3, <2>2, AddedFacts
        <3>3. /\ m_alsa_input_devices' \in [DOMAIN m_alsa_input_devices' -> Port]
              /\ next_id' = next_id + 1 /\ next_id' \in Nat /\ next_id' >= 1
              /\ updates' \in Seq(Update)
              /\ Typed(Updated', next_id') /\ DOMAIN Devices' = DOMAIN m_alsa_input_devices'
            BY <1>1, <1>3, <2>2, AddedFacts
        <3> QED
            BY <3>1, <3>2, <3>3
    <2>4. MidiTypeOK'
        <3>1. \A id \in DOMAIN midi_devices' : id \in Nat /\ id < next_id'
            <4>1. next_id \in Nat /\ \A id \in DOMAIN midi_devices : id \in Nat /\ id < next_id
                BY <1>1 DEF MidiTypeOK
            <4> QED
                BY <1>1, <2>3, <4>1
        <3> QED
            BY <1>1, <2>3, <3>1 DEF MidiTypeOK
    <2>5. ASSUME ~twice PROVE OnceInv'
        <3>1. \A p \in Port, n \in Device :
                IsKnown(p, n)' <=> IsKnown(p, n) \/ (p = q /\ n = plugged[q])
            <4>1. \A p, n : /\ IsKnown(p, n) <=> HasId(p, n) \/ IsFound(p, n)
                            /\ IsKnown(p, n)' <=> HasId(p, n)' \/ IsFound(p, n)'
                BY DEF IsKnown, HasId, IsFound
            <4>2. \A p, n : IsFound(p, n)' <=> IsFound(p, n)
                BY <1>1 DEF IsFound
            <4> QED
                BY <2>1, <2>3, <4>1, <4>2
        <3>2. KnownInv'
            BY <1>1, <1>4, <1>5, <2>5, <3>1, StartRead DEF OnceInv
        <3>3. PortsHaveOneId'
            <4>1. \A id \in DOMAIN m_alsa_input_devices', other \in DOMAIN m_alsa_input_devices' :
                    m_alsa_input_devices'[id] = m_alsa_input_devices'[other] => id = other
                BY <1>5, <2>3, <2>5 DEF OnceInv, PortsHaveOneId
            <4>2. DOMAIN m_initial_updates' = {}
                BY <1>1
            <4> QED
                BY <4>1, <4>2 DEF PortsHaveOneId
        <3>4. \A id \in DOMAIN m_alsa_input_devices :
                Unannounced(m_alsa_input_devices[id])' => Unannounced(m_alsa_input_devices[id])
            BY <1>5, <2>3, <2>5
        <3>5. UpdatesFit' /\ AwaitedAreAway' /\ EnabledAreConnected'
            BY <1>1, <1>3, <1>5, <2>2, <2>5, <3>4, AddedOnce
        <3>6. StateFits' /\ QueueFits' /\ LoadingFits' /\ ActionsFit' /\ WishesFit'
            BY <1>1, <1>5, <2>5, QueueSideKept
        <3> QED
            BY <3>2, <3>3, <3>5, <3>6 DEF OnceInv
    <2> QED
        BY <1>1, <1>2, <1>4, <2>4, <2>5 DEF MidiInv
<1> QED
    BY <1>6, <1>7

\* An exit is read: the id of the port goes, if it has one.
LEMMA ReadExitInv ==
    ASSUME MidiInv, queue # <<>>, Head(queue) = Do("refresh"), m_initial_updates = <<>>,
           announced # <<>>, announced' = Tail(announced), announced[1].event = "exit",
           NEW q, q = announced[1].port,
           \/ /\ \A id \in DOMAIN m_alsa_input_devices : m_alsa_input_devices[id] # q
              /\ Irrelevant
           \/ \E id \in DOMAIN m_alsa_input_devices :
                m_alsa_input_devices[id] = q /\ Removed(id),
           UNCHANGED <<plugged, subscribed, m_initial_updates, midi_devices, m_enabled_devices,
                       queue, handler, saved, wishVars, twice>>
    PROVE  MidiInv'
<1>1. /\ UNCHANGED <<plugged, subscribed, m_initial_updates, midi_devices, m_enabled_devices, queue,
                     handler, saved, wished, failed, twice>>
      /\ KernelInv /\ MidiTypeOK /\ StartFits /\ ~BeforeScan
    BY RefreshIsHead DEF wishVars, MidiInv
<1>2. KernelInv'
    BY <1>1, ReadKernel
<1>3. StartFits' /\ ~BeforeScan'
    BY <1>1 DEF StartFits, BeforeScan, RefreshFits
<1>4. \A r : r # q => (Unannounced(r)' => Unannounced(r))
    BY <1>1, TailKeeps
<1>5. DOMAIN Devices = DOMAIN m_alsa_input_devices
      /\ DOMAIN m_initial_updates = {} /\ DOMAIN m_initial_updates' = {}
    BY <1>1 DEF MidiTypeOK
<1>6. CASE /\ \A id \in DOMAIN m_alsa_input_devices : m_alsa_input_devices[id] # q
           /\ Irrelevant
    <2>1. UNCHANGED <<m_alsa_input_devices, updates, next_id>>
        BY <1>6 DEF Irrelevant
    <2>2. Updated' = Updated /\ Devices' = Devices
        BY <1>1, <2>1, UpdatedKept
    <2>3. MidiTypeOK'
        BY <1>1, <2>1, <2>2 DEF MidiTypeOK
    <2>4. ASSUME ~twice PROVE OnceInv'
        <3>0. OnceInv
            BY <2>4 DEF MidiInv
        <3>1. \A p, n : IsKnown(p, n)' <=> IsKnown(p, n)
            BY <1>1, <2>1, IsKnownKept
        <3>2. \A p \in Port, n \in Device : IsKnown(p, n)' <=> IsKnown(p, n) /\ p # q
            <4>1. \A n : ~IsKnown(q, n)
                BY <1>5, <1>6 DEF IsKnown
            <4> QED
                BY <3>1, <4>1
        <3>3. KnownInv'
            BY <1>1, <1>3, <3>0, <3>2, ExitRead DEF OnceInv
        <3>4. PortsHaveOneId' /\ UpdatesFit'
            BY <1>1, <3>0, <2>1, <2>2
               DEF OnceInv, PortsHaveOneId, UpdatesFit, Kept
        <3>5. \A id \in DOMAIN m_alsa_input_devices :
                Unannounced(m_alsa_input_devices[id])' => Unannounced(m_alsa_input_devices[id])
            <4>1. \A id \in DOMAIN m_alsa_input_devices :
                    m_alsa_input_devices'[id] = m_alsa_input_devices[id]
                BY <2>1
            <4> QED
                BY <1>4, <1>6, <4>1
        <3>6. AwaitedAreAway'
            BY <1>1, <2>1, <2>2, <3>0, <3>5 DEF OnceInv, AwaitedAreAway
        <3>7. EnabledAreConnected'
            BY <1>1, <1>5, <2>1, <2>2, <3>0, <3>5 DEF OnceInv, EnabledAreConnected
        <3>8. StateFits' /\ QueueFits' /\ LoadingFits' /\ ActionsFit' /\ WishesFit'
            BY <1>1, <3>0, QueueSideKept
        <3> QED
            BY <3>3, <3>4, <3>6, <3>7, <3>8 DEF OnceInv
    <2> QED
        BY <1>1, <1>2, <1>3, <2>3, <2>4 DEF MidiInv
<1>7. CASE \E id \in DOMAIN m_alsa_input_devices : m_alsa_input_devices[id] = q /\ Removed(id)
    <2>1. PICK gone \in DOMAIN m_alsa_input_devices :
                m_alsa_input_devices[gone] = q /\ Removed(gone)
        BY <1>7
    <2>2. /\ DOMAIN m_alsa_input_devices' = DOMAIN m_alsa_input_devices \ {gone}
          /\ \A id \in DOMAIN m_alsa_input_devices' :
                m_alsa_input_devices'[id] = m_alsa_input_devices[id] /\ Devices'[id] = Devices[id]
        BY <1>1, <2>1, RemovedFacts
    <2>3. /\ m_alsa_input_devices' \in [DOMAIN m_alsa_input_devices' -> Port]
          /\ UNCHANGED next_id /\ updates' \in Seq(Update)
          /\ Typed(Updated', next_id') /\ DOMAIN Devices' = DOMAIN m_alsa_input_devices'
        BY <1>1, <2>1, RemovedFacts
    <2>4. Updated' = StepOf(midi_devices, Updated, Removal(gone))
          /\ Updated'.enabled.dispatched = Updated.enabled.dispatched
        BY <1>1, <2>1, RemovedFacts
    <2>5. MidiTypeOK'
        BY <1>1, <2>3 DEF MidiTypeOK
    <2>6. ASSUME ~twice PROVE OnceInv'
        <3>0. OnceInv
            BY <2>6 DEF MidiInv
        <3>1. \A id \in DOMAIN m_alsa_input_devices : m_alsa_input_devices[id] = q => id = gone
            BY <2>1, <3>0 DEF OnceInv, PortsHaveOneId
        <3>2. \A p \in Port, n \in Device : IsKnown(p, n)' <=> IsKnown(p, n) /\ p # q
            <4>1. \A p, n : /\ IsKnown(p, n) <=> HasId(p, n)
                            /\ IsKnown(p, n)' <=> HasId(p, n)'
                BY <1>5 DEF IsKnown, HasId
            <4>2. \A p, n : HasId(p, n)' <=> HasId(p, n) /\ p # q
                BY <2>1, <2>2, <3>1 DEF HasId
            <4> QED
                BY <4>1, <4>2
        <3>3. KnownInv'
            BY <1>1, <1>3, <3>0, <3>2, ExitRead DEF OnceInv
        <3>4. PortsHaveOneId'
            BY <1>5, <2>2, <3>0 DEF OnceInv, PortsHaveOneId
        <3>5. \A id \in DOMAIN m_alsa_input_devices' :
                Unannounced(m_alsa_input_devices[id])' => Unannounced(m_alsa_input_devices[id])
            <4>1. \A id \in DOMAIN m_alsa_input_devices' :
                    /\ m_alsa_input_devices'[id] = m_alsa_input_devices[id]
                    /\ m_alsa_input_devices[id] # q
                BY <2>2, <3>1
            <4> QED
                BY <1>4, <4>1
        <3> DEFINE then == StepOf(midi_devices, Updated, Removal(gone))
        <3>6. /\ Fits(then, midi_devices) /\ KeptBy(then) = KeptBy(Updated)
              /\ Range(then.enabled.names)
                    \subseteq Range(Updated.enabled.names) \cup {Devices[gone].name}
            <4>1. /\ next_id \in Nat /\ Typed(Updated, next_id)
                  /\ midi_devices \in [DOMAIN midi_devices -> Config]
                BY <1>1 DEF MidiTypeOK
            <4>2. IdsDiffer(midi_devices) /\ Fits(Updated, midi_devices)
                BY <3>0 DEF OnceInv, StateFits, UpdatesFit
            <4>3. gone \in DOMAIN Updated.devices
                BY <1>5, <2>1 DEF Devices
            <4> QED
                BY <4>1, <4>2, <4>3, RemovalFits DEF Devices
        <3>7. Updated' = then
            BY <2>4
        <3> HIDE DEF then
        <3>8. UpdatesFit'
            BY <1>1, <2>3, <2>4, <3>0, <3>6, <3>7 DEF OnceInv, UpdatesFit, Kept
        <3>9. AwaitedAreAway'
            <4> SUFFICES ASSUME NEW id \in DOMAIN m_alsa_input_devices',
                                Devices'[id].name \in Range(then.enabled.names),
                                Unannounced(m_alsa_input_devices[id])'
                         PROVE  FALSE
                BY <3>7 DEF AwaitedAreAway
            <4>1. PICK r \in Port : r = m_alsa_input_devices[id]
                BY <1>1, <2>2 DEF MidiTypeOK
            <4>2. id \in DOMAIN m_alsa_input_devices /\ r # q /\ Unannounced(r)
                  /\ Devices'[id] = Devices[id]
                BY <2>2, <3>1, <3>5, <4>1
            <4>3. Devices[id].name \notin Range(Updated.enabled.names)
                BY <3>0, <4>1, <4>2 DEF OnceInv, AwaitedAreAway
            <4>4. Devices[id].name = Devices[gone].name
                BY <3>6, <4>2, <4>3
            <4>5. PICK n \in Device : n = Devices[id].name
                BY <1>1, <4>2 DEF MidiTypeOK, Typed, Devices, Config
            <4>6. IsKnown(r, n) /\ IsKnown(q, n)
                BY <2>1, <4>1, <4>2, <4>4, <4>5 DEF IsKnown
            <4>7. q \in Port
                BY <1>1, <2>1 DEF MidiTypeOK
            <4> QED
                BY <3>0, <4>2, <4>6, <4>7 DEF OnceInv, KnownInv, MovedAreKnownOnce
        <3>10. EnabledAreConnected'
            BY <1>1, <1>5, <2>2, <2>3, <3>0, <3>5 DEF OnceInv, EnabledAreConnected
        <3>11. StateFits' /\ QueueFits' /\ LoadingFits' /\ ActionsFit' /\ WishesFit'
            BY <1>1, <3>0, QueueSideKept
        <3> QED
            BY <3>3, <3>4, <3>8, <3>9, <3>10, <3>11 DEF OnceInv
    <2> QED
        BY <1>1, <1>2, <1>3, <2>5, <2>6 DEF MidiInv
<1> QED
    BY <1>6, <1>7

LEMMA ReadInv ==
    ASSUME MidiInv, queue # <<>>, Read
    PROVE  MidiInv'
<1>1. /\ Head(queue) = Do("refresh")
      /\ UNCHANGED <<plugged, subscribed, midi_devices, m_enabled_devices, queue, handler, saved,
                     wishVars, twice>>
    BY DEF Read
<1>2. CASE /\ m_initial_updates # <<>>
           /\ m_initial_updates' = Tail(m_initial_updates)
           /\ Added(Head(m_initial_updates).port, Head(m_initial_updates).name)
           /\ UNCHANGED announced
    BY <1>1, <1>2, ReadFoundInv DEF kernelVars
<1> DEFINE q == Head(announced).port
           ids == {id \in DOMAIN m_alsa_input_devices : m_alsa_input_devices[id] = q}
<1>3. CASE /\ m_initial_updates = <<>> /\ announced # <<>>
           /\ announced' = Tail(announced)
           /\ IF Head(announced).event = "start"
              THEN IF plugged[q] = Nothing THEN Irrelevant ELSE Added(q, plugged[q])
              ELSE IF ids = {} THEN Irrelevant ELSE \E id \in ids : Removed(id)
           /\ UNCHANGED m_initial_updates
    <2>1. KernelInv
        BY DEF MidiInv
    <2>2. Head(announced) = announced[1] /\ announced[1] \in Announcement
        BY <1>3, <2>1, TailPlaces
    <2>3. q = announced[1].port /\ announced[1].event \in {"start", "exit"}
        BY <2>2 DEF Announcement
    <2>4. CASE announced[1].event = "start"
        <3>1. IF plugged[q] = Nothing THEN Irrelevant ELSE Added(q, plugged[q])
            BY <1>3, <2>2, <2>4
        <3> HIDE DEF q
        <3> QED
            BY <1>1, <1>3, <2>3, <2>4, <3>1, ReadStartInv
    <2>5. CASE announced[1].event = "exit"
        <3>1. IF ids = {} THEN Irrelevant ELSE \E id \in ids : Removed(id)
            BY <1>3, <2>2, <2>5
        <3> HIDE DEF q
        <3>2. \/ /\ \A id \in DOMAIN m_alsa_input_devices : m_alsa_input_devices[id] # q
                 /\ Irrelevant
              \/ \E id \in DOMAIN m_alsa_input_devices :
                    m_alsa_input_devices[id] = q /\ Removed(id)
            BY <3>1
        <3> QED
            BY <1>1, <1>3, <2>3, <2>5, <3>2, ReadExitInv
    <2> QED
        BY <2>3, <2>4, <2>5
<1> QED
    BY <1>2, <1>3 DEF Read

-----------------------------------------------------------------------------
(* The updates that were read are made. *)

LEMMA ConcatFacts ==
    ASSUME NEW T, NEW a \in Seq(T), NEW b \in Seq(T)
    PROVE  /\ a \o b \in Seq(T)
           /\ \A i \in DOMAIN (a \o b) :
                \/ i \in DOMAIN a /\ (a \o b)[i] = a[i]
                \/ \E j \in DOMAIN b : i = Len(a) + j /\ (a \o b)[i] = b[j]
<1>1. PICK m \in Nat, n \in Nat : m = Len(a) /\ n = Len(b)
    OBVIOUS
<1>2. a \o b \in Seq(T)
    OBVIOUS
<1>3. DOMAIN a = 1 .. m /\ DOMAIN b = 1 .. n /\ DOMAIN (a \o b) = 1 .. (m + n)
    BY <1>1
<1>4. ASSUME NEW i \in 1 .. (m + n)
      PROVE  \/ i \in 1 .. m /\ (a \o b)[i] = a[i]
             \/ \E j \in 1 .. n : i = m + j /\ (a \o b)[i] = b[j]
    <2>1. CASE i <= m
        BY <1>1, <2>1
    <2>2. CASE i > m
        <3>1. i - m \in 1 .. n /\ i = m + (i - m)
            BY <2>2
        <3>2. (a \o b)[i] = b[i - m]
            BY <1>1, <2>2
        <3> QED
            BY <3>1, <3>2
    <2>3. i <= m \/ i > m
        OBVIOUS
    <2> QED
        BY <2>1, <2>2, <2>3
<1> QED
    BY <1>1, <1>2, <1>3, <1>4

\* Only the start has something to load.
LEMMA NotLoading ==
    ASSUME queue' = <<>> \/ queue'[1].do \notin {"scan", "refresh", "load", "apply"}
    PROVE  ~Loading' /\ ~BeforeScan'
BY DEF Loading, BeforeScan, StartQueue, Do

LEMMA RefreshQueue ==
    ASSUME MidiTypeOK, QueueFits, queue # <<>>, Head(queue) = Do("refresh")
    PROVE  queue = Tail(StartQueue) \/ queue = <<Do("refresh")>>
<1>1. queue \in Seq(Action)
    BY DEF MidiTypeOK
<1>2. 1 \in DOMAIN queue /\ queue[1].do = "refresh"
    BY <1>1, StartQueueFacts
<1>3. queue # <<Do("load")>> /\ queue # <<Do("apply")>> /\ queue # StartQueue
    BY <1>2, StartQueueFacts DEF StartQueue
<1> QED
    BY <1>2, <1>3 DEF QueueFits

\* What was read becomes the state, and what it has to say follows in the queue.
LEMMA RefreshTyped ==
    ASSUME KernelInv, MidiTypeOK, StartFits, queue # <<>>, RefreshMidiDevices
    PROVE  /\ KernelInv' /\ MidiTypeOK' /\ StartFits' /\ Devices' = Devices
           /\ Updated' = Unhandled(midi_devices', m_enabled_devices')
           /\ midi_devices' = Devices /\ m_enabled_devices' = Updated.enabled.names
           /\ Updated.enabled.dispatched \in Seq(Action)
           /\ \A i \in DOMAIN Updated.enabled.dispatched :
                Updated.enabled.dispatched[i].do = "activate"
<1>1. /\ Head(queue) = Do("refresh") /\ m_initial_updates = <<>> /\ announced = <<>>
      /\ midi_devices' = Devices /\ m_enabled_devices' = Updated.enabled.names
      /\ queue' = Tail(queue) \o Updated.enabled.dispatched /\ updates' = <<>>
      /\ UNCHANGED <<plugged, subscribed, announced, m_initial_updates, m_alsa_input_devices,
                     next_id, handler, saved, wished, failed, twice>>
    BY DEF RefreshMidiDevices, kernelVars, managerVars, wishVars, Devices
<1>2. Updated' = Unhandled(midi_devices', m_enabled_devices')
    BY <1>1, UpdatedNone
<1>3. /\ next_id \in Nat /\ queue \in Seq(Action)
      /\ Devices \in [DOMAIN Devices -> Config]
      /\ \A id \in DOMAIN Devices : id \in Nat /\ id < next_id
      /\ Updated.enabled.names \in Seq(Device) /\ Updated.enabled.dispatched \in Seq(Action)
      /\ \A i \in DOMAIN Updated.enabled.dispatched :
            Updated.enabled.dispatched[i].do = "activate"
    BY DEF MidiTypeOK, Typed, Devices
<1>4. /\ midi_devices' \in [DOMAIN midi_devices' -> Config]
      /\ \A id \in DOMAIN midi_devices' : id \in Nat /\ id < next_id
      /\ m_enabled_devices' \in Seq(Device)
    BY <1>1, <1>3
<1>5. Updated'.devices = midi_devices' /\ Typed(Updated', next_id)
    <2>1. \A midi, names : 
            /\ names \in Seq(Device) /\ midi \in [DOMAIN midi -> Config]
            /\ \A id \in DOMAIN midi : id \in Nat /\ id < next_id
            => Unhandled(midi, names).devices = midi /\ Typed(Unhandled(midi, names), next_id)
        BY <1>3, UnhandledFacts
    <2> QED
        BY <1>2, <1>4, <2>1
<1>6. Devices' = Devices
    BY <1>1, <1>5 DEF Devices
<1>7. PICK d \in Seq(Action) : d = Updated.enabled.dispatched
    BY <1>3
<1>8. Tail(queue) \in Seq(Action) /\ 1 \in DOMAIN queue /\ queue[1].do = "refresh"
      /\ \A i \in DOMAIN Tail(queue) : \E j \in DOMAIN queue : Tail(queue)[i] = queue[j]
    <2>1. Len(queue) >= 1 /\ Tail(queue) \in Seq(Action) /\ Head(queue) = queue[1]
          /\ DOMAIN queue = 1 .. Len(queue) /\ DOMAIN Tail(queue) = 1 .. (Len(queue) - 1)
          /\ \A i \in 1 .. (Len(queue) - 1) : Tail(queue)[i] = queue[i + 1]
          /\ Len(queue) \in Nat
        BY <1>3, TailFacts
    <2>2. 1 \in 1 .. Len(queue) /\ \A i \in 1 .. (Len(queue) - 1) : i + 1 \in 1 .. Len(queue)
        BY <2>1
    <2> QED
        BY <1>1, <2>1, <2>2, StartQueueFacts
<1>9. queue' \in Seq(Action)
    BY <1>1, <1>7, <1>8, ConcatFacts
<1>10. ~BeforeScan
    BY <1>1, RefreshIsHead
<1>11. \A i \in DOMAIN queue' : queue'[i].do # "scan"
                              /\ (queue'[i].do = "apply" => saved # Nothing)
    <2>1. \A j \in DOMAIN queue : queue[j].do # "scan"
                               /\ (queue[j].do = "apply" => saved # Nothing)
        BY <1>10 DEF StartFits
    <2>2. \A j \in DOMAIN d : d[j].do = "activate"
        BY <1>3, <1>7
    <2>3. PICK t \in Seq(Action) : t = Tail(queue)
        BY <1>8
    <2> DEFINE list == t \o d
    <2>4. \A i \in DOMAIN list : \/ \E j \in DOMAIN queue : list[i] = queue[j]
                                 \/ \E j \in DOMAIN d : list[i] = d[j]
        <3>1. \A i \in DOMAIN list :
                \/ i \in DOMAIN t /\ list[i] = t[i]
                \/ \E j \in DOMAIN d : i = Len(t) + j /\ list[i] = d[j]
            BY ConcatFacts
        <3>2. \A i \in DOMAIN t : \E j \in DOMAIN queue : t[i] = queue[j]
            BY <1>8, <2>3
        <3> HIDE DEF list
        <3> QED
            BY <3>1, <3>2
    <2>5. queue' = list
        BY <1>1, <1>7, <2>3
    <2> HIDE DEF list
    <2>6. \A i \in DOMAIN list : list[i].do # "scan"
                                /\ (list[i].do = "apply" => saved # Nothing)
        BY <2>1, <2>2, <2>4
    <2> QED
        BY <2>5, <2>6
<1>12. ~BeforeScan'
    <2>1. BeforeScan' => 1 \in DOMAIN queue' /\ queue'[1].do = "scan"
        BY DEF BeforeScan, StartQueue, Do
    <2> QED
        BY <1>11, <2>1
<1>13. StartFits'
    <2>1. RefreshFits'
        BY <1>1 DEF RefreshFits
    <2> QED
        BY <1>1, <1>11, <1>12, <2>1 DEF StartFits
<1>14. KernelInv'
    BY <1>1 DEF KernelInv, KernelTypeOK, DevicesAreApart, AnnouncementsAlternate, Between, StateOf
<1>15. MidiTypeOK'
    BY <1>1, <1>4, <1>5, <1>6, <1>9 DEF MidiTypeOK
<1> QED
    BY <1>1, <1>2, <1>3, <1>6, <1>13, <1>14, <1>15

LEMMA TailsOfStart ==
    /\ Tail(Tail(StartQueue)) = <<Do("load")>>
    /\ Tail(<<Do("refresh")>>) = <<>> /\ Tail(<<Do("load")>>) = <<>>
    /\ Tail(<<Do("apply")>>) = <<>>
<1>1. \A a : Tail(<<a>>) = <<>>
    <2> SUFFICES ASSUME NEW a PROVE Tail(<<a>>) = <<>>
        OBVIOUS
    <2>1. <<a>> \in Seq({a}) /\ Len(<<a>>) = 1 /\ <<a>> # <<>>
        OBVIOUS
    <2>2. PICK list \in Seq({a}) : list = <<a>>
        BY <2>1
    <2>3. Tail(list) \in Seq({a}) /\ Len(Tail(list)) = 0
        BY <2>1, <2>2, TailFacts
    <2>4. Tail(list) = <<>>
        BY <2>3, EmptySeq
    <2> QED
        BY <2>2, <2>4
<1>2. \A a, b : Tail(<<a, b>>) = <<b>>
    OBVIOUS
<1>3. Tail(Tail(StartQueue)) = Tail(<<Do("refresh"), Do("load")>>)
    BY StartQueueFacts
<1> QED
    BY <1>1, <1>2, <1>3

LEMMA QueuesDiffer ==
    /\ <<Do("refresh")>> \notin {StartQueue, Tail(StartQueue), <<Do("load")>>, <<Do("apply")>>}
    /\ <<Do("load")>> # <<Do("apply")>>
<1>1. Len(<<Do("refresh")>>) = 1 /\ Len(StartQueue) = 3 /\ Len(Tail(StartQueue)) = 2
    BY StartQueueFacts DEF StartQueue
<1>2. Do("refresh") # Do("load") /\ Do("refresh") # Do("apply") /\ Do("load") # Do("apply")
    BY StartQueueFacts
<1>3. \A a, b : a # b => <<a>> # <<b>>
    OBVIOUS
<1> QED
    BY <1>1, <1>2, <1>3

LEMMA RefreshInv ==
    ASSUME MidiInv, queue # <<>>, RefreshMidiDevices, UNCHANGED <<plugs, restarts>>
    PROVE  MidiInv'
<1>1. /\ Head(queue) = Do("refresh") /\ m_initial_updates = <<>> /\ announced = <<>>
      /\ queue' = Tail(queue) \o Updated.enabled.dispatched /\ updates' = <<>>
      /\ UNCHANGED <<plugged, subscribed, announced, m_initial_updates, m_alsa_input_devices,
                     next_id, handler, saved, wished, failed, twice>>
      /\ KernelInv /\ MidiTypeOK /\ StartFits
    BY DEF RefreshMidiDevices, kernelVars, managerVars, wishVars, MidiInv
<1>2. /\ KernelInv' /\ MidiTypeOK' /\ StartFits' /\ Devices' = Devices
      /\ Updated' = Unhandled(midi_devices', m_enabled_devices')
      /\ midi_devices' = Devices /\ m_enabled_devices' = Updated.enabled.names
    BY <1>1, RefreshTyped
<1>3. PICK d \in Seq(Action) : /\ d = Updated.enabled.dispatched
                               /\ \A i \in DOMAIN d : d[i].do = "activate"
    BY <1>1, RefreshTyped
<1>4. ASSUME ~twice PROVE OnceInv'
    <2>0. OnceInv
        BY <1>4 DEF MidiInv
    <2>1. DOMAIN Devices = DOMAIN m_alsa_input_devices
          /\ \A p : Unannounced(p) /\ Unannounced(p)'
          /\ \A id \in DOMAIN Devices : /\ Devices[id] \in Config
                                        /\ m_alsa_input_devices[id] \in Port
        BY <1>1 DEF MidiTypeOK, Typed, Devices, Unannounced
    <2>2. /\ Fits(Updated, midi_devices) /\ KeptBy(Updated) = Kept
        BY <2>0 DEF OnceInv, UpdatesFit
    <2>3. \A id \in DOMAIN Devices : Devices[id].name \notin Range(m_enabled_devices')
        BY <1>2, <2>0, <2>1 DEF OnceInv, AwaitedAreAway
    <2>4. StateFits'
        <3>1. IdsDiffer(Devices)
            <4> SUFFICES ASSUME NEW i \in DOMAIN Devices, NEW j \in DOMAIN Devices,
                                Devices[i].name = Devices[j].name, i # j
                         PROVE  FALSE
                BY DEF IdsDiffer
            <4>1. PICK q \in Port, r \in Port :
                    q = m_alsa_input_devices[i] /\ r = m_alsa_input_devices[j]
                BY <2>1
            <4>2. q # r
                BY <2>0, <2>1, <4>1 DEF OnceInv, PortsHaveOneId
            <4>3. PICK n \in Device : n = Devices[i].name
                BY <2>1 DEF Config
            <4>4. IsKnown(q, n) /\ IsKnown(r, n)
                BY <2>1, <4>1, <4>3 DEF IsKnown
            <4> QED
                BY <2>0, <2>1, <4>2, <4>4 DEF OnceInv, KnownInv, MovedAreKnownOnce
        <3>2. Once(m_enabled_devices')
            BY <1>2, <2>2 DEF Fits
        <3> QED
            BY <1>2, <2>3, <3>1, <3>2 DEF StateFits
    <2>5. /\ UpdatesFit' /\ Updated'.enabled.names = m_enabled_devices'
        <3>1. /\ next_id \in Nat /\ m_enabled_devices' \in Seq(Device)
              /\ midi_devices' \in [DOMAIN midi_devices' -> Config]
              /\ \A id \in DOMAIN midi_devices' : id \in Nat /\ id < next_id
            BY <1>1, <1>2 DEF MidiTypeOK
        <3>20. PICK names \in Seq(Device) : names = m_enabled_devices'
            BY <3>1
        <3>21. PICK midi : midi = midi_devices'
            OBVIOUS
        <3>2. midi = midi_devices' /\ names = m_enabled_devices'
            BY <3>20, <3>21
        <3>3. Once(names) /\ \A id \in DOMAIN midi : midi[id].name \notin Range(names)
            BY <2>4, <3>2 DEF StateFits
        <3>4. Fits(Unhandled(midi, names), midi)
            BY <3>1, <3>2, <3>3, UnhandledFits
        <3>5. /\ Unhandled(midi, names).enabled.names = names
              /\ Unhandled(midi, names).enabled.dispatched = <<>>
              /\ KeptBy(Unhandled(midi, names)) = Range(names) \cup EnabledNames(midi)
              /\ IdsBelow(<<>>, next_id)
            BY <3>1, <3>2, UnhandledFacts
        <3>6. Updated' = Unhandled(midi, names)
            BY <1>2, <3>2
        <3> QED
            BY <1>1, <3>2, <3>4, <3>5, <3>6 DEF UpdatesFit, Kept
    <2>6. AwaitedAreAway'
        BY <1>1, <1>2, <2>1, <2>3, <2>5 DEF AwaitedAreAway
    <2>7. KnownInv'
        <3>1. \A p, n : IsKnown(p, n)' <=> IsKnown(p, n)
            BY <1>1, <1>2 DEF IsKnown
        <3>2. ~BeforeScan /\ ~BeforeScan'
            <4>1. ~BeforeScan
                BY <1>1, RefreshIsHead
            <4>2. BeforeScan' => queue'[1].do = "scan" /\ 1 \in DOMAIN queue'
                BY DEF BeforeScan, StartQueue, Do
            <4>3. ASSUME BeforeScan' PROVE FALSE
                <5>1. queue = Tail(StartQueue) \/ queue = <<Do("refresh")>>
                    BY <1>1, <2>0, RefreshQueue DEF OnceInv
                <5>2. Tail(queue) = <<Do("load")>> \/ Tail(queue) = <<>>
                    BY <5>1, TailsOfStart
                <5>3. queue' = <<Do("load")>> \o d \/ queue' = <<>> \o d
                    BY <1>1, <1>3, <5>2
                <5>4. queue' = d \/ queue'[1] = Do("load")
                    BY <5>3
                <5> QED
                    BY <1>3, <4>2, <4>3, <5>4, StartQueueFacts
            <4> QED
                BY <4>1, <4>3
        <3> QED
            BY <1>1, <2>0, <3>1, <3>2, KnownKept DEF OnceInv
    <2>8. PortsHaveOneId'
        BY <1>1, <2>0 DEF OnceInv, PortsHaveOneId
    <2>9. EnabledAreConnected'
        BY <1>1, <1>2, <2>0, <2>1 DEF OnceInv, EnabledAreConnected
    <2>10. /\ Kept = Kept' \cup NamesIn(d) /\ Kept' \cap NamesIn(d) = {} /\ NamedOnce(d)
           /\ \A i \in DOMAIN d : d[i].id \in DOMAIN Devices => Devices[d[i].id].name = d[i].name
        <3>1. Kept' = Range(Updated.enabled.names) \cup EnabledNames(Updated.devices)
            BY <1>2 DEF Kept, Devices
        <3>2. /\ NamesIn(d) \cap Range(Updated.enabled.names) = {}
              /\ NamesIn(d) \cap EnabledNames(Updated.devices) = {}
              /\ NamedOnce(d)
            BY <1>3, <2>2 DEF Fits
        <3>3. \A i \in DOMAIN d : d[i].id \in DOMAIN Devices => Devices[d[i].id].name = d[i].name
            BY <1>3, <2>2 DEF Fits, Devices
        <3> QED
            BY <1>3, <2>2, <3>1, <3>2, <3>3 DEF KeptBy
    <2>11. CASE queue = Tail(StartQueue)
        <3>1. Loading /\ Kept = {}
            BY <2>0, <2>11 DEF OnceInv, LoadingFits, Loading
        <3>2. DOMAIN d = {}
            BY <2>10, <3>1 DEF NamesIn
        <3>3. queue' = <<Do("load")>>
            <4>1. d = <<>>
                BY <3>2
            <4>2. queue' = Tail(queue) \o <<>>
                BY <1>1, <1>3, <4>1
            <4>3. Tail(queue) = <<Do("load")>>
                BY <2>11, TailsOfStart
            <4> QED
                BY <4>2, <4>3
        <3>4. DOMAIN queue' = {1} /\ queue'[1].do = "load"
            BY <3>3, StartQueueFacts
        <3>5. QueueFits' /\ Loading'
            BY <3>3 DEF QueueFits, Loading
        <3>6. ActionsFit' /\ Activated' = {} /\ Deactivated' = {}
            BY <3>4, NoActions
        <3>7. LoadingFits' /\ WishesFit'
            <4>1. queue' # <<Do("apply")>>
                BY <3>4, StartQueueFacts
            <4>2. Kept' = {}
                BY <2>10, <3>1
            <4> QED
                BY <1>1, <2>0, <3>1, <3>5, <4>1, <4>2 DEF OnceInv, LoadingFits, WishesFit
        <3> QED
            BY <2>4, <2>5, <2>6, <2>7, <2>8, <2>9, <3>5, <3>6, <3>7 DEF OnceInv
    <2>12. CASE queue = <<Do("refresh")>>
        <3>1. queue' = d
            <4>1. Tail(queue) = <<>>
                BY <2>12, TailsOfStart
            <4>2. queue' = <<>> \o d
                BY <1>1, <1>3, <4>1
            <4> QED
                BY <4>2
        <3>2. QueueFits'
            BY <1>3, <3>1 DEF QueueFits
        <3>3. ~Loading'
            <4>1. queue' = <<>> \/ queue'[1].do \notin {"scan", "refresh", "load", "apply"}
                <5>1. d = <<>> \/ 1 \in DOMAIN d
                    OBVIOUS
                <5> QED
                    BY <1>3, <3>1, <5>1
            <4> QED
                BY <4>1, NotLoading
        <3>4. ~Loading /\ Activated = {} /\ Deactivated = {}
            <4>1. DOMAIN queue = {1} /\ queue[1].do = "refresh"
                BY <2>12, StartQueueFacts
            <4>2. queue # StartQueue /\ queue # Tail(StartQueue) /\ queue # <<Do("load")>>
                  /\ queue # <<Do("apply")>>
                BY <2>12, QueuesDiffer
            <4> QED
                BY <4>1, <4>2 DEF Loading, Activated, Deactivated
        <3>5. Activated' = NamesIn(d) /\ Deactivated' = {}
            BY <1>3, <3>1 DEF Activated, Deactivated, NamesIn
        <3>6. WishesFit'
            BY <1>1, <2>0, <2>10, <3>4, <3>5 DEF OnceInv, WishesFit
        <3>7. LoadingFits'
            BY <3>3 DEF LoadingFits
        <3>8. ActionsFit'
            <4>1. \A i, j \in DOMAIN d : d[i].name = d[j].name => i = j
                BY <2>10 DEF NamedOnce
            <4>2. \A i \in DOMAIN d :
                    /\ d[i].name \notin Kept'
                    /\ d[i].id \in DOMAIN Devices => Devices[d[i].id].name = d[i].name
                BY <2>10 DEF NamesIn
            <4> QED
                BY <1>2, <1>3, <3>1, <4>1, <4>2
                   DEF ActionsFit, ActivationFits, DeactivationFits
        <3> QED
            BY <2>4, <2>5, <2>6, <2>7, <2>8, <2>9, <3>2, <3>6, <3>7, <3>8 DEF OnceInv
    <2> QED
        BY <1>1, <2>0, <2>11, <2>12, RefreshQueue DEF OnceInv
<1> QED
    BY <1>1, <1>2, <1>4 DEF MidiInv

-----------------------------------------------------------------------------
(* The configuration is loaded and applied. *)

\* Nothing that is taken from the queue, or added to it, is from the start.
LEMMA StartFitsKept ==
    ASSUME StartFits, ~BeforeScan, queue' \in Seq(Action), UNCHANGED saved,
           updates' = <<>> /\ m_initial_updates' = <<>>,
           \A i \in DOMAIN queue' :
                \/ \E j \in DOMAIN queue : queue'[i] = queue[j]
                \/ queue'[i].do # "scan" /\ (queue'[i].do = "apply" => saved # Nothing)
    PROVE  StartFits' /\ ~BeforeScan'
<1>1. \A j \in DOMAIN queue : queue[j].do # "scan" /\ (queue[j].do = "apply" => saved # Nothing)
    BY DEF StartFits
<1>2. \A i \in DOMAIN queue' : /\ queue'[i].do # "scan"
                               /\ queue'[i].do = "apply" => saved' # Nothing
    BY <1>1
<1>3. ~BeforeScan'
    <2>1. BeforeScan' => 1 \in DOMAIN queue' /\ queue'[1].do = "scan"
        BY DEF BeforeScan, StartQueue, Do
    <2> QED
        BY <1>2, <2>1
<1> QED
    BY <1>2, <1>3 DEF StartFits, RefreshFits

\* What is not of the queue is as it was.
LEMMA ManagerSideKept ==
    ASSUME OnceInv, ~BeforeScan, ~BeforeScan', MidiTypeOK,
           UNCHANGED <<plugged, subscribed, announced, m_initial_updates, m_alsa_input_devices,
                       next_id, midi_devices, m_enabled_devices, updates>>
    PROVE  /\ KnownInv' /\ PortsHaveOneId' /\ UpdatesFit' /\ AwaitedAreAway' /\ StateFits'
           /\ (handler' = handler => EnabledAreConnected') /\ Kept' = Kept
<1>1. Updated' = Updated /\ Devices' = Devices
    BY UpdatedKept
<1>2. KnownInv'
    <2>1. \A p, n : IsKnown(p, n)' <=> IsKnown(p, n)
        BY IsKnownKept
    <2> QED
        BY <2>1, KnownKept DEF OnceInv
<1>3. PortsHaveOneId' /\ StateFits' /\ Kept' = Kept
    BY DEF OnceInv, PortsHaveOneId, StateFits, Kept
<1>4. UpdatesFit'
    BY <1>1, <1>3 DEF OnceInv, UpdatesFit
<1>5. AwaitedAreAway' /\ (handler' = handler => EnabledAreConnected')
    BY <1>1 DEF OnceInv, AwaitedAreAway, EnabledAreConnected, Unannounced
<1> QED
    BY <1>2, <1>3, <1>4, <1>5

\* The places of a queue whose first action is taken.
LEMMA QueueTail ==
    ASSUME MidiTypeOK, queue # <<>>
    PROVE  /\ 1 \in DOMAIN queue /\ Head(queue) = queue[1] /\ queue[1] \in Action
           /\ Tail(queue) \in Seq(Action) /\ DOMAIN Tail(queue) \subseteq Nat
           /\ \A i \in DOMAIN Tail(queue) :
                i + 1 # 1 /\ i + 1 \in DOMAIN queue /\ Tail(queue)[i] = queue[i + 1]
           /\ \A j \in DOMAIN queue : j # 1 =>
                \E i \in DOMAIN Tail(queue) : j = i + 1 /\ Tail(queue)[i] = queue[j]
<1>1. queue \in Seq(Action)
    BY DEF MidiTypeOK
<1>2. PICK n \in Nat : n = Len(queue)
    BY <1>1
<1>3. n >= 1 /\ Tail(queue) \in Seq(Action) /\ Head(queue) = queue[1]
      /\ DOMAIN queue = 1 .. n /\ DOMAIN Tail(queue) = 1 .. (n - 1)
      /\ \A i \in 1 .. (n - 1) : Tail(queue)[i] = queue[i + 1]
    BY <1>1, <1>2, TailFacts
<1>4. 1 \in 1 .. n /\ \A i \in 1 .. (n - 1) : i \in Nat /\ i + 1 # 1 /\ i + 1 \in 1 .. n
    BY <1>3
<1>5. ASSUME NEW j \in 1 .. n, j # 1
      PROVE  \E i \in 1 .. (n - 1) : j = i + 1 /\ Tail(queue)[i] = queue[j]
    <2>1. PICK i \in 1 .. (n - 1) : i = j - 1
        BY <1>5
    <2>2. j = i + 1
        BY <2>1
    <2> QED
        BY <1>3, <2>2
<1>6. queue[1] \in Action
    BY <1>1, <1>3, <1>4
<1> QED
    BY <1>3, <1>4, <1>5, <1>6

LEMMA FirstOfStart ==
    /\ StartQueue[1].do = "scan" /\ Tail(StartQueue)[1].do = "refresh"
    /\ <<Do("refresh")>>[1].do = "refresh" /\ <<Do("load")>>[1].do = "load"
    /\ <<Do("apply")>>[1].do = "apply"
BY StartQueueFacts DEF StartQueue

LEMMA LoadInv ==
    ASSUME MidiInv, queue # <<>>, LoadAppConfig, UNCHANGED <<plugs, restarts>>
    PROVE  MidiInv'
<1>1. /\ Head(queue) = Do("load")
      /\ queue' = IF saved = Nothing THEN Tail(queue) ELSE Append(Tail(queue), Do("apply"))
      /\ UNCHANGED <<plugged, subscribed, announced, m_initial_updates, m_alsa_input_devices,
                     next_id, midi_devices, m_enabled_devices, updates, handler, saved, wished,
                     failed, twice>>
      /\ KernelInv /\ MidiTypeOK /\ StartFits
    BY DEF LoadAppConfig, kernelVars, managerVars, wishVars, MidiInv
<1>2. /\ 1 \in DOMAIN queue /\ queue[1].do = "load" /\ Tail(queue) \in Seq(Action)
      /\ \A i \in DOMAIN Tail(queue) : \E j \in DOMAIN queue : Tail(queue)[i] = queue[j]
      /\ ~BeforeScan /\ Head(queue) # Do("refresh")
    <2>1. 1 \in DOMAIN queue /\ Head(queue) = queue[1] /\ Tail(queue) \in Seq(Action)
          /\ \A i \in DOMAIN Tail(queue) : \E j \in DOMAIN queue : Tail(queue)[i] = queue[j]
        BY <1>1, QueueTail
    <2>2. Head(queue).do = "load"
        BY <1>1, StartQueueFacts
    <2> QED
        BY <2>1, <2>2, StartQueueFacts DEF BeforeScan
<1>3. updates = <<>> /\ m_initial_updates = <<>>
    BY <1>1, <1>2 DEF StartFits, RefreshFits
<1>4. PICK tail \in Seq(Action), e \in Action : tail = Tail(queue) /\ e = Do("apply")
    BY <1>2, StartQueueFacts
<1>5. /\ queue' \in Seq(Action)
      /\ \A i \in DOMAIN queue' :
            \/ \E j \in DOMAIN queue : queue'[i] = queue[j]
            \/ queue'[i].do # "scan" /\ (queue'[i].do = "apply" => saved # Nothing)
    <2>1. CASE saved = Nothing
        BY <1>1, <1>2, <2>1
    <2>2. CASE saved # Nothing
        <3>1. queue' = Append(tail, e)
            BY <1>1, <1>4, <2>2
        <3>2. \A i \in DOMAIN Append(tail, e) :
                \/ i \in DOMAIN tail /\ Append(tail, e)[i] = tail[i]
                \/ Append(tail, e)[i] = e
            OBVIOUS
        <3>3. Append(tail, e) \in Seq(Action)
            BY AppendFacts
        <3>4. e.do = "apply"
            BY <1>4, StartQueueFacts
        <3>5. ASSUME NEW i \in DOMAIN Append(tail, e)
              PROVE  (\E j \in DOMAIN queue : Append(tail, e)[i] = queue[j])
                     \/ Append(tail, e)[i] = e
            BY <1>2, <1>4, <3>2
        <3> QED
            BY <2>2, <3>1, <3>3, <3>4, <3>5
    <2> QED
        BY <2>1, <2>2
<1>6. StartFits' /\ ~BeforeScan'
    BY <1>1, <1>2, <1>3, <1>5, StartFitsKept
<1>7. KernelInv' /\ MidiTypeOK'
    <2>1. Updated' = Updated /\ Devices' = Devices
        BY <1>1, UpdatedKept
    <2>2. MidiTypeOK'
        BY <1>1, <1>5, <2>1 DEF MidiTypeOK
    <2>3. KernelInv'
        BY <1>1 DEF KernelInv, KernelTypeOK, DevicesAreApart, AnnouncementsAlternate, Between,
                    StateOf
    <2> QED
        BY <2>2, <2>3
<1>8. ASSUME ~twice PROVE OnceInv'
    <2>0. OnceInv
        BY <1>8 DEF MidiInv
    <2>1. /\ KnownInv' /\ PortsHaveOneId' /\ UpdatesFit' /\ AwaitedAreAway' /\ StateFits'
          /\ EnabledAreConnected' /\ Kept' = Kept
        BY <1>1, <1>2, <1>6, <2>0, ManagerSideKept
    <2>2. queue = <<Do("load")>> /\ Loading
        <3>1. queue # <<Do("refresh")>> /\ queue # <<Do("apply")>> /\ queue # StartQueue
              /\ queue # Tail(StartQueue)
            BY <1>2, FirstOfStart
        <3>2. queue = <<Do("load")>>
            BY <1>2, <2>0, <3>1 DEF OnceInv, QueueFits
        <3> QED
            BY <3>2 DEF Loading
    <2>3. Kept = {} /\ failed = {} /\ wished = IF saved = Nothing THEN {} ELSE saved
        BY <2>0, <2>2 DEF OnceInv, LoadingFits
    <2>4. \/ queue' = <<>> /\ saved = Nothing
          \/ queue' = <<Do("apply")>> /\ saved # Nothing
        <3>1. Tail(queue) = <<>>
            BY <2>2, TailsOfStart
        <3>2. Append(<<>>, Do("apply")) = <<Do("apply")>>
            OBVIOUS
        <3>3. queue' = IF saved = Nothing THEN <<>> ELSE Append(<<>>, Do("apply"))
            BY <1>1, <3>1
        <3>4. CASE saved = Nothing
            BY <3>3, <3>4
        <3>5. CASE saved # Nothing
            <4>1. queue' = Append(<<>>, Do("apply"))
                BY <3>3, <3>5
            <4>2. queue' = <<Do("apply")>>
                BY <3>2, <4>1
            <4> QED
                BY <3>5, <4>2
        <3> QED
            BY <3>4, <3>5
    <2>5. QueueFits'
        BY <2>4 DEF QueueFits
    <2>6. ActionsFit' /\ Activated' = {} /\ Deactivated' = {}
        <3>1. \A i \in DOMAIN queue' : queue'[i].do = "apply"
            BY <2>4, StartQueueFacts
        <3> QED
            BY <3>1, NoActions
    <2>7. LoadingFits'
        BY <1>1, <2>1, <2>3 DEF LoadingFits
    <2>8. WishesFit'
        <3>1. saved # Nothing => Loading'
            BY <2>4 DEF Loading
        <3>2. saved = Nothing => wished' = {} /\ failed' = {} /\ Kept' = {}
            BY <1>1, <2>1, <2>3
        <3> QED
            BY <2>6, <3>1, <3>2 DEF WishesFit
    <2> QED
        BY <2>1, <2>5, <2>6, <2>7, <2>8 DEF OnceInv
<1> QED
    BY <1>1, <1>6, <1>7, <1>8 DEF MidiInv

\* While nothing is read and not handled, the updates make nothing of the state.
LEMMA SettledNow ==
    ASSUME MidiTypeOK, updates = <<>>
    PROVE  /\ Devices = midi_devices /\ DOMAIN midi_devices = DOMAIN m_alsa_input_devices
           /\ Updated.enabled.names = m_enabled_devices
<1>1. Updated = Unhandled(midi_devices, m_enabled_devices)
    BY UpdatedNone
<1>2. /\ m_enabled_devices \in Seq(Device) /\ next_id \in Nat
      /\ midi_devices \in [DOMAIN midi_devices -> Config]
      /\ \A id \in DOMAIN midi_devices : id \in Nat /\ id < next_id
      /\ DOMAIN Devices = DOMAIN m_alsa_input_devices
    BY DEF MidiTypeOK
<1>3. /\ Unhandled(midi_devices, m_enabled_devices).devices = midi_devices
      /\ Unhandled(midi_devices, m_enabled_devices).enabled.names = m_enabled_devices
    BY <1>2, UnhandledFacts
<1> QED
    BY <1>1, <1>2, <1>3 DEF Devices

LEMMA Settled ==
    ASSUME updates' = <<>>, m_enabled_devices' \in Seq(Device), next_id' \in Nat,
           midi_devices' \in [DOMAIN midi_devices' -> Config],
           \A id \in DOMAIN midi_devices' : id \in Nat /\ id < next_id',
           DOMAIN midi_devices' = DOMAIN m_alsa_input_devices'
    PROVE  /\ Devices' = midi_devices' /\ Typed(Updated', next_id')
           /\ StateFits' => UpdatesFit' /\ AwaitedAreAway'
<1>1. PICK names \in Seq(Device) : names = m_enabled_devices'
    OBVIOUS
<1>2. PICK midi : midi = midi_devices'
    OBVIOUS
<1>3. PICK bound \in Nat : bound = next_id'
    OBVIOUS
<1>4. Updated' = Unhandled(midi, names)
    BY <1>1, <1>2, UpdatedNone
<1>5. midi \in [DOMAIN midi -> Config] /\ \A id \in DOMAIN midi : id \in Nat /\ id < bound
    BY <1>2, <1>3
<1>6. /\ Unhandled(midi, names).devices = midi
      /\ Unhandled(midi, names).enabled.names = names
      /\ Unhandled(midi, names).enabled.dispatched = <<>>
      /\ Typed(Unhandled(midi, names), bound)
      /\ KeptBy(Unhandled(midi, names)) = Range(names) \cup EnabledNames(midi)
      /\ IdsBelow(<<>>, bound)
    BY <1>5, UnhandledFacts
<1>7. Devices' = midi /\ Typed(Updated', bound) /\ Updated'.enabled.names = names
    BY <1>4, <1>6 DEF Devices
<1>8. ASSUME StateFits' PROVE UpdatesFit' /\ AwaitedAreAway'
    <2>1. Once(names) /\ \A id \in DOMAIN midi : midi[id].name \notin Range(names)
        BY <1>1, <1>2, <1>8 DEF StateFits
    <2>2. Fits(Unhandled(midi, names), midi)
        BY <1>5, <2>1, UnhandledFits
    <2>3. UpdatesFit'
        BY <1>1, <1>2, <1>3, <1>4, <1>6, <2>2 DEF UpdatesFit, Kept
    <2>4. AwaitedAreAway'
        BY <1>2, <1>7, <2>1 DEF AwaitedAreAway
    <2> QED
        BY <2>3, <2>4
<1> QED
    BY <1>2, <1>3, <1>7, <1>8

\* What is queued for the names of the file that belong to devices.
IsApplied(list) ==
    /\ list \in Seq(Action) /\ NamedOnce(list)
    /\ \A i \in DOMAIN list :
         /\ list[i].do = "activate" /\ list[i].name \in saved /\ Named(list[i].name) # {}
         /\ list[i].id \in DOMAIN midi_devices
         /\ midi_devices[list[i].id].name = list[i].name
    /\ \A n \in saved : Named(n) # {} =>
         n \in EnabledNames(midi_devices) \/ n \in NamesIn(list)

LEMMA AppliedActions ==
    ASSUME MidiTypeOK, saved \in SUBSET Device, NEW found,
           found \in [{n \in saved : Named(n) # {}} -> DOMAIN midi_devices],
           \A n \in DOMAIN found : found[n] \in Named(n),
           NEW list, list = SetToSeq({Activation(found[n], n) :
                        n \in {m \in DOMAIN found : ~midi_devices[found[m]].enabled}})
    PROVE  IsApplied(list)
<1> DEFINE off == {m \in DOMAIN found : ~midi_devices[found[m]].enabled}
           actions == {Activation(found[n], n) : n \in off}
<1>1. /\ DOMAIN found = {n \in saved : Named(n) # {}} /\ off \subseteq DOMAIN found
      /\ DOMAIN found \subseteq Device
      /\ \A n \in DOMAIN found : found[n] \in DOMAIN midi_devices /\ found[n] \in Nat
                                 /\ midi_devices[found[n]].name = n
    BY DEF MidiTypeOK, Named
<1>2. \A n \in off : /\ Activation(found[n], n) \in Action
                     /\ Activation(found[n], n).do = "activate"
                     /\ Activation(found[n], n).id = found[n] /\ Activation(found[n], n).name = n
    BY <1>1 DEF Activation, Action
<1>3. IsFiniteSet(actions)
    <2>1. IsFiniteSet(off)
        <3>1. off \subseteq Device
            BY <1>1
        <3> HIDE DEF off
        <3> QED
            BY <3>1, MidiAssumption, FS_Subset
    <2>2. IsFiniteSet({Activation(found[n], n) : n \in off})
        <3> HIDE DEF off
        <3> DEFINE f == [n \in off |-> Activation(found[n], n)]
        <3>1. f \in Surjection(off, actions)
            BY DEF Surjection
        <3> HIDE DEF f, actions
        <3>2. IsFiniteSet(actions)
            BY <2>1, <3>1, FS_Surjection
        <3> QED
            BY <3>2 DEF actions
    <2> QED
        BY <2>2
<1>4. list = SetToSeq(actions)
    OBVIOUS
<1>5. actions \subseteq Action
    BY <1>2
<1>6. \A a \in actions : \E n \in off : a = Activation(found[n], n)
    OBVIOUS
<1>7. \A n \in off : Activation(found[n], n) \in actions
    OBVIOUS
<1>8. \A n \in DOMAIN found : n \in off \/ midi_devices[found[n]].enabled
    OBVIOUS
<1> HIDE DEF actions, off
<1>9. list \in Seq(actions) /\ Once(list) /\ Range(list) = actions
    BY <1>3, <1>4, ListOfSet
<1>10. list \in Seq(Action)
    BY <1>5, <1>9
<1>11. \A i \in DOMAIN list : list[i] \in actions
    BY <1>9 DEF Range
<1>12. \A i \in DOMAIN list : \E n \in off : list[i] = Activation(found[n], n)
    BY <1>6, <1>11
<1>13. NamedOnce(list)
    <2> SUFFICES ASSUME NEW i \in DOMAIN list, NEW j \in DOMAIN list, list[i].name = list[j].name
                 PROVE  i = j
        BY DEF NamedOnce
    <2>1. PICK n \in off, m \in off :
            list[i] = Activation(found[n], n) /\ list[j] = Activation(found[m], m)
        BY <1>12
    <2>2. n = m
        BY <1>2, <2>1
    <2>3. list[i] = list[j]
        BY <2>1, <2>2
    <2> QED
        BY <1>9, <2>3 DEF Once
<1>14. ASSUME NEW i \in DOMAIN list
       PROVE  /\ list[i].do = "activate" /\ list[i].name \in saved /\ Named(list[i].name) # {}
              /\ list[i].id \in DOMAIN midi_devices
              /\ midi_devices[list[i].id].name = list[i].name
    <2>1. PICK n \in off : list[i] = Activation(found[n], n)
        BY <1>12
    <2>2. list[i].do = "activate" /\ list[i].id = found[n] /\ list[i].name = n
        BY <1>2, <2>1
    <2>3. n \in DOMAIN found
        BY <1>1
    <2> QED
        BY <1>1, <2>2, <2>3
<1>15. ASSUME NEW n \in saved, Named(n) # {}
       PROVE  n \in EnabledNames(midi_devices) \/ n \in NamesIn(list)
    <2>1. n \in DOMAIN found
        BY <1>1, <1>15
    <2>2. CASE n \in off
        <3>1. PICK i \in DOMAIN list : list[i] = Activation(found[n], n)
            BY <1>7, <1>9, <2>2 DEF Range
        <3>2. list[i].name = n
            BY <1>2, <2>2, <3>1
        <3> QED
            BY <3>2 DEF NamesIn
    <2>3. CASE n \notin off
        <3>1. midi_devices[found[n]].enabled /\ midi_devices[found[n]].name = n
              /\ found[n] \in DOMAIN midi_devices
            BY <1>1, <1>8, <2>1, <2>3
        <3> QED
            BY <3>1 DEF EnabledNames
    <2> QED
        BY <2>2, <2>3
<1> QED
    BY <1>10, <1>13, <1>14, <1>15 DEF IsApplied

LEMMA ApplyInv ==
    ASSUME MidiInv, queue # <<>>, ApplyAppConfig, UNCHANGED <<plugs, restarts>>
    PROVE  MidiInv'
<1>1. /\ Head(queue) = Do("apply")
      /\ m_enabled_devices' =
            SetToSeq(Range(m_enabled_devices) \cup {n \in saved : Named(n) = {}})
      /\ UNCHANGED <<plugged, subscribed, announced, m_initial_updates, m_alsa_input_devices,
                     next_id, midi_devices, updates, saved, wished, failed, twice>>
      /\ KernelInv /\ MidiTypeOK /\ StartFits
    BY DEF ApplyAppConfig, kernelVars, managerVars, wishVars, MidiInv
<1>2. /\ 1 \in DOMAIN queue /\ queue[1].do = "apply" /\ Tail(queue) \in Seq(Action)
      /\ \A i \in DOMAIN Tail(queue) : \E j \in DOMAIN queue : Tail(queue)[i] = queue[j]
      /\ ~BeforeScan /\ Head(queue) # Do("refresh")
    <2>1. 1 \in DOMAIN queue /\ Head(queue) = queue[1] /\ Tail(queue) \in Seq(Action)
          /\ \A i \in DOMAIN Tail(queue) : \E j \in DOMAIN queue : Tail(queue)[i] = queue[j]
        BY <1>1, QueueTail
    <2>2. Head(queue).do = "apply"
        BY <1>1, StartQueueFacts
    <2> QED
        BY <2>1, <2>2, StartQueueFacts DEF BeforeScan
<1>3. updates = <<>> /\ m_initial_updates = <<>> /\ saved \in SUBSET Device
    <2>1. saved # Nothing
        BY <1>1, <1>2 DEF StartFits
    <2>2. saved \in (SUBSET Device) \cup {Nothing}
        BY <1>1 DEF MidiTypeOK
    <2>3. saved \in SUBSET Device
        BY <2>1, <2>2
    <2>4. updates = <<>> /\ m_initial_updates = <<>>
        BY <1>1, <1>2 DEF StartFits, RefreshFits
    <2> QED
        BY <2>3, <2>4
<1>4. PICK found \in [{n \in saved : Named(n) # {}} -> DOMAIN midi_devices] :
        /\ \A n \in DOMAIN found : found[n] \in Named(n)
        /\ queue' = Tail(queue) \o SetToSeq({Activation(found[n], n) :
                        n \in {m \in DOMAIN found : ~midi_devices[found[m]].enabled}})
    BY DEF ApplyAppConfig
<1>5. PICK list : list = SetToSeq({Activation(found[n], n) :
                        n \in {m \in DOMAIN found : ~midi_devices[found[m]].enabled}})
    OBVIOUS
<1>6. /\ list \in Seq(Action) /\ NamedOnce(list)
      /\ \A i \in DOMAIN list :
            /\ list[i].do = "activate" /\ list[i].name \in saved /\ Named(list[i].name) # {}
            /\ list[i].id \in DOMAIN midi_devices
            /\ midi_devices[list[i].id].name = list[i].name
      /\ \A n \in saved : Named(n) # {} =>
            n \in EnabledNames(midi_devices) \/ n \in NamesIn(list)
    <2>1. IsApplied(list)
        BY <1>1, <1>3, <1>4, <1>5, AppliedActions
    <2> QED
        BY <2>1 DEF IsApplied
<1>7. queue' = Tail(queue) \o list
    BY <1>4, <1>5
<1> DEFINE awaited == Range(m_enabled_devices) \cup {n \in saved : Named(n) = {}}
<1>8. m_enabled_devices' \in Seq(Device) /\ Once(m_enabled_devices')
      /\ Range(m_enabled_devices') = awaited
    <2>1. awaited \subseteq Device
        <3>1. Range(m_enabled_devices) \subseteq Device
            BY <1>1 DEF MidiTypeOK, Range
        <3> QED
            BY <1>3, <3>1
    <2>2. m_enabled_devices' = SetToSeq(awaited)
        BY <1>1
    <2> HIDE DEF awaited
    <2>3. IsFiniteSet(awaited)
        BY <2>1, MidiAssumption, FS_Subset
    <2>4. SetToSeq(awaited) \in Seq(awaited) /\ Once(SetToSeq(awaited))
          /\ Range(SetToSeq(awaited)) = awaited
        BY <2>3, ListOfSet
    <2> QED
        BY <2>1, <2>2, <2>4
<1>9. Devices = midi_devices /\ DOMAIN midi_devices = DOMAIN m_alsa_input_devices
    BY <1>1, <1>3, SettledNow
<1>10. /\ Devices' = midi_devices /\ Typed(Updated', next_id')
       /\ StateFits' => UpdatesFit' /\ AwaitedAreAway'
    <2>1. /\ next_id' \in Nat /\ midi_devices' \in [DOMAIN midi_devices' -> Config]
          /\ \A id \in DOMAIN midi_devices' : id \in Nat /\ id < next_id'
          /\ updates' = <<>> /\ DOMAIN midi_devices' = DOMAIN m_alsa_input_devices'
        BY <1>1, <1>3, <1>9 DEF MidiTypeOK
    <2> QED
        BY <1>1, <1>8, <2>1, Settled
<1>11. queue' \in Seq(Action)
    BY <1>2, <1>6, <1>7, ConcatFacts
<1>12. StartFits' /\ ~BeforeScan'
    <2>1. PICK t \in Seq(Action) : t = Tail(queue)
        BY <1>2
    <2>2. PICK d \in Seq(Action) : d = list
        BY <1>6
    <2>3. ASSUME NEW i \in DOMAIN (t \o d)
          PROVE  \/ \E j \in DOMAIN queue : (t \o d)[i] = queue[j]
                 \/ (t \o d)[i].do = "activate"
        <3>1. \/ i \in DOMAIN t /\ (t \o d)[i] = t[i]
              \/ \E j \in DOMAIN d : i = Len(t) + j /\ (t \o d)[i] = d[j]
            BY ConcatFacts
        <3>2. CASE i \in DOMAIN t /\ (t \o d)[i] = t[i]
            BY <1>2, <2>1, <3>2
        <3>3. CASE \E j \in DOMAIN d : i = Len(t) + j /\ (t \o d)[i] = d[j]
            BY <1>6, <2>2, <3>3
        <3> QED
            BY <3>1, <3>2, <3>3
    <2>4. queue' = t \o d
        BY <1>7, <2>1, <2>2
    <2>5. \A i \in DOMAIN queue' :
                \/ \E j \in DOMAIN queue : queue'[i] = queue[j]
                \/ queue'[i].do # "scan" /\ (queue'[i].do = "apply" => saved # Nothing)
        BY <2>3, <2>4
    <2> QED
        BY <1>1, <1>2, <1>3, <1>11, <2>5, StartFitsKept
<1>13. KernelInv' /\ MidiTypeOK'
    <2>1. MidiTypeOK'
        BY <1>1, <1>8, <1>9, <1>10, <1>11 DEF MidiTypeOK
    <2>2. KernelInv'
        BY <1>1 DEF KernelInv, KernelTypeOK, DevicesAreApart, AnnouncementsAlternate, Between,
                    StateOf
    <2> QED
        BY <2>1, <2>2
<1>14. ASSUME ~twice PROVE OnceInv'
    <2>0. OnceInv
        BY <1>14 DEF MidiInv
    <2>1. queue = <<Do("apply")>> /\ Loading
        <3>1. queue # <<Do("refresh")>> /\ queue # <<Do("load")>> /\ queue # StartQueue
              /\ queue # Tail(StartQueue)
            BY <1>2, FirstOfStart
        <3>2. queue = <<Do("apply")>>
            BY <1>2, <2>0, <3>1 DEF OnceInv, QueueFits
        <3> QED
            BY <3>2 DEF Loading
    <2>2. /\ Kept = {} /\ failed = {} /\ wished = saved
          /\ Range(m_enabled_devices) = {} /\ EnabledNames(midi_devices) = {}
        <3>1. Kept = {} /\ failed = {} /\ wished = IF saved = Nothing THEN {} ELSE saved
            BY <2>0, <2>1 DEF OnceInv, LoadingFits
        <3>2. saved # Nothing
            BY <1>3, MidiAssumption
        <3> QED
            BY <3>1, <3>2 DEF Kept
    <2>3. Range(m_enabled_devices') = {n \in saved : Named(n) = {}}
        BY <1>8, <2>2
    <2>4. queue' = list
        <3>1. Tail(queue) = <<>>
            BY <2>1, TailsOfStart
        <3>2. queue' = <<>> \o list
            BY <1>7, <3>1
        <3> QED
            BY <1>6, <3>2
    <2>5. StateFits'
        <3>1. \A id \in DOMAIN midi_devices : Named(midi_devices[id].name) # {}
            BY DEF Named
        <3> QED
            BY <1>1, <1>8, <2>0, <2>3, <3>1 DEF OnceInv, StateFits, IdsDiffer
    <2>6. UpdatesFit' /\ AwaitedAreAway'
        BY <1>10, <2>5
    <2>7. KnownInv'
        <3>1. \A p, n : IsKnown(p, n)' <=> IsKnown(p, n)
            BY <1>1, <1>9, <1>10 DEF IsKnown
        <3> QED
            BY <1>1, <1>2, <1>12, <2>0, <3>1, KnownKept DEF OnceInv
    <2>8. PortsHaveOneId'
        BY <1>1, <2>0 DEF OnceInv, PortsHaveOneId
    <2>9. QueueFits'
        BY <1>6, <2>4 DEF QueueFits
    <2>10. ~Loading'
        <3>1. list = <<>> \/ 1 \in DOMAIN list
            BY <1>6
        <3>2. queue' = <<>> \/ queue'[1].do \notin {"scan", "refresh", "load", "apply"}
            BY <1>6, <2>4, <3>1
        <3> QED
            BY <3>2, NotLoading
    <2>11. Kept' = {n \in saved : Named(n) = {}}
        BY <1>1, <2>2, <2>3 DEF Kept
    <2>12. Activated' = NamesIn(list) /\ Deactivated' = {}
        BY <1>6, <2>4 DEF Activated, Deactivated, NamesIn
    <2>13. ActionsFit'
        <3>1. \A i, j \in DOMAIN list : list[i].name = list[j].name => i = j
            BY <1>6 DEF NamedOnce
        <3>2. \A i \in DOMAIN list : list[i].name \notin Kept'
            BY <1>6, <2>11
        <3> QED
            BY <1>1, <1>6, <2>4, <3>1, <3>2 DEF ActionsFit, ActivationFits, DeactivationFits
    <2>14. LoadingFits' /\ WishesFit'
        <3>1. \A n \in NamesIn(list) : n \in saved
            BY <1>6 DEF NamesIn
        <3>2. \A n \in saved : n \in Kept' \cup NamesIn(list)
            BY <1>6, <2>2, <2>11
        <3> QED
            BY <1>1, <2>2, <2>10, <2>11, <2>12, <3>1, <3>2 DEF LoadingFits, WishesFit
    <2>15. EnabledAreConnected'
        <3>1. \A id \in DOMAIN midi_devices : ~midi_devices[id].enabled
            BY <2>2 DEF EnabledNames
        <3> QED
            BY <1>10, <3>1 DEF EnabledAreConnected
    <2> QED
        BY <2>5, <2>6, <2>7, <2>8, <2>9, <2>13, <2>14, <2>15 DEF OnceInv
<1> QED
    BY <1>1, <1>12, <1>13, <1>14 DEF MidiInv

-----------------------------------------------------------------------------
(* A device is activated or deactivated. *)

\* The engine that is opened again knows each port under its id.
LEMMA Reopened ==
    ASSUME PortsHaveOneId, ReopenDevice, NEW id \in DOMAIN m_alsa_input_devices,
           handler' # Nothing
    PROVE  /\ m_alsa_input_devices[id] \in DOMAIN handler'
           /\ handler'[m_alsa_input_devices[id]] = id
<1>1. handler' \in [Range(m_alsa_input_devices) -> DOMAIN m_alsa_input_devices]
      /\ \A p \in DOMAIN handler' : m_alsa_input_devices[handler'[p]] = p
    BY DEF ReopenDevice, InputEventHandlers
<1>2. m_alsa_input_devices[id] \in Range(m_alsa_input_devices)
    BY DEF Range
<1>3. PICK other \in DOMAIN m_alsa_input_devices : other = handler'[m_alsa_input_devices[id]]
    BY <1>1, <1>2
<1>4. m_alsa_input_devices[other] = m_alsa_input_devices[id]
    BY <1>1, <1>2, <1>3
<1>5. other = id
    BY <1>4 DEF PortsHaveOneId
<1> QED
    BY <1>1, <1>2, <1>3, <1>5

\* A device action changes the subscriptions and what is enabled.
LEMMA DeviceActionKeeps ==
    ASSUME KernelInv, MidiTypeOK, StartFits, queue # <<>>,
           Head(queue).do \in {"activate", "deactivate"}, queue' = Tail(queue),
           UNCHANGED <<plugged, announced, m_initial_updates, m_alsa_input_devices, next_id,
                       m_enabled_devices, updates, saved, twice>>,
           subscribed' \subseteq Port,
           midi_devices' \in [DOMAIN midi_devices -> Config],
           \A id \in DOMAIN midi_devices : midi_devices'[id].name = midi_devices[id].name
    PROVE  /\ KernelInv' /\ MidiTypeOK' /\ StartFits'
           /\ Devices = midi_devices /\ Devices' = midi_devices'
           /\ DOMAIN midi_devices = DOMAIN m_alsa_input_devices
           /\ OnceInv => /\ KnownInv' /\ PortsHaveOneId' /\ StateFits'
                         /\ UpdatesFit' /\ AwaitedAreAway'
<1>1. /\ 1 \in DOMAIN queue /\ Head(queue) = queue[1] /\ Tail(queue) \in Seq(Action)
      /\ \A i \in DOMAIN Tail(queue) : \E j \in DOMAIN queue : Tail(queue)[i] = queue[j]
    BY QueueTail
<1>2. ~BeforeScan /\ Head(queue) # Do("refresh")
    BY StartQueueFacts DEF BeforeScan
<1>3. updates = <<>> /\ m_initial_updates = <<>>
    BY <1>2 DEF StartFits, RefreshFits
<1>4. StartFits' /\ ~BeforeScan'
    BY <1>1, <1>2, <1>3, StartFitsKept
<1>5. Devices = midi_devices /\ DOMAIN midi_devices = DOMAIN m_alsa_input_devices
    BY <1>3, SettledNow
<1>6. DOMAIN midi_devices' = DOMAIN midi_devices
    OBVIOUS
<1>7. /\ Devices' = midi_devices' /\ Typed(Updated', next_id')
      /\ StateFits' => UpdatesFit' /\ AwaitedAreAway'
    <2>1. /\ next_id' \in Nat /\ midi_devices' \in [DOMAIN midi_devices' -> Config]
          /\ \A id \in DOMAIN midi_devices' : id \in Nat /\ id < next_id'
          /\ updates' = <<>> /\ DOMAIN midi_devices' = DOMAIN m_alsa_input_devices'
          /\ m_enabled_devices' \in Seq(Device)
        BY <1>3, <1>5, <1>6 DEF MidiTypeOK
    <2> QED
        BY <2>1, Settled
<1>8. MidiTypeOK'
    BY <1>1, <1>5, <1>6, <1>7 DEF MidiTypeOK
<1>9. KernelInv'
    BY DEF KernelInv, KernelTypeOK, DevicesAreApart, AnnouncementsAlternate, Between, StateOf
<1>10. ASSUME OnceInv PROVE KnownInv' /\ PortsHaveOneId' /\ StateFits'
    <2>1. \A p, n : IsKnown(p, n)' <=> IsKnown(p, n)
        BY <1>5, <1>7 DEF IsKnown
    <2>2. KnownInv'
        BY <1>2, <1>4, <1>10, <2>1, KnownKept DEF OnceInv
    <2>3. PortsHaveOneId' /\ StateFits'
        BY <1>6, <1>10 DEF OnceInv, PortsHaveOneId, StateFits, IdsDiffer
    <2> QED
        BY <2>2, <2>3
<1> QED
    BY <1>4, <1>5, <1>7, <1>8, <1>9, <1>10

\* The queue of the activations, and what waits in it.
LEMMA ActivationsLeft ==
    ASSUME MidiTypeOK, OnceInv, queue # <<>>, Head(queue).do = "activate", queue' = Tail(queue)
    PROVE  /\ \A i \in DOMAIN queue : queue[i].do = "activate"
           /\ QueueFits' /\ ~Loading /\ ~Loading'
           /\ Deactivated = {} /\ Deactivated' = {}
           /\ Activated = Activated' \cup {Head(queue).name} /\ Head(queue).name \notin Activated'
           /\ \A i, j \in DOMAIN queue' : queue'[i].name = queue'[j].name => i = j
<1>1. /\ 1 \in DOMAIN queue /\ Head(queue) = queue[1] /\ Tail(queue) \in Seq(Action)
      /\ DOMAIN Tail(queue) \subseteq Nat
      /\ \A i \in DOMAIN Tail(queue) :
            i + 1 # 1 /\ i + 1 \in DOMAIN queue /\ Tail(queue)[i] = queue[i + 1]
      /\ \A j \in DOMAIN queue : j # 1 =>
            \E i \in DOMAIN Tail(queue) : j = i + 1 /\ Tail(queue)[i] = queue[j]
    BY QueueTail
<1>2. queue # StartQueue /\ queue # Tail(StartQueue) /\ queue # <<Do("load")>>
      /\ queue # <<Do("apply")>> /\ queue # <<Do("refresh")>>
    BY <1>1, FirstOfStart
<1>3. \A i \in DOMAIN queue : queue[i].do = "activate"
    BY <1>1, <1>2 DEF OnceInv, QueueFits
<1>4. \A i \in DOMAIN queue' : queue'[i].do = "activate"
    BY <1>1, <1>3
<1>5. QueueFits'
    BY <1>4 DEF QueueFits
<1>6. ~Loading
    BY <1>2 DEF Loading
<1>7. ~Loading'
    <2>1. queue' = <<>> \/ 1 \in DOMAIN queue'
        BY <1>1
    <2>2. queue' = <<>> \/ queue'[1].do \notin {"scan", "refresh", "load", "apply"}
        BY <1>4, <2>1
    <2> QED
        BY <2>2, NotLoading
<1>8. Deactivated = {} /\ Deactivated' = {}
    BY <1>3, <1>4 DEF Deactivated
<1>9. Activated = NamesIn(queue)
    BY <1>3 DEF Activated, NamesIn
<1>10. Activated' = {queue'[i].name : i \in DOMAIN queue'}
    BY <1>4 DEF Activated
<1>11. \A i, j \in DOMAIN queue : queue[i].name = queue[j].name => i = j
    BY <1>3 DEF OnceInv, ActionsFit
<1>12. NamesIn(queue) = {queue'[i].name : i \in DOMAIN queue'} \cup {queue[1].name}
    <2>1. \A i \in DOMAIN queue' : queue'[i].name \in NamesIn(queue)
        BY <1>1 DEF NamesIn
    <2>2. queue[1].name \in NamesIn(queue)
        BY <1>1 DEF NamesIn
    <2>3. ASSUME NEW j \in DOMAIN queue, j # 1
          PROVE  queue[j].name \in {queue'[i].name : i \in DOMAIN queue'}
        <3>1. PICK i \in DOMAIN Tail(queue) : Tail(queue)[i] = queue[j]
            BY <1>1, <2>3
        <3> QED
            BY <3>1
    <2> QED
        BY <2>1, <2>2, <2>3 DEF NamesIn
<1>13. \A i \in DOMAIN queue' : queue'[i].name # queue[1].name
    BY <1>1, <1>11
<1>14. ASSUME NEW i \in DOMAIN queue', NEW j \in DOMAIN queue', queue'[i].name = queue'[j].name
       PROVE  i = j
    <2>1. i \in Nat /\ j \in Nat /\ queue[i + 1].name = queue[j + 1].name
          /\ i + 1 \in DOMAIN queue /\ j + 1 \in DOMAIN queue
        BY <1>1, <1>14
    <2>2. i + 1 = j + 1
        BY <1>11, <2>1
    <2> QED
        BY <2>1, <2>2
<1> QED
    BY <1>1, <1>3, <1>5, <1>6, <1>7, <1>8, <1>9, <1>10, <1>12, <1>13, <1>14

LEMMA ActivateInv ==
    ASSUME MidiInv, queue # <<>>, Head(queue).do = "activate",
           ActivateMidiDevice(Head(queue).id, Head(queue).name), ReopenDevice,
           queue' = Tail(queue),
           UNCHANGED <<plugged, announced, managerVars, m_enabled_devices, updates, saved, wished,
                       twice>>
    PROVE  MidiInv'
<1>1. /\ KernelInv /\ MidiTypeOK /\ StartFits
      /\ UNCHANGED <<plugged, announced, m_initial_updates, m_alsa_input_devices, next_id,
                     m_enabled_devices, updates, saved, wished, twice>>
    BY DEF MidiInv, managerVars
<1>2. PICK id, x : id = Head(queue).id /\ x = Head(queue).name
    OBVIOUS
<1>3. ActivateMidiDevice(id, x)
    BY <1>2
<1>4. PICK port : port = m_alsa_input_devices[id]
    OBVIOUS
<1>5. CASE id \in DOMAIN m_alsa_input_devices /\ ConnectInput(m_alsa_input_devices[id])
    <2>1. /\ subscribed' = subscribed \cup {port} /\ failed' = failed \ {x}
          /\ midi_devices' = [midi_devices EXCEPT ![id].enabled = TRUE]
          /\ port \in Port
        BY <1>1, <1>3, <1>4, <1>5 DEF ActivateMidiDevice, MidiTypeOK
    <2>2. subscribed' \subseteq Port
        BY <1>1, <2>1 DEF KernelInv, KernelTypeOK
    <2>3. /\ midi_devices' \in [DOMAIN midi_devices -> Config]
          /\ \A other \in DOMAIN midi_devices :
                /\ midi_devices'[other].name = midi_devices[other].name
                /\ other # id => midi_devices'[other] = midi_devices[other]
          /\ id \in DOMAIN midi_devices => midi_devices'[id].enabled
        <3>1. midi_devices \in [DOMAIN midi_devices -> Config]
            BY <1>1 DEF MidiTypeOK
        <3> QED
            BY <2>1, <3>1 DEF Config
    <2>4. /\ KernelInv' /\ MidiTypeOK' /\ StartFits'
          /\ Devices = midi_devices /\ Devices' = midi_devices'
          /\ DOMAIN midi_devices = DOMAIN m_alsa_input_devices
          /\ OnceInv => /\ KnownInv' /\ PortsHaveOneId' /\ StateFits'
                        /\ UpdatesFit' /\ AwaitedAreAway'
        BY <1>1, <2>2, <2>3, DeviceActionKeeps
    <2>5. ASSUME ~twice PROVE OnceInv'
        <3>0. OnceInv
            BY <2>5 DEF MidiInv
        <3>1. /\ \A i \in DOMAIN queue : queue[i].do = "activate"
              /\ QueueFits' /\ ~Loading /\ ~Loading'
              /\ Deactivated = {} /\ Deactivated' = {}
              /\ Activated = Activated' \cup {x} /\ x \notin Activated'
              /\ \A i, j \in DOMAIN queue' : queue'[i].name = queue'[j].name => i = j
            BY <1>1, <1>2, <3>0, ActivationsLeft
        <3>2. /\ 1 \in DOMAIN queue /\ Head(queue) = queue[1]
              /\ \A i \in DOMAIN queue' : \E j \in DOMAIN queue : queue'[i] = queue[j]
            BY <1>1, QueueTail
        <3>3. \A i \in DOMAIN queue : ActivationFits(queue[i])
            BY <3>0, <3>1 DEF OnceInv, ActionsFit
        <3>4. midi_devices[id].name = x /\ id \in DOMAIN midi_devices /\ x \notin Kept
            BY <1>2, <1>5, <2>4, <3>2, <3>3 DEF ActivationFits
        <3>5. Kept' = Kept \cup {x}
            <4>1. EnabledNames(midi_devices') = EnabledNames(midi_devices) \cup {x}
                <5>1. DOMAIN midi_devices' = DOMAIN midi_devices
                    BY <2>3
                <5> QED
                    BY <2>3, <3>4, <5>1 DEF EnabledNames
            <4> QED
                BY <1>1, <4>1 DEF Kept
        <3>6. ActionsFit'
            <4>1. ASSUME NEW i \in DOMAIN queue' PROVE ActivationFits(queue[i])'
                <5>1. PICK j \in DOMAIN queue : queue'[i] = queue[j]
                    BY <3>2
                <5>2. ActivationFits(queue[j])
                    BY <3>3
                <5>3. queue'[i].name # x
                    <6>1. queue'[i].name \in Activated'
                        <7>1. queue'[i].do = "activate"
                            BY <3>1, <5>1
                        <7> QED
                            BY <7>1 DEF Activated
                    <6> QED
                        BY <3>1, <6>1
                <5>4. queue'[i].name \notin Kept'
                    BY <3>5, <5>1, <5>2, <5>3 DEF ActivationFits
                <5>5. queue'[i].id \in DOMAIN midi_devices'
                        => midi_devices'[queue'[i].id].name = queue'[i].name
                    BY <2>3, <5>1, <5>2 DEF ActivationFits
                <5> QED
                    BY <5>4, <5>5 DEF ActivationFits
            <4>2. \A i \in DOMAIN queue' : queue'[i].do = "activate"
                BY <3>1, <3>2
            <4> QED
                BY <3>1, <4>1, <4>2 DEF ActionsFit
        <3>7. LoadingFits' /\ WishesFit'
            <4>1. /\ wished \ failed \subseteq Kept \cup Activated
                  /\ Kept \cup Activated \subseteq wished \cup Deactivated
                  /\ failed \cap Kept = {}
                BY <3>0, <3>1 DEF OnceInv, WishesFit
            <4> QED
                BY <1>1, <2>1, <3>1, <3>5, <4>1 DEF LoadingFits, WishesFit
        <3>8. EnabledAreConnected'
            <4> SUFFICES ASSUME NEW other \in DOMAIN midi_devices, midi_devices'[other].enabled
                         PROVE  /\ Unannounced(m_alsa_input_devices[other])'
                                    => m_alsa_input_devices'[other] \in subscribed'
                                /\ handler' # Nothing =>
                                    /\ m_alsa_input_devices'[other] \in DOMAIN handler'
                                    /\ handler'[m_alsa_input_devices'[other]] = other
                BY <2>3, <2>4 DEF EnabledAreConnected
            <4>1. other \in DOMAIN m_alsa_input_devices
                BY <2>4
            <4>2. handler' # Nothing =>
                    /\ m_alsa_input_devices[other] \in DOMAIN handler'
                    /\ handler'[m_alsa_input_devices[other]] = other
                BY <3>0, <4>1, Reopened DEF OnceInv
            <4>3. Unannounced(m_alsa_input_devices[other])'
                    => m_alsa_input_devices[other] \in subscribed'
                <5>1. CASE other = id
                    BY <1>4, <2>1, <5>1
                <5>2. CASE other # id
                    <6>1. midi_devices[other].enabled
                        BY <2>3, <5>2
                    <6>2. Unannounced(m_alsa_input_devices[other])
                            => m_alsa_input_devices[other] \in subscribed
                        BY <2>4, <3>0, <6>1 DEF OnceInv, EnabledAreConnected
                    <6>3. Unannounced(m_alsa_input_devices[other])'
                            => Unannounced(m_alsa_input_devices[other])
                        BY <1>1 DEF Unannounced
                    <6> QED
                        BY <2>1, <6>2, <6>3
                <5> QED
                    BY <5>1, <5>2
            <4> QED
                BY <1>1, <4>2, <4>3
        <3> QED
            BY <2>4, <3>0, <3>1, <3>6, <3>7, <3>8 DEF OnceInv
    <2> QED
        BY <1>1, <2>4, <2>5 DEF MidiInv
<1>6. CASE ~(id \in DOMAIN m_alsa_input_devices /\ ConnectInput(m_alsa_input_devices[id]))
    <2>1. failed' = failed \cup {x} /\ subscribed' = subscribed /\ midi_devices' = midi_devices
        BY <1>3, <1>6 DEF ActivateMidiDevice
    <2>2. /\ subscribed' \subseteq Port /\ midi_devices' \in [DOMAIN midi_devices -> Config]
          /\ \A other \in DOMAIN midi_devices :
                midi_devices'[other].name = midi_devices[other].name
        BY <1>1, <2>1 DEF KernelInv, KernelTypeOK, MidiTypeOK
    <2>4. /\ KernelInv' /\ MidiTypeOK' /\ StartFits'
          /\ Devices = midi_devices /\ Devices' = midi_devices'
          /\ DOMAIN midi_devices = DOMAIN m_alsa_input_devices
          /\ OnceInv => /\ KnownInv' /\ PortsHaveOneId' /\ StateFits'
                        /\ UpdatesFit' /\ AwaitedAreAway'
        BY <1>1, <2>2, DeviceActionKeeps
    <2>5. ASSUME ~twice PROVE OnceInv'
        <3>0. OnceInv
            BY <2>5 DEF MidiInv
        <3>1. /\ \A i \in DOMAIN queue : queue[i].do = "activate"
              /\ QueueFits' /\ ~Loading /\ ~Loading'
              /\ Deactivated = {} /\ Deactivated' = {}
              /\ Activated = Activated' \cup {x} /\ x \notin Activated'
              /\ \A i, j \in DOMAIN queue' : queue'[i].name = queue'[j].name => i = j
            BY <1>1, <1>2, <3>0, ActivationsLeft
        <3>2. /\ 1 \in DOMAIN queue /\ Head(queue) = queue[1]
              /\ \A i \in DOMAIN queue' : \E j \in DOMAIN queue : queue'[i] = queue[j]
            BY <1>1, QueueTail
        <3>3. \A i \in DOMAIN queue : ActivationFits(queue[i])
            BY <3>0, <3>1 DEF OnceInv, ActionsFit
        <3>4. x \notin Kept /\ Kept' = Kept
            BY <1>1, <1>2, <2>1, <3>2, <3>3 DEF ActivationFits, Kept
        <3>5. ActionsFit'
            <4>1. ASSUME NEW i \in DOMAIN queue' PROVE ActivationFits(queue[i])'
                <5>1. PICK j \in DOMAIN queue : queue'[i] = queue[j]
                    BY <3>2
                <5>2. ActivationFits(queue[j])
                    BY <3>3
                <5> QED
                    BY <2>1, <3>4, <5>1, <5>2 DEF ActivationFits
            <4>2. \A i \in DOMAIN queue' : queue'[i].do = "activate"
                BY <3>1, <3>2
            <4> QED
                BY <3>1, <4>1, <4>2 DEF ActionsFit
        <3>6. LoadingFits' /\ WishesFit'
            <4>1. /\ wished \ failed \subseteq Kept \cup Activated
                  /\ Kept \cup Activated \subseteq wished \cup Deactivated
                  /\ failed \cap Kept = {}
                BY <3>0, <3>1 DEF OnceInv, WishesFit
            <4> QED
                BY <1>1, <2>1, <3>1, <3>4, <4>1 DEF LoadingFits, WishesFit
        <3>7. EnabledAreConnected'
            <4> SUFFICES ASSUME NEW other \in DOMAIN midi_devices, midi_devices[other].enabled
                         PROVE  /\ Unannounced(m_alsa_input_devices[other])'
                                    => m_alsa_input_devices'[other] \in subscribed'
                                /\ handler' # Nothing =>
                                    /\ m_alsa_input_devices'[other] \in DOMAIN handler'
                                    /\ handler'[m_alsa_input_devices'[other]] = other
                BY <2>1, <2>4 DEF EnabledAreConnected
            <4>1. other \in DOMAIN m_alsa_input_devices
                BY <2>4
            <4>2. handler' # Nothing =>
                    /\ m_alsa_input_devices[other] \in DOMAIN handler'
                    /\ handler'[m_alsa_input_devices[other]] = other
                BY <3>0, <4>1, Reopened DEF OnceInv
            <4>3. Unannounced(m_alsa_input_devices[other])
                    => m_alsa_input_devices[other] \in subscribed
                BY <2>4, <3>0 DEF OnceInv, EnabledAreConnected
            <4>4. Unannounced(m_alsa_input_devices[other])'
                    => Unannounced(m_alsa_input_devices[other])
                BY <1>1 DEF Unannounced
            <4> QED
                BY <1>1, <2>1, <4>2, <4>3, <4>4
        <3> QED
            BY <2>4, <3>0, <3>1, <3>5, <3>6, <3>7 DEF OnceInv
    <2> QED
        BY <1>1, <2>4, <2>5 DEF MidiInv
<1> QED
    BY <1>5, <1>6

LEMMA DeactivateInv ==
    ASSUME MidiInv, queue # <<>>, Head(queue).do = "deactivate",
           DeactivateMidiDevice(Head(queue).id), ReopenDevice,
           queue' = Tail(queue),
           UNCHANGED <<plugged, announced, managerVars, m_enabled_devices, updates, saved, wished,
                       twice>>
    PROVE  MidiInv'
<1>1. /\ KernelInv /\ MidiTypeOK /\ StartFits
      /\ UNCHANGED <<plugged, announced, m_initial_updates, m_alsa_input_devices, next_id,
                     m_enabled_devices, updates, saved, wished, twice>>
    BY DEF MidiInv, managerVars
<1>2. PICK id, x : id = Head(queue).id /\ x = Head(queue).name
    OBVIOUS
<1>3. /\ subscribed' = IF id \in DOMAIN m_alsa_input_devices
                       THEN subscribed \ {m_alsa_input_devices[id]} ELSE subscribed
      /\ midi_devices' = [midi_devices EXCEPT ![id].enabled = FALSE]
      /\ failed' = failed
    BY <1>2 DEF DeactivateMidiDevice, DisconnectInput
<1>4. subscribed' \subseteq Port
    BY <1>1, <1>3 DEF KernelInv, KernelTypeOK
<1>5. /\ midi_devices' \in [DOMAIN midi_devices -> Config]
      /\ \A other \in DOMAIN midi_devices :
            /\ midi_devices'[other].name = midi_devices[other].name
            /\ other # id => midi_devices'[other] = midi_devices[other]
      /\ id \in DOMAIN midi_devices => midi_devices'[id].enabled = FALSE
    <2>1. midi_devices \in [DOMAIN midi_devices -> Config]
        BY <1>1 DEF MidiTypeOK
    <2> QED
        BY <1>3, <2>1 DEF Config
<1>6. /\ KernelInv' /\ MidiTypeOK' /\ StartFits'
      /\ Devices = midi_devices /\ Devices' = midi_devices'
      /\ DOMAIN midi_devices = DOMAIN m_alsa_input_devices
      /\ OnceInv => /\ KnownInv' /\ PortsHaveOneId' /\ StateFits'
                    /\ UpdatesFit' /\ AwaitedAreAway'
    BY <1>1, <1>4, <1>5, DeviceActionKeeps
<1>7. ASSUME ~twice PROVE OnceInv'
    <2>0. OnceInv
        BY <1>7 DEF MidiInv
    <2>1. 1 \in DOMAIN queue /\ Head(queue) = queue[1]
        BY <1>1, QueueTail
    <2>2. queue # StartQueue /\ queue # Tail(StartQueue) /\ queue # <<Do("load")>>
          /\ queue # <<Do("apply")>> /\ queue # <<Do("refresh")>>
        BY <2>1, FirstOfStart
    <2>3. Len(queue) = 1
        BY <2>0, <2>1, <2>2 DEF OnceInv, QueueFits
    <2>4. queue' = <<>>
        <3>1. queue \in Seq(Action)
            BY <1>1 DEF MidiTypeOK
        <3>2. Tail(queue) \in Seq(Action) /\ Len(Tail(queue)) = Len(queue) - 1
            BY <3>1, TailFacts
        <3>3. Len(Tail(queue)) = 0
            BY <2>3, <3>2
        <3> QED
            BY <3>2, <3>3, EmptySeq
    <2>5. DOMAIN queue = {1}
        <3>1. queue \in Seq(Action)
            BY <1>1 DEF MidiTypeOK
        <3> QED
            BY <2>3, <3>1
    <2>6. id \in DOMAIN midi_devices /\ midi_devices[id].name = x /\ x \notin wished
        BY <1>2, <2>0, <2>1 DEF OnceInv, ActionsFit, DeactivationFits
    <2>7. Activated = {} /\ Deactivated = {x}
        BY <1>2, <2>1, <2>5 DEF Activated, Deactivated
    <2>8. QueueFits' /\ ActionsFit' /\ Activated' = {} /\ Deactivated' = {}
        <3>1. QueueFits'
            BY <2>4 DEF QueueFits
        <3>2. DOMAIN queue' = {}
            BY <2>4
        <3> QED
            BY <3>1, <3>2, NoActions
    <2>9. ~Loading /\ ~Loading'
        BY <2>2, <2>4, NotLoading DEF Loading
    <2>10. Kept' = Kept \ {x}
        <3>1. \A other \in DOMAIN midi_devices : other # id => midi_devices[other].name # x
            BY <2>0, <2>6 DEF OnceInv, StateFits, IdsDiffer
        <3>2. x \notin Range(m_enabled_devices)
            BY <2>0, <2>6 DEF OnceInv, StateFits
        <3>3. EnabledNames(midi_devices') = EnabledNames(midi_devices) \ {x}
            <4>1. DOMAIN midi_devices' = DOMAIN midi_devices
                BY <1>5
            <4> QED
                BY <1>5, <2>6, <3>1, <4>1 DEF EnabledNames
        <3> QED
            BY <1>1, <3>2, <3>3 DEF Kept
    <2>11. LoadingFits' /\ WishesFit'
        <3>1. /\ wished \ failed \subseteq Kept \cup Activated
              /\ Kept \cup Activated \subseteq wished \cup Deactivated
              /\ failed \cap Kept = {}
            BY <2>0, <2>9 DEF OnceInv, WishesFit
        <3> QED
            BY <1>1, <1>3, <2>6, <2>7, <2>8, <2>9, <2>10, <3>1 DEF LoadingFits, WishesFit
    <2>12. EnabledAreConnected'
        <3> SUFFICES ASSUME NEW other \in DOMAIN midi_devices, midi_devices'[other].enabled
                     PROVE  /\ Unannounced(m_alsa_input_devices[other])'
                                => m_alsa_input_devices'[other] \in subscribed'
                            /\ handler' # Nothing =>
                                /\ m_alsa_input_devices'[other] \in DOMAIN handler'
                                /\ handler'[m_alsa_input_devices'[other]] = other
            BY <1>5, <1>6 DEF EnabledAreConnected
        <3>1. other \in DOMAIN m_alsa_input_devices
            BY <1>6
        <3>2. handler' # Nothing =>
                /\ m_alsa_input_devices[other] \in DOMAIN handler'
                /\ handler'[m_alsa_input_devices[other]] = other
            BY <2>0, <3>1, Reopened DEF OnceInv
        <3>3. other # id
            BY <1>5
        <3>4. midi_devices[other].enabled /\ m_alsa_input_devices[other] # m_alsa_input_devices[id]
            BY <1>5, <1>6, <2>0, <2>6, <3>1, <3>3 DEF OnceInv, PortsHaveOneId
        <3>5. Unannounced(m_alsa_input_devices[other])
                => m_alsa_input_devices[other] \in subscribed
            BY <1>6, <2>0, <3>4 DEF OnceInv, EnabledAreConnected
        <3>6. Unannounced(m_alsa_input_devices[other])'
                => Unannounced(m_alsa_input_devices[other])
            BY <1>1 DEF Unannounced
        <3>7. m_alsa_input_devices[other] \in subscribed
                => m_alsa_input_devices[other] \in subscribed'
            BY <1>3, <3>4
        <3> QED
            BY <1>1, <3>2, <3>5, <3>6, <3>7
    <2> QED
        BY <1>6, <2>0, <2>8, <2>11, <2>12 DEF OnceInv
<1> QED
    BY <1>1, <1>6, <1>7 DEF MidiInv

LEMMA DeviceActionInv ==
    ASSUME MidiInv, queue # <<>>, DeviceAction
    PROVE  MidiInv'
<1>1. /\ ReopenDevice /\ queue' = Tail(queue)
      /\ UNCHANGED <<plugged, announced, managerVars, m_enabled_devices, updates, saved, wished,
                     twice>>
    BY DEF DeviceAction
<1>2. CASE Head(queue).do = "activate" /\ ActivateMidiDevice(Head(queue).id, Head(queue).name)
    BY <1>1, <1>2, ActivateInv
<1>3. CASE Head(queue).do = "deactivate" /\ DeactivateMidiDevice(Head(queue).id)
    BY <1>1, <1>3, DeactivateInv
<1> QED
    BY <1>2, <1>3 DEF DeviceAction

-----------------------------------------------------------------------------
(* What is dispatched while nothing else is processed. *)

LEMMA OneAction ==
    ASSUME NEW a \in Action
    PROVE  <<a>> \in Seq(Action) /\ Len(<<a>>) = 1 /\ DOMAIN <<a>> = {1} /\ <<a>>[1] = a
OBVIOUS

LEMMA NothingWaits ==
    ASSUME queue = <<>>
    PROVE  ~BeforeScan /\ ~Loading /\ Activated = {} /\ Deactivated = {}
<1>1. queue # StartQueue /\ queue # Tail(StartQueue) /\ queue # <<Do("load")>>
      /\ queue # <<Do("apply")>>
    <2>1. \A a : <<>> # <<a>>
        OBVIOUS
    <2>2. \A a, b : <<>> # <<a, b>>
        OBVIOUS
    <2> QED
        BY <2>1, <2>2, StartQueueFacts
<1>2. DOMAIN queue = {}
    OBVIOUS
<1> QED
    BY <1>1, <1>2 DEF BeforeScan, Loading, Activated, Deactivated

LEMMA DispatchKeeps ==
    ASSUME MidiInv, Dispatch, queue' \in Seq(Action),
           \A i \in DOMAIN queue' : queue'[i].do \notin {"scan", "apply"}
    PROVE  /\ KernelInv' /\ MidiTypeOK' /\ StartFits'
           /\ Devices' = midi_devices /\ DOMAIN midi_devices = DOMAIN m_alsa_input_devices
           /\ OnceInv =>
                /\ KnownInv' /\ PortsHaveOneId' /\ UpdatesFit' /\ AwaitedAreAway' /\ StateFits'
                /\ (handler' = handler => EnabledAreConnected') /\ Kept' = Kept
                /\ wished \ failed \subseteq Kept /\ Kept \subseteq wished
                /\ failed \cap Kept = {}
<1>1. /\ queue = <<>>
      /\ UNCHANGED <<plugged, subscribed, announced, m_initial_updates, m_alsa_input_devices,
                     next_id, midi_devices, m_enabled_devices, updates, saved, failed, twice>>
      /\ KernelInv /\ MidiTypeOK /\ StartFits
    BY DEF Dispatch, kernelVars, managerVars, MidiInv
<1>2. ~BeforeScan /\ ~Loading /\ Activated = {} /\ Deactivated = {}
    BY <1>1, NothingWaits
<1>3. updates = <<>> /\ m_initial_updates = <<>>
    BY <1>1 DEF StartFits, RefreshFits
<1>4. updates' = <<>> /\ m_initial_updates' = <<>>
    BY <1>1, <1>3
<1>5. StartFits' /\ ~BeforeScan'
    BY <1>1, <1>2, <1>4, StartFitsKept
<1>6. Updated' = Updated /\ Devices' = Devices
    BY <1>1, UpdatedKept
<1>7. Devices = midi_devices /\ DOMAIN midi_devices = DOMAIN m_alsa_input_devices
    BY <1>1, <1>3, SettledNow
<1>8. MidiTypeOK'
    BY <1>1, <1>6 DEF MidiTypeOK
<1>9. KernelInv'
    BY <1>1 DEF KernelInv, KernelTypeOK, DevicesAreApart, AnnouncementsAlternate, Between, StateOf
<1>10. ASSUME OnceInv
       PROVE  /\ KnownInv' /\ PortsHaveOneId' /\ UpdatesFit' /\ AwaitedAreAway' /\ StateFits'
              /\ (handler' = handler => EnabledAreConnected') /\ Kept' = Kept
    BY <1>1, <1>2, <1>5, <1>10, ManagerSideKept
<1>11. ASSUME OnceInv
       PROVE  /\ wished \ failed \subseteq Kept /\ Kept \subseteq wished
              /\ failed \cap Kept = {}
    BY <1>2, <1>11 DEF OnceInv, WishesFit
<1> QED
    BY <1>5, <1>6, <1>7, <1>8, <1>9, <1>10, <1>11

LEMMA TimerInv ==
    ASSUME MidiInv, Dispatch, Timer
    PROVE  MidiInv'
<1>1. /\ queue' = <<Do("refresh")>> /\ UNCHANGED <<handler, wished, failed, twice>>
    BY DEF Dispatch, Timer
<1>2. /\ queue' \in Seq(Action)
      /\ \A i \in DOMAIN queue' : queue'[i].do = "refresh"
    BY <1>1, StartQueueFacts, OneAction
<1>3. KernelInv' /\ MidiTypeOK' /\ StartFits'
    BY <1>2, DispatchKeeps
<1>4. ASSUME ~twice PROVE OnceInv'
    <2>0. OnceInv
        BY <1>4 DEF MidiInv
    <2>1. /\ KnownInv' /\ PortsHaveOneId' /\ UpdatesFit' /\ AwaitedAreAway' /\ StateFits'
          /\ (handler' = handler => EnabledAreConnected') /\ Kept' = Kept
          /\ wished \ failed \subseteq Kept /\ Kept \subseteq wished
          /\ failed \cap Kept = {}
        BY <1>2, <2>0, DispatchKeeps
    <2>2. QueueFits'
        BY <1>1 DEF QueueFits
    <2>3. ~Loading'
        BY <1>1, QueuesDiffer DEF Loading
    <2>4. ActionsFit' /\ Activated' = {} /\ Deactivated' = {}
        BY <1>2, NoActions
    <2>5. LoadingFits' /\ WishesFit'
        BY <1>1, <2>1, <2>3, <2>4 DEF LoadingFits, WishesFit
    <2> QED
        BY <1>1, <2>1, <2>2, <2>4, <2>5 DEF OnceInv
<1> QED
    BY <1>1, <1>3, <1>4 DEF MidiInv

LEMMA TurnOffInv ==
    ASSUME MidiInv, Dispatch, NEW id \in DOMAIN midi_devices, ChangeEnabled(id),
           midi_devices[id].enabled
    PROVE  MidiInv'
<1>1. PICK x : x = midi_devices[id].name
    OBVIOUS
<1>2. PICK a : a = [do |-> "deactivate", id |-> id, name |-> x]
    OBVIOUS
<1>3. /\ queue' = <<a>> /\ wished' = wished \ {x}
      /\ UNCHANGED <<midi_devices, handler, failed, twice>>
    BY <1>1, <1>2 DEF Dispatch, ChangeEnabled
<1>4. a \in Action /\ a.do = "deactivate" /\ a.id = id /\ a.name = x
    <2>1. id \in Nat /\ x \in Device
        BY <1>1 DEF MidiInv, MidiTypeOK, Config
    <2> QED
        BY <1>2, <2>1 DEF Action
<1>5. queue' \in Seq(Action) /\ Len(queue') = 1 /\ DOMAIN queue' = {1} /\ queue'[1] = a
    BY <1>3, <1>4, OneAction
<1>6. KernelInv' /\ MidiTypeOK' /\ StartFits'
    BY <1>4, <1>5, DispatchKeeps
<1>7. ASSUME ~twice PROVE OnceInv'
    <2>0. OnceInv
        BY <1>7 DEF MidiInv
    <2>1. /\ KnownInv' /\ PortsHaveOneId' /\ UpdatesFit' /\ AwaitedAreAway' /\ StateFits'
          /\ (handler' = handler => EnabledAreConnected') /\ Kept' = Kept
          /\ wished \ failed \subseteq Kept /\ Kept \subseteq wished
          /\ failed \cap Kept = {}
        BY <1>4, <1>5, <2>0, DispatchKeeps
    <2>2. QueueFits'
        BY <1>4, <1>5 DEF QueueFits
    <2>3. ~Loading'
        BY <1>4, <1>5, NotLoading
    <2>4. Activated' = {} /\ Deactivated' = {x}
        BY <1>4, <1>5 DEF Activated, Deactivated
    <2>5. ActionsFit'
        <3>1. DeactivationFits(queue[1])'
            BY <1>1, <1>3, <1>4, <1>5 DEF DeactivationFits
        <3> QED
            BY <1>4, <1>5, <3>1 DEF ActionsFit
    <2>6. LoadingFits' /\ WishesFit'
        BY <1>3, <2>1, <2>3, <2>4 DEF LoadingFits, WishesFit
    <2> QED
        BY <1>3, <2>1, <2>2, <2>5, <2>6 DEF OnceInv
<1> QED
    BY <1>3, <1>6, <1>7 DEF MidiInv

LEMMA TurnOnInv ==
    ASSUME MidiInv, Dispatch, NEW id \in DOMAIN midi_devices, ChangeEnabled(id),
           ~midi_devices[id].enabled
    PROVE  MidiInv'
<1>1. PICK x : x = midi_devices[id].name
    OBVIOUS
<1>2. PICK a : a = Activation(id, x)
    OBVIOUS
<1>3. /\ queue' = <<a>> /\ wished' = wished \cup {x}
      /\ UNCHANGED <<midi_devices, m_enabled_devices, handler, failed, twice>>
    BY <1>1, <1>2 DEF Dispatch, ChangeEnabled
<1>4. a \in Action /\ a.do = "activate" /\ a.id = id /\ a.name = x
    <2>1. id \in Nat /\ x \in Device
        BY <1>1 DEF MidiInv, MidiTypeOK, Config
    <2> QED
        BY <1>2, <2>1 DEF Action, Activation
<1>5. queue' \in Seq(Action) /\ Len(queue') = 1 /\ DOMAIN queue' = {1} /\ queue'[1] = a
    BY <1>3, <1>4, OneAction
<1>6. KernelInv' /\ MidiTypeOK' /\ StartFits'
    BY <1>4, <1>5, DispatchKeeps
<1>7. ASSUME ~twice PROVE OnceInv'
    <2>0. OnceInv
        BY <1>7 DEF MidiInv
    <2>1. /\ KnownInv' /\ PortsHaveOneId' /\ UpdatesFit' /\ AwaitedAreAway' /\ StateFits'
          /\ (handler' = handler => EnabledAreConnected') /\ Kept' = Kept
          /\ wished \ failed \subseteq Kept /\ Kept \subseteq wished
          /\ failed \cap Kept = {}
        BY <1>4, <1>5, <2>0, DispatchKeeps
    <2>2. QueueFits'
        BY <1>4, <1>5 DEF QueueFits
    <2>3. ~Loading'
        BY <1>4, <1>5, NotLoading
    <2>4. Activated' = {x} /\ Deactivated' = {}
        BY <1>4, <1>5 DEF Activated, Deactivated
    <2>5. x \notin Kept
        <3>1. x \notin Range(m_enabled_devices)
            BY <1>1, <2>0 DEF OnceInv, StateFits
        <3>2. x \notin EnabledNames(midi_devices)
            BY <1>1, <2>0 DEF OnceInv, StateFits, IdsDiffer, EnabledNames
        <3> QED
            BY <3>1, <3>2 DEF Kept
    <2>6. ActionsFit'
        <3>1. ActivationFits(queue[1])'
            BY <1>1, <1>3, <1>4, <1>5, <2>1, <2>5 DEF ActivationFits
        <3> QED
            BY <1>4, <1>5, <3>1 DEF ActionsFit
    <2>7. LoadingFits' /\ WishesFit'
        BY <1>3, <2>1, <2>3, <2>4 DEF LoadingFits, WishesFit
    <2> QED
        BY <1>3, <2>1, <2>2, <2>6, <2>7 DEF OnceInv
<1> QED
    BY <1>3, <1>6, <1>7 DEF MidiInv

LEMMA EngineChangesInv ==
    ASSUME MidiInv, Dispatch, EngineChanges
    PROVE  MidiInv'
<1>1. /\ queue = <<>> /\ queue' = <<>> /\ ReopenDevice
      /\ UNCHANGED <<m_alsa_input_devices, subscribed, announced, midi_devices, wished, failed,
                     twice>>
    BY DEF Dispatch, EngineChanges, kernelVars, managerVars
<1>2. queue' \in Seq(Action) /\ DOMAIN queue' = {}
    BY <1>1
<1>3. /\ KernelInv' /\ MidiTypeOK' /\ StartFits'
      /\ Devices' = midi_devices /\ DOMAIN midi_devices = DOMAIN m_alsa_input_devices
    BY <1>2, DispatchKeeps
<1>4. ASSUME ~twice PROVE OnceInv'
    <2>0. OnceInv
        BY <1>4 DEF MidiInv
    <2>1. /\ KnownInv' /\ PortsHaveOneId' /\ UpdatesFit' /\ AwaitedAreAway' /\ StateFits'
          /\ Kept' = Kept
          /\ wished \ failed \subseteq Kept /\ Kept \subseteq wished
          /\ failed \cap Kept = {}
        BY <1>2, <2>0, DispatchKeeps
    <2>2. QueueFits'
        BY <1>1 DEF QueueFits
    <2>3. ~Loading'
        BY <1>1, NotLoading
    <2>4. ActionsFit' /\ Activated' = {} /\ Deactivated' = {}
        BY <1>2, NoActions
    <2>5. LoadingFits' /\ WishesFit'
        BY <1>1, <2>1, <2>3, <2>4 DEF LoadingFits, WishesFit
    <2>6. EnabledAreConnected'
        <3> SUFFICES ASSUME NEW id \in DOMAIN midi_devices, midi_devices[id].enabled
                     PROVE  /\ Unannounced(m_alsa_input_devices[id])'
                                => m_alsa_input_devices[id] \in subscribed
                            /\ handler' # Nothing =>
                                /\ m_alsa_input_devices[id] \in DOMAIN handler'
                                /\ handler'[m_alsa_input_devices[id]] = id
            BY <1>1, <1>3 DEF EnabledAreConnected
        <3>1. handler' # Nothing =>
                /\ m_alsa_input_devices[id] \in DOMAIN handler'
                /\ handler'[m_alsa_input_devices[id]] = id
            BY <1>1, <1>3, <2>0, Reopened DEF OnceInv
        <3>2. Devices = midi_devices
            <4>1. updates = <<>> /\ MidiTypeOK
                BY <1>1 DEF MidiInv, StartFits, RefreshFits
            <4> QED
                BY <4>1, SettledNow
        <3>3. Unannounced(m_alsa_input_devices[id]) => m_alsa_input_devices[id] \in subscribed
            BY <2>0, <3>2 DEF OnceInv, EnabledAreConnected
        <3>4. Unannounced(m_alsa_input_devices[id])'
                => Unannounced(m_alsa_input_devices[id])
            BY <1>1 DEF Unannounced
        <3> QED
            BY <3>1, <3>3, <3>4
    <2> QED
        BY <1>1, <2>1, <2>2, <2>4, <2>5, <2>6 DEF OnceInv
<1> QED
    BY <1>1, <1>3, <1>4 DEF MidiInv

LEMMA DispatchInv ==
    ASSUME MidiInv, Dispatch
    PROVE  MidiInv'
<1>1. CASE Timer
    BY <1>1, TimerInv
<1>2. ASSUME NEW id \in DOMAIN midi_devices, ChangeEnabled(id) PROVE MidiInv'
    BY <1>2, TurnOffInv, TurnOnInv
<1>3. CASE EngineChanges
    BY <1>3, EngineChangesInv
<1> QED
    BY <1>1, <1>2, <1>3 DEF Dispatch

-----------------------------------------------------------------------------
(* The program starts. *)

Fresh ==
    /\ KernelTypeOK /\ DevicesAreApart /\ announced = <<>>
    /\ m_initial_updates = <<>> /\ m_alsa_input_devices = NoFunction
    /\ midi_devices = NoFunction /\ m_enabled_devices = <<>> /\ updates = <<>>
    /\ queue = StartQueue /\ handler = Nothing
    /\ failed = {} /\ twice = FALSE /\ next_id = 1
    /\ saved \in (SUBSET Device) \cup {Nothing}
    /\ wished = IF saved = Nothing THEN {} ELSE saved

LEMMA FreshInv == Fresh => MidiInv
<1> SUFFICES ASSUME Fresh PROVE MidiInv
    OBVIOUS
<1>1. DOMAIN NoFunction = {} /\ NoFunction \in [DOMAIN NoFunction -> Config]
      /\ NoFunction \in [DOMAIN NoFunction -> Port]
    BY DEF NoFunction
<1>2. DOMAIN midi_devices = {} /\ DOMAIN m_alsa_input_devices = {}
      /\ midi_devices \in [DOMAIN midi_devices -> Config]
      /\ m_alsa_input_devices \in [DOMAIN m_alsa_input_devices -> Port]
    BY <1>1 DEF Fresh
<1>3. /\ <<>> \in Seq(Device) /\ <<>> \in Seq(Update)
      /\ <<>> \in Seq([port : Port, name : Device]) /\ DOMAIN <<>> = {}
      /\ \A T : <<>> \in Seq(T)
    OBVIOUS
<1>4. EnabledNames(midi_devices) = {} /\ Range(m_enabled_devices) = {} /\ Kept = {}
    <2>1. EnabledNames(midi_devices) = {}
        BY <1>2 DEF EnabledNames
    <2>2. Range(m_enabled_devices) = {}
        BY <1>3 DEF Fresh, Range
    <2> QED
        BY <2>1, <2>2 DEF Kept
<1>5. Updated = Unhandled(midi_devices, m_enabled_devices)
    BY UpdatedNone DEF Fresh
<1>6. /\ m_enabled_devices \in Seq(Device) /\ next_id \in Nat /\ next_id >= 1
      /\ \A id \in DOMAIN midi_devices : id \in Nat /\ id < next_id
    BY <1>2, <1>3 DEF Fresh
<1>7. /\ Devices = midi_devices /\ Typed(Updated, next_id)
      /\ Updated.enabled.names = m_enabled_devices
      /\ Updated.enabled.dispatched = <<>>
      /\ KeptBy(Updated) = Range(m_enabled_devices) \cup EnabledNames(midi_devices)
      /\ IdsBelow(<<>>, next_id)
    BY <1>2, <1>5, <1>6, UnhandledFacts DEF Devices
<1>8. queue \in Seq(Action) /\ BeforeScan /\ Loading
      /\ \A i \in DOMAIN queue : queue[i].do \in {"scan", "refresh", "load"}
    <2>1. queue = <<Do("scan"), Do("refresh"), Do("load")>>
        BY DEF Fresh, StartQueue
    <2>2. DOMAIN queue = 1 .. 3 /\ queue[1] = Do("scan") /\ queue[2] = Do("refresh")
          /\ queue[3] = Do("load") /\ Len(queue) = 3
        BY <2>1
    <2>3. queue \in Seq(Action)
        BY <2>1, StartQueueFacts
    <2>4. \A i \in DOMAIN queue : i = 1 \/ i = 2 \/ i = 3
        BY <2>2
    <2>5. \A i \in DOMAIN queue : queue[i].do \in {"scan", "refresh", "load"}
        BY <2>2, <2>4, StartQueueFacts
    <2> QED
        BY <2>3, <2>5 DEF Fresh, BeforeScan, Loading
<1>9. KernelInv
    <2>1. DOMAIN announced = {}
        BY DEF Fresh
    <2> QED
        BY <2>1 DEF Fresh, KernelInv, AnnouncementsAlternate
<1>10. MidiTypeOK
    BY <1>2, <1>3, <1>6, <1>7, <1>8 DEF MidiTypeOK, Fresh
<1>11. StartFits
    BY <1>2, <1>8 DEF StartFits, RefreshFits, Fresh
<1>12. OnceInv
    <2>1. \A p, n : ~IsKnown(p, n)
        BY <1>2, <1>3 DEF IsKnown, Fresh
    <2>2. KnownInv
        BY <1>8, <2>1 DEF KnownInv, KnownExitFirst, UnannouncedAreKnown, NothingIsKnownBefore,
                          NamesAreRight, MovedExitFirst, MovedAreKnownOnce
    <2>3. PortsHaveOneId
        BY <1>2, <1>3 DEF PortsHaveOneId, Fresh
    <2>4. StateFits
        BY <1>2, <1>3 DEF StateFits, IdsDiffer, Once, Fresh
    <2>5. Fits(Updated, midi_devices)
        <3>1. Once(m_enabled_devices)
              /\ \A id \in DOMAIN midi_devices :
                    midi_devices[id].name \notin Range(m_enabled_devices)
            BY <2>4 DEF StateFits
        <3> QED
            BY <1>2, <1>5, <1>6, <3>1, UnhandledFits
    <2>6. UpdatesFit
        BY <1>7, <2>5 DEF UpdatesFit, Kept
    <2>7. AwaitedAreAway
        BY <1>2 DEF AwaitedAreAway
    <2>8. QueueFits
        BY DEF QueueFits, Fresh
    <2>9. LoadingFits
        BY <1>4 DEF LoadingFits, Fresh
    <2>10. ActionsFit
        BY <1>8 DEF ActionsFit
    <2>11. WishesFit
        BY <1>8 DEF WishesFit
    <2>12. EnabledAreConnected
        BY <1>2, <1>7 DEF EnabledAreConnected
    <2> QED
        BY <2>2, <2>3, <2>4, <2>6, <2>7, <2>8, <2>9, <2>10, <2>11, <2>12 DEF OnceInv
<1> QED
    BY <1>9, <1>10, <1>11, <1>12 DEF MidiInv

LEMMA InitFresh == MidiInit => Fresh
<1> SUFFICES ASSUME MidiInit PROVE Fresh
    OBVIOUS
<1>1. KernelTypeOK
    BY DEF MidiInit, KernelTypeOK
<1>2. DevicesAreApart
    BY DEF MidiInit, DevicesAreApart
<1> QED
    BY <1>1, <1>2 DEF MidiInit, Fresh, StartQueue

\* What is restored is what was enabled when the program ended.
LEMMA RestartFresh == MidiInv /\ Restart => Fresh'
<1> SUFFICES ASSUME MidiInv, Restart PROVE Fresh'
    OBVIOUS
<1>1. /\ KernelInv /\ MidiTypeOK /\ StartFits /\ UNCHANGED plugged
      /\ subscribed' = {} /\ announced' = <<>>
    BY DEF MidiInv, Restart, Started
<1>2. KernelTypeOK' /\ DevicesAreApart'
    <2>1. <<>> \in Seq(Announcement)
        OBVIOUS
    <2> QED
        BY <1>1, <2>1 DEF KernelInv, KernelTypeOK, DevicesAreApart
<1>3. /\ saved' \in (SUBSET Device) \cup {Nothing}
      /\ wished' = IF saved' = Nothing THEN {} ELSE saved'
    <2>1. CASE Quit
        <3>1. queue = <<>> /\ saved' = Kept
              /\ wished' = IF twice THEN saved' ELSE wished \ failed
            BY <2>1 DEF Quit, Kept
        <3>2. Kept \subseteq Device
            <4>1. m_enabled_devices \in Seq(Device)
                  /\ midi_devices \in [DOMAIN midi_devices -> Config]
                BY <1>1 DEF MidiTypeOK
            <4>2. Range(m_enabled_devices) \subseteq Device
                BY <4>1 DEF Range
            <4>3. EnabledNames(midi_devices) \subseteq Device
                BY <4>1 DEF EnabledNames, Config
            <4> QED
                BY <4>2, <4>3 DEF Kept
        <3>3. Kept # Nothing
            BY <3>2, MidiAssumption
        <3>4. ASSUME ~twice PROVE wished \ failed = Kept
            <4>1. OnceInv
                BY <3>4 DEF MidiInv
            <4>2. ~Loading /\ Activated = {} /\ Deactivated = {}
                BY <3>1, NothingWaits
            <4> QED
                BY <4>1, <4>2 DEF OnceInv, WishesFit
        <3> QED
            BY <3>1, <3>2, <3>3, <3>4
    <2>2. CASE Crash
        BY <1>1, <2>2 DEF Crash, MidiTypeOK
    <2> QED
        BY <2>1, <2>2 DEF Restart
<1> QED
    BY <1>1, <1>2, <1>3 DEF Restart, Started, Fresh, StartQueue

LEMMA RestartInv == MidiInv /\ Restart => MidiInv'
<1>1. Fresh' => MidiInv'
    BY FreshInv, PTL
<1> QED
    BY <1>1, RestartFresh

-----------------------------------------------------------------------------
(* The invariant holds. *)

LEMMA MidiStutters ==
    ASSUME MidiInv, UNCHANGED midiVars
    PROVE  MidiInv'
<1>1. /\ UNCHANGED <<plugged, subscribed, announced, m_initial_updates, m_alsa_input_devices,
                     next_id, midi_devices, m_enabled_devices, updates, queue, handler, saved,
                     wished, failed, twice>>
    BY DEF midiVars, kernelVars, managerVars, wishVars
<1>2. Updated' = Updated /\ Devices' = Devices
    BY <1>1, UpdatedKept
<1>3. KernelInv'
    BY <1>1 DEF MidiInv, KernelInv, KernelTypeOK, DevicesAreApart, AnnouncementsAlternate,
                Between, StateOf
<1>4. MidiTypeOK'
    BY <1>1, <1>2 DEF MidiInv, MidiTypeOK
<1>5. StartFits'
    BY <1>1 DEF MidiInv, StartFits, RefreshFits, BeforeScan
<1>6. ASSUME ~twice PROVE OnceInv'
    <2>0. OnceInv
        BY <1>6 DEF MidiInv
    <2>1. \A p, n : IsKnown(p, n)' <=> IsKnown(p, n)
        BY <1>1, IsKnownKept
    <2>2. /\ BeforeScan' <=> BeforeScan
          /\ \A p : Unannounced(p)' <=> Unannounced(p)
          /\ \A i, p : ExitBefore(i, p)' <=> ExitBefore(i, p)
          /\ \A i, p : IsLast(i, p)' <=> IsLast(i, p)
        BY <1>1 DEF BeforeScan, Unannounced, ExitBefore, IsLast
    <2>3. KnownInv'
        <3>1. KnownExitFirst' /\ UnannouncedAreKnown' /\ NothingIsKnownBefore'
            BY <1>1, <2>0, <2>1, <2>2 DEF OnceInv, KnownInv, KnownExitFirst, UnannouncedAreKnown,
                                          NothingIsKnownBefore
        <3>2. NamesAreRight' /\ MovedExitFirst' /\ MovedAreKnownOnce'
            BY <1>1, <2>0, <2>1, <2>2 DEF OnceInv, KnownInv, NamesAreRight, MovedExitFirst,
                                          MovedAreKnownOnce
        <3> QED
            BY <3>1, <3>2 DEF KnownInv
    <2>4. Kept' = Kept /\ Activated' = Activated /\ Deactivated' = Deactivated
          /\ (Loading' <=> Loading)
        BY <1>1 DEF Kept, Activated, Deactivated, Loading
    <2>5. PortsHaveOneId' /\ StateFits' /\ QueueFits'
        BY <1>1, <2>0 DEF OnceInv, PortsHaveOneId, StateFits, QueueFits
    <2>6. UpdatesFit'
        BY <1>1, <1>2, <2>0, <2>4 DEF OnceInv, UpdatesFit
    <2>7. AwaitedAreAway' /\ EnabledAreConnected'
        BY <1>1, <1>2, <2>0, <2>2 DEF OnceInv, AwaitedAreAway, EnabledAreConnected
    <2>8. LoadingFits' /\ WishesFit'
        BY <1>1, <2>0, <2>4 DEF OnceInv, LoadingFits, WishesFit
    <2>9. ActionsFit'
        BY <1>1, <2>0, <2>4 DEF OnceInv, ActionsFit, ActivationFits, DeactivationFits
    <2> QED
        BY <2>3, <2>5, <2>6, <2>7, <2>8, <2>9 DEF OnceInv
<1> QED
    BY <1>1, <1>3, <1>4, <1>5, <1>6 DEF MidiInv

LEMMA InitMidiInv == MidiInit => MidiInv
BY InitFresh, FreshInv

LEMMA StepMidiInv == MidiInv /\ [MidiNext]_midiVars => MidiInv'
<1> SUFFICES ASSUME MidiInv, [MidiNext]_midiVars PROVE MidiInv'
    OBVIOUS
<1>1. CASE Hotplug /\ UNCHANGED restarts
    BY <1>1, HotplugInv
<1>2. CASE MainThread /\ UNCHANGED <<plugs, restarts>>
    <2>1. queue # <<>> /\ UNCHANGED <<plugs, restarts>>
        BY <1>2 DEF MainThread
    <2>2. CASE Scan
        BY <2>1, <2>2, ScanInv
    <2>3. CASE Read
        BY <2>1, <2>3, ReadInv
    <2>4. CASE RefreshMidiDevices
        BY <2>1, <2>4, RefreshInv
    <2>5. CASE LoadAppConfig
        BY <2>1, <2>5, LoadInv
    <2>6. CASE ApplyAppConfig
        BY <2>1, <2>6, ApplyInv
    <2>7. CASE DeviceAction
        BY <2>1, <2>7, DeviceActionInv
    <2> QED
        BY <1>2, <2>2, <2>3, <2>4, <2>5, <2>6, <2>7 DEF MainThread
<1>3. CASE Dispatch
    BY <1>3, DispatchInv
<1>4. CASE Restart
    BY <1>4, RestartInv
<1>5. CASE UNCHANGED midiVars
    BY <1>5, MidiStutters
<1> QED
    BY <1>1, <1>2, <1>3, <1>4, <1>5 DEF MidiNext

\* What is announced, read, awaited, queued and enabled fits together.
THEOREM SpecMidiInv == MidiSpec => []MidiInv
BY InitMidiInv, StepMidiInv, PTL DEF MidiSpec

\* What the user enabled works, or is waited for: through unplugging, plugging in
\* and restarts (MidiDevices, EnabledDevicesWork).
THEOREM SpecEnabledDevicesWork == MidiSpec => []EnabledDevicesWork
<1>1. MidiInv => EnabledDevicesWork
    <2> SUFFICES ASSUME MidiInv, queue = <<>>, ~twice
                 PROVE  /\ wished \ failed \subseteq Kept /\ Kept \subseteq wished
                        /\ announced = <<>> =>
                            \A id \in DOMAIN midi_devices :
                                midi_devices[id].enabled =>
                                    /\ m_alsa_input_devices[id] \in subscribed
                                    /\ handler # Nothing =>
                                        EventsOf(m_alsa_input_devices[id]) = {id}
        BY DEF EnabledDevicesWork, WishesAreKept, EnabledDevicesAreHeard, Kept
    <2>1. OnceInv /\ MidiTypeOK /\ updates = <<>>
        BY DEF MidiInv, StartFits, RefreshFits
    <2>2. wished \ failed \subseteq Kept /\ Kept \subseteq wished
        BY <2>1, NothingWaits DEF OnceInv, WishesFit
    <2>3. ASSUME announced = <<>>, NEW id \in DOMAIN midi_devices, midi_devices[id].enabled
          PROVE  /\ m_alsa_input_devices[id] \in subscribed
                 /\ handler # Nothing => EventsOf(m_alsa_input_devices[id]) = {id}
        <3>1. Devices = midi_devices
            BY <2>1, SettledNow
        <3>2. Unannounced(m_alsa_input_devices[id])
            BY <2>3 DEF Unannounced
        <3>3. m_alsa_input_devices[id] \in subscribed
            BY <2>1, <2>3, <3>1, <3>2 DEF OnceInv, EnabledAreConnected
        <3>4. ASSUME handler # Nothing
              PROVE  /\ m_alsa_input_devices[id] \in DOMAIN handler
                     /\ handler[m_alsa_input_devices[id]] = id
            BY <2>1, <2>3, <3>1, <3>4 DEF OnceInv, EnabledAreConnected
        <3> QED
            BY <3>3, <3>4 DEF EventsOf
    <2> QED
        BY <2>2, <2>3
<1> QED
    BY <1>1, SpecMidiInv, PTL
=============================================================================
