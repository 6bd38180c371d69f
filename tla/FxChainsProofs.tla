--------------------------- MODULE FxChainsProofs ---------------------------
(***************************************************************************)
(* For any plugins and controls, any session, any results of the scan and  *)
(* any sequence of edits: the chains and the modules agree, what is        *)
(* selected exists, and the reload of missing plugins keeps every place    *)
(* and misses no module.  And, while the audio thread answers and nothing  *)
(* is removed that is being learned, the plugins that are loaded are those *)
(* of the modules and the engine runs no other, and every assignment is of *)
(* a parameter that exists.                                                *)
(*                                                                         *)
(* The argument is what a batch may hold in the middle of its reduction    *)
(* (PendingFits): one that aborts, one that only adds or holds one action, *)
(* or what is left of a reload, where the places that are still to come    *)
(* have moved by one while the module before is deleted and not loaded.    *)
(***************************************************************************)
EXTENDS FxChains, SequenceTheorems, FiniteSetTheorems, TLAPS

FxModule ==
    [kind : {"internal"}, plugin : {None}, midi : {None}]
    \cup [kind : {"ladspa"}, plugin : Plugin, midi : {None}]
    \cup [kind : {"missing"}, plugin : Plugin, midi : Control \cup {None}]

Action ==
    [do : {"insert_internal"}, chain : Nat, position : Nat, midi : Control \cup {None},
     show : BOOLEAN]
    \cup [do : {"load"}, chain : Nat, position : Nat, plugin : Plugin,
          midi : Control \cup {None}, show : BOOLEAN]
    \cup [do : {"delete_module"}, chain : Nat \cup {None}, module : Nat]
    \cup [do : {"unload"}, module : Nat]
    \cup [do : {"assign"}, id : {Main}, control : Control]
    \cup [do : {"delete_channel"}, channel : Nat]

StateType(s) ==
    /\ DOMAIN s = {"channels", "fx_modules", "fx_ladspa_instances", "midi_assignments",
                   "midi_learning", "focused"}
    /\ DOMAIN s.channels \subseteq Nat
    /\ \A c \in DOMAIN s.channels : s.channels[c] \in Seq(Nat)
    /\ DOMAIN s.fx_modules \subseteq Nat
    /\ \A m \in DOMAIN s.fx_modules : s.fx_modules[m] \in FxModule
    /\ DOMAIN s.midi_assignments \subseteq Nat
    /\ s.focused \in [chain : Nat \cup {None}, module : Nat \cup {None}]

TypeOK ==
    /\ StateType(st)
    /\ pending \in Seq(Action)
    /\ next_id \in Nat

\* The ids in use were given, below n, and no id is given twice.
IdsAreGiven(s, n) ==
    /\ Main \in Channels(s)
    /\ Channels(s) \cup Modules(s) \subseteq 0..n - 1

Stands(s, c, i, m) ==
    /\ c \in Channels(s) /\ i \in DOMAIN s.channels[c] /\ s.channels[c][i] = m

StandsIn(s, c, m) ==
    c \in Channels(s) /\ \E i \in DOMAIN s.channels[c] : s.channels[c][i] = m

\* Each module has one place, and what has a place is a module.
PlacesAgree(s) ==
    /\ \A c \in Channels(s) : \A i \in DOMAIN s.channels[c] : s.channels[c][i] \in Modules(s)
    /\ \A m \in Modules(s) : \E c \in Channels(s) : StandsIn(s, c, m)
    /\ \A c, d \in Channels(s) : \A i \in DOMAIN s.channels[c], j \in DOMAIN s.channels[d] :
        s.channels[c][i] = s.channels[d][j] => c = d /\ i = j

FocusResolves(s) ==
    \/ s.focused = [chain |-> None, module |-> None]
    \/ StandsIn(s, s.focused.chain, s.focused.module)

StateFits(s, n) ==
    StateType(s) /\ IdsAreGiven(s, n) /\ PlacesAgree(s) /\ FocusResolves(s)

\* The deletion of a channel with effects ends at its first action.
Aborts(p) ==
    /\ p # <<>> /\ p[1].do = "delete_module" /\ p[1].chain = None
    /\ \A k \in DOMAIN p : p[k].do \notin {"load", "unload"}

\* The session, or one action of the user and what it leaves to be unloaded.
Plain(s, p) ==
    \A k \in DOMAIN p :
        \/ /\ p[k].do \in {"insert_internal", "load"}
           /\ p[k].chain \in Channels(s) /\ p[k].position = npos
        \/ p[k].do = "assign"
        \/ Len(p) = 1 /\ p[k].do = "delete_module" /\ StandsIn(s, p[k].chain, p[k].module)
        \/ Len(p) = 1 /\ p[k].do = "unload" /\ p[k].module \notin Modules(s)
        \/ /\ Len(p) = 1 /\ p[k].do = "delete_channel"
           /\ p[k].channel \in Channels(s) \ {Main} /\ s.channels[p[k].channel] = <<>>

\* A plugin is unloaded only after the deletion that asked for it.
NoUnload(p) == \A k \in DOMAIN p : p[k].do # "unload"

\* Where the place k of the chain c is after the place i of the chain d was
\* closed, and after it was opened.
Down(c, k, d, i) == IF c = d /\ k > i THEN k - 1 ELSE k

Up(c, k, d, i) == IF c = d /\ k >= i THEN k + 1 ELSE k

\* While the plugin of the module before is still to be loaded, the places
\* behind it are one too low.
PlaceNow(p, c, q) ==
    IF p[1].do = "load" THEN Down(c, q, p[1].chain, p[1].position) ELSE q

\* What is left of a reload: deletions, each with the load into its place.
Paired(p) ==
    \A k \in DOMAIN p :
        \/ /\ p[k].do = "load" /\ p[k].position # npos
           /\ k > 1 => p[k - 1].do = "delete_module"
        \/ /\ p[k].do = "delete_module" /\ k + 1 \in DOMAIN p
           /\ p[k + 1].do = "load" /\ p[k + 1].chain = p[k].chain

Reload(s, p) ==
    /\ p # <<>> /\ Paired(p)
    /\ p[1].do = "load" =>
        p[1].chain \in Channels(s) /\ p[1].position \in 1..Len(s.channels[p[1].chain]) + 1
    /\ \A k \in DOMAIN p : p[k].do = "delete_module" =>
        /\ p[1].do = "load" => ~(p[k].chain = p[1].chain /\ p[k + 1].position = p[1].position)
        /\ Stands(s, p[k].chain, PlaceNow(p, p[k].chain, p[k + 1].position), p[k].module)
        /\ p[k].module \in OfKind(s, "missing")
    /\ \A j, k \in DOMAIN p :
        p[j].do = "delete_module" /\ p[k].do = "delete_module" /\ p[j].module = p[k].module
            => j = k

Fits(s, p) == Aborts(p) \/ Plain(s, p) \/ Reload(s, p)

\* A module that still waits is one whose plugin is not there, or one that is
\* going to be replaced.
Covers(s, p) ==
    \A m \in OfKind(s, "missing") :
        \/ s.fx_modules[m].plugin \notin fx_registry \cap Loadable
        \/ \E k \in DOMAIN p : p[k].do = "delete_module" /\ p[k].module = m

PendingFits == Fits(st, pending) /\ (scan = "done" => Covers(st, pending))

FxInv == TypeOK /\ StateFits(st, next_id) /\ PendingFits

-----------------------------------------------------------------------------
(* Sequences: a chain with an element inserted, and with one removed.      *)

LEMMA JoinedChain ==
  ASSUME NEW s \in Seq(Nat), NEW t \in Seq(Nat), NEW i \in Nat, Len(s) = i
  PROVE  /\ s \o t \in Seq(Nat) /\ Len(s \o t) = i + Len(t)
         /\ \A k \in 1..i : (s \o t)[k] = s[k]
         /\ \A k \in i + 1..i + Len(t) : (s \o t)[k] = t[k - i]
<1>1. /\ s \o t \in Seq(Nat)
      /\ Len(s \o t) = Len(s) + Len(t)
      /\ \A k \in 1..Len(s) + Len(t) :
           (s \o t)[k] = IF k <= Len(s) THEN s[k] ELSE t[k - Len(s)]
  BY ConcatProperties
<1>2. Len(t) \in Nat
  OBVIOUS
<1>3. \A k \in 1..i : (s \o t)[k] = s[k]
  BY <1>1, <1>2
<1>4. \A k \in i + 1..i + Len(t) : (s \o t)[k] = t[k - i]
  BY <1>1, <1>2
<1>5. QED
  BY <1>1, <1>3, <1>4

LEMMA InsertedChain ==
  ASSUME NEW s \in Seq(Nat), NEW i \in 1..Len(s) + 1, NEW m \in Nat
  PROVE  /\ InsertAt(s, i, m) \in Seq(Nat)
         /\ Len(InsertAt(s, i, m)) = Len(s) + 1
         /\ InsertAt(s, i, m)[i] = m
         /\ \A k \in 1..i - 1 : InsertAt(s, i, m)[k] = s[k]
         /\ \A k \in i + 1..Len(s) + 1 : InsertAt(s, i, m)[k] = s[k - 1]
<1> DEFINE left == SubSeq(s, 1, i - 1)
           right == SubSeq(s, i, Len(s))
           upto == left \o <<m>>
           all == upto \o right
<1>1. /\ left \in Seq(Nat) /\ Len(left) = i - 1
      /\ \A k \in 1..i - 1 : left[k] = s[k]
  BY SubSeqProperties
<1>2. /\ right \in Seq(Nat) /\ Len(right) = Len(s) - i + 1
      /\ \A k \in 1..Len(s) - i + 1 : right[k] = s[k + i - 1]
  BY SubSeqProperties
<1>3. InsertAt(s, i, m) = all
  BY DEF InsertAt
<1> HIDE DEF left, right
<1>4. /\ upto \in Seq(Nat) /\ Len(upto) = i
      /\ \A k \in 1..i : upto[k] = IF k = i THEN m ELSE s[k]
  BY <1>1
<1> HIDE DEF upto
<1> i \in Nat
  OBVIOUS
<1>5. /\ all \in Seq(Nat) /\ Len(all) = i + Len(right)
      /\ \A k \in 1..i : all[k] = upto[k]
      /\ \A k \in i + 1..i + Len(right) : all[k] = right[k - i]
  <2>1. upto \in Seq(Nat) /\ right \in Seq(Nat) /\ Len(upto) = i
    BY <1>2, <1>4
  <2>2. all \in Seq(Nat) /\ Len(all) = i + Len(right)
    BY <2>1, JoinedChain
  <2>3. \A k \in 1..i : all[k] = upto[k]
    BY <2>1, JoinedChain
  <2>4. \A k \in i + 1..i + Len(right) : all[k] = right[k - i]
    BY <2>1, JoinedChain
  <2>5. QED
    BY <2>2, <2>3, <2>4
<1> HIDE DEF all
<1>6. Len(s) \in Nat /\ Len(all) = Len(s) + 1
  BY <1>2, <1>5
<1>7. all[i] = m /\ \A k \in 1..i - 1 : all[k] = s[k]
  BY <1>4, <1>5
<1>8. ASSUME NEW k \in i + 1..Len(s) + 1
      PROVE  all[k] = s[k - 1]
  <2>1. all[k] = right[k - i]
    BY <1>2, <1>5, <1>6, k \in i + 1..i + Len(right)
  <2>2. k - i \in 1..Len(s) - i + 1
    BY <1>6
  <2>3. right[k - i] = s[k - i + i - 1] /\ k - i + i - 1 = k - 1
    BY <2>2, <1>2
  <2>4. QED
    BY <2>1, <2>3
<1>9. QED
  BY <1>3, <1>5, <1>6, <1>7, <1>8

LEMMA ShortenedChain ==
  ASSUME NEW s \in Seq(Nat), NEW i \in 1..Len(s)
  PROVE  /\ RemoveAt(s, i) \in Seq(Nat)
         /\ Len(RemoveAt(s, i)) = Len(s) - 1
         /\ \A k \in 1..i - 1 : RemoveAt(s, i)[k] = s[k]
         /\ \A k \in i..Len(s) - 1 : RemoveAt(s, i)[k] = s[k + 1]
<1> DEFINE left == SubSeq(s, 1, i - 1)
           right == SubSeq(s, i + 1, Len(s))
           all == left \o right
<1>1. /\ left \in Seq(Nat) /\ Len(left) = i - 1
      /\ \A k \in 1..i - 1 : left[k] = s[k]
  BY SubSeqProperties
<1>2. /\ right \in Seq(Nat) /\ Len(right) = Len(s) - i
      /\ \A k \in 1..Len(s) - i : right[k] = s[k + i]
  BY SubSeqProperties
<1>3. RemoveAt(s, i) = all
  BY DEF RemoveAt
<1> HIDE DEF left, right
<1> i - 1 \in Nat
  OBVIOUS
<1>4. /\ all \in Seq(Nat) /\ Len(all) = i - 1 + Len(right)
      /\ \A k \in 1..i - 1 : all[k] = left[k]
      /\ \A k \in i - 1 + 1..i - 1 + Len(right) : all[k] = right[k - (i - 1)]
  BY <1>1, <1>2, JoinedChain
<1> HIDE DEF all
<1>5. Len(s) \in Nat /\ Len(all) = Len(s) - 1
  BY <1>2, <1>4
<1>6. \A k \in 1..i - 1 : all[k] = s[k]
  BY <1>1, <1>4
<1>7. ASSUME NEW k \in i..Len(s) - 1
      PROVE  all[k] = s[k + 1]
  <2>1. all[k] = right[k - (i - 1)]
    BY <1>2, <1>4, <1>5, k \in i - 1 + 1..i - 1 + Len(right)
  <2>2. k - (i - 1) \in 1..Len(s) - i
    BY <1>5
  <2>3. right[k - (i - 1)] = s[k - (i - 1) + i] /\ k - (i - 1) + i = k + 1
    BY <2>2, <1>2
  <2>4. QED
    BY <2>1, <2>3
<1>8. QED
  BY <1>3, <1>4, <1>5, <1>6, <1>7

-----------------------------------------------------------------------------
(* The reducers.                                                           *)

\* t is s with a place i opened in the chain d.
Opens(s, t, d, i) ==
    /\ Channels(t) = Channels(s) /\ d \in Channels(s) /\ i \in Nat
    /\ i \in DOMAIN t.channels[d] /\ Len(t.channels[d]) = Len(s.channels[d]) + 1
    /\ \A c \in Channels(s) : \A k \in DOMAIN s.channels[c] :
        /\ Up(c, k, d, i) \in DOMAIN t.channels[c]
        /\ t.channels[c][Up(c, k, d, i)] = s.channels[c][k]
    /\ \A c \in Channels(s) : \A k \in DOMAIN t.channels[c] :
        \/ c = d /\ k = i
        \/ /\ Down(c, k, d, i) \in DOMAIN s.channels[c]
           /\ t.channels[c][k] = s.channels[c][Down(c, k, d, i)]

LEMMA ChainDomain ==
  ASSUME NEW s, StateType(s), NEW c \in Channels(s)
  PROVE  /\ s.channels[c] \in Seq(Nat) /\ Len(s.channels[c]) \in Nat
         /\ DOMAIN s.channels[c] = 1..Len(s.channels[c])
BY DEF StateType, Channels

\* Only the chain d changes, by one place.
LEMMA OpensFromChain ==
  ASSUME NEW s, NEW t, NEW d \in Channels(s), NEW n \in Nat, NEW i \in 1..n + 1,
         Channels(t) = Channels(s),
         \A c \in Channels(s) \ {d} : t.channels[c] = s.channels[c],
         DOMAIN s.channels[d] = 1..n, DOMAIN t.channels[d] = 1..n + 1,
         Len(t.channels[d]) = Len(s.channels[d]) + 1,
         \A k \in 1..i - 1 : t.channels[d][k] = s.channels[d][k],
         \A k \in i + 1..n + 1 : t.channels[d][k] = s.channels[d][k - 1]
  PROVE  Opens(s, t, d, i)
<1>1. /\ Channels(t) = Channels(s) /\ d \in Channels(s)
      /\ i \in Nat /\ i \in DOMAIN t.channels[d]
  OBVIOUS
<1>2. ASSUME NEW c \in Channels(s), NEW k \in DOMAIN s.channels[c]
      PROVE  /\ Up(c, k, d, i) \in DOMAIN t.channels[c]
             /\ t.channels[c][Up(c, k, d, i)] = s.channels[c][k]
  <2>1. CASE c # d
    BY <2>1 DEF Up
  <2>2. CASE c = d /\ k < i
    BY <2>2 DEF Up
  <2>3. CASE c = d /\ k >= i
    <3>1. k + 1 \in i + 1..n + 1 /\ k + 1 - 1 = k /\ Up(c, k, d, i) = k + 1
      BY <2>3 DEF Up
    <3>2. QED
      BY <2>3, <3>1
  <2>4. QED
    BY <2>1, <2>2, <2>3
<1>3. ASSUME NEW c \in Channels(s), NEW k \in DOMAIN t.channels[c], ~(c = d /\ k = i)
      PROVE  /\ Down(c, k, d, i) \in DOMAIN s.channels[c]
             /\ t.channels[c][k] = s.channels[c][Down(c, k, d, i)]
  <2>1. CASE c # d
    BY <2>1 DEF Down
  <2>2. CASE c = d /\ k < i
    BY <2>2 DEF Down
  <2>3. CASE c = d /\ k > i
    BY <2>3 DEF Down
  <2>4. QED
    BY <2>1, <2>2, <2>3, <1>3
<1>4. QED
  BY <1>1, <1>2, <1>3 DEF Opens

LEMMA InsertOpens ==
  ASSUME NEW s, StateType(s), NEW t, NEW d \in Channels(s), NEW m \in Nat,
         NEW i \in 1..Len(s.channels[d]) + 1,
         t.channels = [s.channels EXCEPT ![d] = InsertAt(@, i, m)]
  PROVE  /\ Opens(s, t, d, i) /\ t.channels[d][i] = m
         /\ \A c \in Channels(s) : t.channels[c] \in Seq(Nat)
<1> DEFINE old == s.channels[d]
           new == InsertAt(old, i, m)
           n == Len(old)
<1>1. /\ Channels(t) = Channels(s) /\ t.channels[d] = new
      /\ \A c \in Channels(s) \ {d} : t.channels[c] = s.channels[c]
  BY DEF Channels
<1>2. old \in Seq(Nat) /\ n \in Nat /\ DOMAIN old = 1..n
  BY ChainDomain
<1>3. i \in 1..Len(old) + 1
  OBVIOUS
<1> HIDE DEF old
<1>4. /\ new \in Seq(Nat) /\ Len(new) = n + 1 /\ new[i] = m
      /\ \A k \in 1..i - 1 : new[k] = old[k]
      /\ \A k \in i + 1..n + 1 : new[k] = old[k - 1]
  <2>1. new \in Seq(Nat)
    BY <1>2, <1>3, InsertedChain
  <2>2. Len(new) = n + 1
    BY <1>2, <1>3, InsertedChain
  <2>3. new[i] = m
    BY <1>2, <1>3, InsertedChain
  <2>4. \A k \in 1..i - 1 : new[k] = old[k]
    BY <1>2, <1>3, InsertedChain
  <2>5. \A k \in i + 1..n + 1 : new[k] = old[k - 1]
    BY <1>2, <1>3, InsertedChain
  <2>6. QED
    BY <2>1, <2>2, <2>3, <2>4, <2>5
<1> HIDE DEF new, n
<1>5. DOMAIN new = 1..n + 1
  BY <1>4
<1>6. \A c \in Channels(s) : t.channels[c] \in Seq(Nat)
  BY <1>1, <1>4, ChainDomain
<1>7. i \in 1..n + 1
  BY <1>3 DEF n
<1>8. /\ DOMAIN s.channels[d] = 1..n /\ DOMAIN t.channels[d] = 1..n + 1
      /\ Len(t.channels[d]) = Len(s.channels[d]) + 1
  BY <1>1, <1>2, <1>4, <1>5 DEF old, n
<1>9. Opens(s, t, d, i)
  BY <1>1, <1>2, <1>4, <1>7, <1>8, OpensFromChain DEF old
<1>10. QED
  BY <1>1, <1>4, <1>6, <1>9 DEF old, n

LEMMA RemoveCloses ==
  ASSUME NEW s, StateType(s), NEW t, NEW d \in Channels(s), NEW i \in 1..Len(s.channels[d]),
         t.channels = [s.channels EXCEPT ![d] = RemoveAt(@, i)]
  PROVE  /\ Opens(t, s, d, i)
         /\ \A c \in Channels(s) : t.channels[c] \in Seq(Nat)
<1> DEFINE old == s.channels[d]
           new == RemoveAt(old, i)
           n == Len(old)
<1>1. /\ Channels(t) = Channels(s) /\ t.channels[d] = new
      /\ \A c \in Channels(s) \ {d} : t.channels[c] = s.channels[c]
  BY DEF Channels
<1>2. old \in Seq(Nat) /\ n \in Nat /\ DOMAIN old = 1..n
  BY ChainDomain
<1>3. i \in 1..n
  OBVIOUS
<1> HIDE DEF old
<1>4. /\ new \in Seq(Nat) /\ Len(new) = n - 1
      /\ \A k \in 1..i - 1 : new[k] = old[k]
      /\ \A k \in i..n - 1 : new[k] = old[k + 1]
  BY <1>2, <1>3, ShortenedChain
<1> HIDE DEF new, n
<1>5. n - 1 \in Nat /\ n - 1 + 1 = n /\ DOMAIN new = 1..n - 1
  BY <1>2, <1>3, <1>4
<1>6. \A c \in Channels(s) : t.channels[c] \in Seq(Nat)
  BY <1>1, <1>4, ChainDomain
<1>7. \A k \in 1..i - 1 : old[k] = new[k]
  BY <1>2, <1>3, <1>4
<1>8. ASSUME NEW k \in i + 1..n
      PROVE  old[k] = new[k - 1]
  <2>1. k - 1 \in i..n - 1 /\ k - 1 + 1 = k
    BY <1>2, <1>3
  <2>2. QED
    BY <2>1, <1>4
<1>9. Opens(t, s, d, i)
  <2>1. d \in Channels(t) /\ \A c \in Channels(t) \ {d} : s.channels[c] = t.channels[c]
    BY <1>1
  <2>2. /\ DOMAIN t.channels[d] = 1..n - 1 /\ DOMAIN s.channels[d] = 1..n - 1 + 1
        /\ Len(s.channels[d]) = Len(t.channels[d]) + 1
    BY <1>1, <1>2, <1>4, <1>5 DEF old, n
  <2>3. /\ \A k \in 1..i - 1 : s.channels[d][k] = t.channels[d][k]
        /\ \A k \in i + 1..n - 1 + 1 : s.channels[d][k] = t.channels[d][k - 1]
    BY <1>1, <1>5, <1>7, <1>8 DEF old
  <2>4. i \in 1..n - 1 + 1
    BY <1>3, <1>5
  <2>5. QED
    BY <1>1, <1>5, <2>1, <2>2, <2>3, <2>4, OpensFromChain
<1>10. QED
  BY <1>1, <1>4, <1>6, <1>9 DEF old, n

\* The chains are sequences of ids: their places are numbers.
Chained(s) == \A c \in Channels(s) : s.channels[c] \in Seq(Nat)

LEMMA PlaceIsNat ==
  ASSUME NEW s, Chained(s), NEW c \in Channels(s), NEW k \in DOMAIN s.channels[c]
  PROVE  k \in Nat
BY DEF Chained

LEMMA PlacesAfterInsert ==
  ASSUME NEW s, NEW t, NEW d, NEW i, NEW m,
         Chained(s), Chained(t), PlacesAgree(s), Opens(s, t, d, i),
         t.channels[d][i] = m, m \notin Modules(s), Modules(t) = Modules(s) \cup {m}
  PROVE  PlacesAgree(t)
<1>1. Channels(t) = Channels(s) /\ d \in Channels(s) /\ i \in Nat /\ i \in DOMAIN t.channels[d]
  BY DEF Opens
<1>2. ASSUME NEW c \in Channels(t), NEW k \in DOMAIN t.channels[c]
      PROVE  /\ t.channels[c][k] \in Modules(t)
             /\ (c = d /\ k = i) <=> t.channels[c][k] = m
  <2>1. CASE c = d /\ k = i
    BY <2>1
  <2>2. CASE ~(c = d /\ k = i)
    <3>1. /\ Down(c, k, d, i) \in DOMAIN s.channels[c]
          /\ t.channels[c][k] = s.channels[c][Down(c, k, d, i)]
      BY <1>1, <2>2 DEF Opens
    <3>2. t.channels[c][k] \in Modules(s)
      BY <1>1, <3>1 DEF PlacesAgree
    <3>3. QED
      BY <2>2, <3>2
  <2>3. QED
    BY <2>1, <2>2
<1>3. ASSUME NEW n \in Modules(t)
      PROVE  \E c \in Channels(t) : StandsIn(t, c, n)
  <2>1. CASE n = m
    BY <2>1, <1>1 DEF StandsIn
  <2>2. CASE n \in Modules(s)
    <3>0. PICK c \in Channels(s) : StandsIn(s, c, n)
      BY <2>2 DEF PlacesAgree
    <3>1. PICK k \in DOMAIN s.channels[c] : s.channels[c][k] = n
      BY <3>0 DEF StandsIn
    <3>2. /\ Up(c, k, d, i) \in DOMAIN t.channels[c]
          /\ t.channels[c][Up(c, k, d, i)] = n
      BY <3>1 DEF Opens
    <3>3. QED
      BY <3>2, <1>1 DEF StandsIn
  <2>3. QED
    BY <2>1, <2>2
<1>4. ASSUME NEW c \in Channels(t), NEW e \in Channels(t),
             NEW k \in DOMAIN t.channels[c], NEW l \in DOMAIN t.channels[e],
             t.channels[c][k] = t.channels[e][l]
      PROVE  c = e /\ k = l
  <2>1. CASE t.channels[c][k] = m
    BY <2>1, <1>2, <1>4
  <2>2. CASE t.channels[c][k] # m
    <3>1. ~(c = d /\ k = i) /\ ~(e = d /\ l = i)
      BY <2>2, <1>2, <1>4
    <3>2. /\ Down(c, k, d, i) \in DOMAIN s.channels[c]
          /\ t.channels[c][k] = s.channels[c][Down(c, k, d, i)]
          /\ Down(e, l, d, i) \in DOMAIN s.channels[e]
          /\ t.channels[e][l] = s.channels[e][Down(e, l, d, i)]
      BY <3>1, <1>1 DEF Opens
    <3>3. c = e /\ Down(c, k, d, i) = Down(e, l, d, i)
      <4>1. s.channels[c][Down(c, k, d, i)] = s.channels[e][Down(e, l, d, i)]
        BY <3>2, <1>4
      <4>2. QED
        BY <4>1, <3>2, <1>1 DEF PlacesAgree
    <3>4. k \in Nat /\ l \in Nat
      BY PlaceIsNat
    <3>5. k = l
      BY <3>1, <3>3, <3>4, <1>1 DEF Down
    <3>6. QED
      BY <3>3, <3>5
  <2>3. QED
    BY <2>1, <2>2
<1>5. QED
  BY <1>2, <1>3, <1>4 DEF PlacesAgree

LEMMA PlacesAfterRemove ==
  ASSUME NEW s, NEW t, NEW d, NEW i, NEW m,
         Chained(s), Chained(t), PlacesAgree(s), Opens(t, s, d, i),
         s.channels[d][i] = m, Modules(t) = Modules(s) \ {m}
  PROVE  PlacesAgree(t)
<1>1. Channels(t) = Channels(s) /\ d \in Channels(s) /\ i \in Nat /\ i \in DOMAIN s.channels[d]
  BY DEF Opens
<1>2. ASSUME NEW c \in Channels(t), NEW k \in DOMAIN t.channels[c]
      PROVE  /\ Up(c, k, d, i) \in DOMAIN s.channels[c]
             /\ s.channels[c][Up(c, k, d, i)] = t.channels[c][k]
             /\ ~(c = d /\ Up(c, k, d, i) = i)
  <2>1. k \in Nat
    BY PlaceIsNat
  <2>2. QED
    BY <2>1, <1>1 DEF Opens, Up
<1>3. ASSUME NEW c \in Channels(t), NEW k \in DOMAIN t.channels[c]
      PROVE  t.channels[c][k] \in Modules(t)
  <2>1. s.channels[c][Up(c, k, d, i)] \in Modules(s)
    BY <1>1, <1>2 DEF PlacesAgree
  <2>2. s.channels[c][Up(c, k, d, i)] # m
    BY <1>1, <1>2 DEF PlacesAgree
  <2>3. QED
    BY <1>2, <2>1, <2>2
<1>4. ASSUME NEW n \in Modules(t)
      PROVE  \E c \in Channels(t) : StandsIn(t, c, n)
  <2>0. PICK c \in Channels(s) : StandsIn(s, c, n)
    BY DEF PlacesAgree
  <2>1. PICK k \in DOMAIN s.channels[c] : s.channels[c][k] = n
    BY <2>0 DEF StandsIn
  <2>2. ~(c = d /\ k = i)
    BY <2>1
  <2>3. /\ Down(c, k, d, i) \in DOMAIN t.channels[c]
        /\ s.channels[c][k] = t.channels[c][Down(c, k, d, i)]
    BY <2>2, <1>1 DEF Opens
  <2>4. QED
    BY <2>1, <2>3, <1>1 DEF StandsIn
<1>5. ASSUME NEW c \in Channels(t), NEW e \in Channels(t),
             NEW k \in DOMAIN t.channels[c], NEW l \in DOMAIN t.channels[e],
             t.channels[c][k] = t.channels[e][l]
      PROVE  c = e /\ k = l
  <2>1. c = e /\ Up(c, k, d, i) = Up(e, l, d, i)
    BY <1>1, <1>2, <1>5 DEF PlacesAgree
  <2>2. k \in Nat /\ l \in Nat
    BY PlaceIsNat
  <2>3. QED
    BY <2>1, <2>2, <1>1 DEF Up
<1>6. QED
  BY <1>3, <1>4, <1>5 DEF PlacesAgree

\* What each field of the state is after a module was inserted.
Inserted(s, t, a, m, module) ==
    /\ DOMAIN t = DOMAIN s
    /\ t.channels = [s.channels EXCEPT ![a.chain] = InsertAt(@, InsertPos(a.position, @), m)]
    /\ Channels(t) = Channels(s)
    /\ Modules(t) = Modules(s) \cup {m}
    /\ t.fx_modules[m] = module
    /\ \A n \in Modules(s) \ {m} : t.fx_modules[n] = s.fx_modules[n]
    /\ module.kind = "ladspa" => t.fx_ladspa_instances = s.fx_ladspa_instances \cup {m}
    /\ module.kind # "ladspa" => t.fx_ladspa_instances = s.fx_ladspa_instances
    /\ t.midi_assignments = IF module.kind = "missing" \/ a.midi = None
                            THEN s.midi_assignments
                            ELSE Assigned(s.midi_assignments, m, a.midi)
    /\ t.midi_learning = s.midi_learning
    /\ t.focused = IF module.kind # "missing" /\ a.show
                   THEN [chain |-> a.chain, module |-> m] ELSE s.focused

LEMMA InsertFields ==
  ASSUME NEW s, StateType(s), NEW a, a.chain \in Channels(s), NEW m, NEW module,
         NEW t, t = InsertModule(s, a, m, module)
  PROVE  Inserted(s, t, a, m, module)
<1>1. DOMAIN t = DOMAIN s
  BY DEF InsertModule, StateType
<1>2. t.channels = [s.channels EXCEPT ![a.chain] = InsertAt(@, InsertPos(a.position, @), m)]
  BY DEF InsertModule, StateType
<1>3. t.fx_modules = Added(s.fx_modules, m, module)
  BY DEF InsertModule, StateType
<1>4. /\ module.kind = "ladspa" => t.fx_ladspa_instances = s.fx_ladspa_instances \cup {m}
      /\ module.kind # "ladspa" => t.fx_ladspa_instances = s.fx_ladspa_instances
  BY DEF InsertModule, StateType
<1>5. t.midi_assignments = IF module.kind = "missing" \/ a.midi = None THEN s.midi_assignments
                           ELSE Assigned(s.midi_assignments, m, a.midi)
  BY DEF InsertModule, StateType
<1>6. t.midi_learning = s.midi_learning
  BY DEF InsertModule, StateType
<1>7. t.focused = IF module.kind # "missing" /\ a.show
                  THEN [chain |-> a.chain, module |-> m] ELSE s.focused
  BY DEF InsertModule, StateType
<1>8. Channels(t) = Channels(s)
  BY <1>2 DEF Channels
<1>9. /\ Modules(t) = Modules(s) \cup {m} /\ t.fx_modules[m] = module
      /\ \A n \in Modules(s) \ {m} : t.fx_modules[n] = s.fx_modules[n]
  BY <1>3 DEF Added, Modules
<1>10. QED
  BY <1>1, <1>2, <1>4, <1>5, <1>6, <1>7, <1>8, <1>9 DEF Inserted

\* A module inserted by an action of the batch, with an id that is not in use.
LEMMA InsertKeeps ==
  ASSUME NEW s, NEW n \in Nat, StateFits(s, n), NEW a, a.chain \in Channels(s),
         a.position \in Nat, NEW module \in FxModule,
         NEW t, t = InsertModule(s, a, n, module)
  PROVE  /\ StateFits(t, n + 1)
         /\ \E i \in 1..Len(s.channels[a.chain]) + 1 :
              /\ Opens(s, t, a.chain, i) /\ t.channels[a.chain][i] = n
              /\ a.position \in 1..Len(s.channels[a.chain]) + 1 => i = a.position
<1> DEFINE d == a.chain
           i == InsertPos(a.position, s.channels[d])
<1>1. StateType(s) /\ IdsAreGiven(s, n) /\ PlacesAgree(s) /\ FocusResolves(s)
  BY DEF StateFits
<1> Inserted(s, t, a, n, module)
  BY <1>1, InsertFields
<1>2. /\ s.channels[d] \in Seq(Nat) /\ Len(s.channels[d]) \in Nat
      /\ DOMAIN s.channels[d] = 1..Len(s.channels[d])
  BY <1>1, ChainDomain
<1>3. /\ i \in 1..Len(s.channels[d]) + 1
      /\ a.position \in 1..Len(s.channels[d]) + 1 => i = a.position
  BY <1>2 DEF InsertPos
<1>4. t.channels = [s.channels EXCEPT ![d] = InsertAt(@, i, n)]
  BY DEF Inserted
<1> HIDE DEF i
<1>5. /\ Opens(s, t, d, i) /\ t.channels[d][i] = n
      /\ \A c \in Channels(s) : t.channels[c] \in Seq(Nat)
  <2>1. Opens(s, t, d, i)
    BY <1>1, <1>3, <1>4, InsertOpens
  <2>2. t.channels[d][i] = n
    BY <1>1, <1>3, <1>4, InsertOpens
  <2>3. \A c \in Channels(s) : t.channels[c] \in Seq(Nat)
    BY <1>1, <1>3, <1>4, InsertOpens
  <2>4. QED
    BY <2>1, <2>2, <2>3
<1>6. Channels(t) = Channels(s) /\ Modules(t) = Modules(s) \cup {n}
  BY DEF Inserted
<1>7. Chained(s) /\ Chained(t) /\ n \notin Modules(s)
  BY <1>1, <1>5, <1>6 DEF Chained, StateType, Channels, IdsAreGiven
<1>8. PlacesAgree(t)
  BY <1>1, <1>5, <1>6, <1>7, PlacesAfterInsert
<1>9. IdsAreGiven(t, n + 1)
  BY <1>1, <1>6 DEF IdsAreGiven
<1>10. /\ DOMAIN t = DOMAIN s
       /\ DOMAIN t.midi_assignments \subseteq Nat
       /\ t.focused = s.focused \/ t.focused = [chain |-> d, module |-> n]
  <2>1. DOMAIN Assigned(s.midi_assignments, n, a.midi) \subseteq Nat
    BY <1>1 DEF Assigned, StateType
  <2>2. QED
    BY <2>1, <1>1 DEF Inserted, StateType
<1>11. \A m \in Modules(t) : t.fx_modules[m] \in FxModule
  BY <1>1, <1>6 DEF Inserted, StateType, Modules
<1>12. StateType(t)
  BY <1>1, <1>6, <1>7, <1>10, <1>11 DEF StateType, Channels, Modules, Chained
<1>13. FocusResolves(t)
  <2>1. CASE t.focused = [chain |-> d, module |-> n]
    BY <2>1, <1>5, <1>6 DEF FocusResolves, StandsIn, Opens
  <2>2. CASE t.focused = s.focused
    <3>1. CASE s.focused = [chain |-> None, module |-> None]
      BY <2>2, <3>1 DEF FocusResolves
    <3>2. CASE StandsIn(s, s.focused.chain, s.focused.module)
      <4>1. PICK k \in DOMAIN s.channels[s.focused.chain] :
              s.channels[s.focused.chain][k] = s.focused.module
        BY <3>2 DEF StandsIn
      <4>2. s.focused.chain \in Channels(s)
        BY <3>2 DEF StandsIn
      <4>3. /\ Up(s.focused.chain, k, d, i) \in DOMAIN t.channels[s.focused.chain]
            /\ t.channels[s.focused.chain][Up(s.focused.chain, k, d, i)] = s.focused.module
        BY <4>1, <4>2, <1>5 DEF Opens
      <4>4. QED
        BY <2>2, <4>2, <4>3, <1>6 DEF FocusResolves, StandsIn
    <3>3. QED
      BY <1>1, <3>1, <3>2 DEF FocusResolves
  <2>3. QED
    BY <1>10, <2>1, <2>2
<1>14. QED
  BY <1>3, <1>5, <1>8, <1>9, <1>12, <1>13 DEF StateFits

\* What each field of the state is after a module was deleted.
Deleted(s, t, c, m) ==
    /\ DOMAIN t = DOMAIN s
    /\ t.channels = [s.channels EXCEPT ![c] = RemoveAt(@, PlaceOf(m, @))]
    /\ Channels(t) = Channels(s)
    /\ Modules(t) = Modules(s) \ {m}
    /\ \A n \in Modules(t) : t.fx_modules[n] = s.fx_modules[n]
    /\ s.fx_ladspa_instances \ {m} \subseteq t.fx_ladspa_instances
    /\ t.midi_assignments = Unassigned(s.midi_assignments, m)
    /\ t.midi_learning = s.midi_learning
    /\ t.focused = FocusAfter(s, c, m)

LEMMA DeleteFields ==
  ASSUME NEW s, StateType(s), NEW c \in Channels(s), NEW m, NEW erased \in BOOLEAN,
         NEW t, t = DeleteFxModule(s, c, m, erased)
  PROVE  Deleted(s, t, c, m)
<1> DEFINE r == RemoveFxModule(s, c, m, erased)
<1>1. /\ DOMAIN r = DOMAIN s
      /\ r.channels = [s.channels EXCEPT ![c] = RemoveAt(@, PlaceOf(m, @))]
  BY DEF RemoveFxModule, StateType
<1>2. r.fx_modules = [n \in DOMAIN s.fx_modules \ {m} |-> s.fx_modules[n]]
  BY DEF RemoveFxModule, StateType
<1>3. r.midi_assignments = Unassigned(s.midi_assignments, m)
  BY DEF RemoveFxModule, StateType
<1>4. r.midi_learning = s.midi_learning
  BY DEF RemoveFxModule, StateType
<1>5. s.fx_ladspa_instances \ {m} \subseteq r.fx_ladspa_instances
  BY DEF RemoveFxModule, StateType
<1>6. t = [r EXCEPT !.focused = FocusAfter(s, c, m)]
  BY DEF DeleteFxModule
<1> HIDE DEF r
<1>7. /\ DOMAIN t = DOMAIN s /\ t.channels = r.channels /\ t.fx_modules = r.fx_modules
      /\ t.midi_assignments = r.midi_assignments /\ t.midi_learning = r.midi_learning
      /\ t.fx_ladspa_instances = r.fx_ladspa_instances
      /\ t.focused = FocusAfter(s, c, m)
  BY <1>1, <1>6 DEF StateType
<1>8. Channels(t) = Channels(s)
  BY <1>1, <1>7 DEF Channels
<1>9. Modules(t) = Modules(s) \ {m} /\ \A n \in Modules(t) : t.fx_modules[n] = s.fx_modules[n]
  BY <1>2, <1>7 DEF Modules
<1>10. QED
  BY <1>1, <1>3, <1>4, <1>5, <1>7, <1>8, <1>9 DEF Deleted

LEMMA PlaceOfModule ==
  ASSUME NEW s, PlacesAgree(s), NEW d, NEW i, NEW m, Stands(s, d, i, m)
  PROVE  PlaceOf(m, s.channels[d]) = i
<1> DEFINE p == PlaceOf(m, s.channels[d])
<1>1. p \in DOMAIN s.channels[d] /\ s.channels[d][p] = m
  BY DEF PlaceOf, Stands
<1>2. QED
  BY <1>1 DEF PlacesAgree, Stands

\* The focus after a module was deleted is on none or on one that is still there.
LEMMA FocusMoves ==
  ASSUME NEW s, NEW n, StateFits(s, n), NEW d, NEW i, NEW m \in Nat, Stands(s, d, i, m)
  PROVE  \/ FocusAfter(s, d, m) = [chain |-> None, module |-> None]
         \/ \E c \in Channels(s) : \E k \in DOMAIN s.channels[c] :
              /\ ~(c = d /\ k = i)
              /\ FocusAfter(s, d, m) = [chain |-> c, module |-> s.channels[c][k]]
<1> DEFINE f == s.focused
           chain == s.channels[d]
<1>1. StateType(s) /\ PlacesAgree(s) /\ FocusResolves(s)
  BY DEF StateFits
<1>2. f = [chain |-> f.chain, module |-> f.module]
  BY <1>1 DEF StateType
<1>3. /\ d \in Channels(s) /\ Len(chain) \in Nat /\ DOMAIN chain = 1..Len(chain)
      /\ i \in 1..Len(chain) /\ chain[i] = m
  BY <1>1, ChainDomain DEF Stands
<1>4. CASE f.module # m
  <2>1. FocusAfter(s, d, m) = f
    BY <1>4 DEF FocusAfter
  <2>2. CASE StandsIn(s, f.chain, f.module)
    <3>1. PICK k \in DOMAIN s.channels[f.chain] : s.channels[f.chain][k] = f.module
      BY <2>2 DEF StandsIn
    <3>2. f.chain \in Channels(s)
      BY <2>2 DEF StandsIn
    <3>3. ~(f.chain = d /\ k = i)
      BY <3>1, <1>3, <1>4
    <3>4. QED
      BY <2>1, <3>1, <3>2, <3>3, <1>2
  <2>3. QED
    BY <2>1, <2>2, <1>1 DEF FocusResolves
<1>5. CASE f.module = m /\ Len(chain) = 1
  BY <1>5 DEF FocusAfter
<1>6. CASE f.module = m /\ Len(chain) # 1
  <2>1. f.chain = d
    <3>1. f # [chain |-> None, module |-> None]
      BY <1>6, FxAssumption
    <3>2. StandsIn(s, f.chain, m)
      BY <3>1, <1>1, <1>6 DEF FocusResolves
    <3>3. QED
      BY <3>2, <1>1, <1>3 DEF StandsIn, PlacesAgree
  <2>2. PlaceOf(m, chain) = i
    BY <1>1, PlaceOfModule
  <2>3. PICK k \in DOMAIN chain : k # i /\ NextFocused(chain, m) = chain[k]
    <3>1. CASE i < Len(chain)
      <4>1. i + 1 \in DOMAIN chain /\ i + 1 # i
        BY <3>1, <1>3
      <4>2. NextFocused(chain, m) = chain[i + 1]
        BY <3>1, <2>2 DEF NextFocused
      <4>3. QED
        BY <4>1, <4>2
    <3>2. CASE i = Len(chain)
      <4>1. i - 1 \in DOMAIN chain /\ i - 1 # i
        <5> HIDE DEF chain
        <5>1. i # 1 /\ i \in 1..Len(chain) /\ Len(chain) \in Nat
          BY <3>2, <1>3, <1>6
        <5>2. i - 1 \in 1..Len(chain) /\ i - 1 # i
          BY <5>1
        <5>3. QED
          BY <5>2, <1>3
      <4>2. NextFocused(chain, m) = chain[i - 1]
        BY <3>2, <2>2, <1>3 DEF NextFocused
      <4>3. QED
        BY <4>1, <4>2
    <3>3. QED
      BY <3>1, <3>2, <1>3
  <2>4. FocusAfter(s, d, m) = [f EXCEPT !.module = chain[k]]
    BY <2>3, <1>6 DEF FocusAfter
  <2>5. FocusAfter(s, d, m) = [chain |-> d, module |-> chain[k]]
    BY <2>1, <2>4, <1>1 DEF StateType
  <2>6. QED
    BY <2>3, <2>5, <1>3
<1>7. QED
  BY <1>4, <1>5, <1>6

LEMMA DeleteKeeps ==
  ASSUME NEW s, NEW n, StateFits(s, n), NEW d, NEW i, NEW m, Stands(s, d, i, m),
         NEW erased \in BOOLEAN, NEW t, t = DeleteFxModule(s, d, m, erased)
  PROVE  StateFits(t, n) /\ Opens(t, s, d, i)
<1>1. StateType(s) /\ IdsAreGiven(s, n) /\ PlacesAgree(s) /\ FocusResolves(s)
  BY DEF StateFits
<1>2. /\ d \in Channels(s) /\ s.channels[d] \in Seq(Nat)
      /\ i \in 1..Len(s.channels[d]) /\ s.channels[d][i] = m
  BY <1>1, ChainDomain DEF Stands
<1>3. Deleted(s, t, d, m)
  BY <1>1, <1>2, DeleteFields
<1>4. t.channels = [s.channels EXCEPT ![d] = RemoveAt(@, i)]
  BY <1>1, <1>3, PlaceOfModule DEF Deleted
<1>5. Opens(t, s, d, i)
  BY <1>1, <1>2, <1>4, RemoveCloses
<1>6. \A c \in Channels(s) : t.channels[c] \in Seq(Nat)
  BY <1>1, <1>2, <1>4, RemoveCloses
<1>7. Channels(t) = Channels(s) /\ Modules(t) = Modules(s) \ {m}
  BY <1>3 DEF Deleted
<1>8. Chained(s) /\ Chained(t)
  BY <1>1, <1>6, <1>7 DEF Chained, StateType, Channels
<1>9. PlacesAgree(t)
  BY <1>1, <1>2, <1>5, <1>7, <1>8, PlacesAfterRemove
<1>10. IdsAreGiven(t, n)
  BY <1>1, <1>7 DEF IdsAreGiven
<1>11. m \in Nat
  BY <1>2
<1>12. \/ t.focused = [chain |-> None, module |-> None]
       \/ \E c \in Channels(s) : \E k \in DOMAIN s.channels[c] :
            ~(c = d /\ k = i) /\ t.focused = [chain |-> c, module |-> s.channels[c][k]]
  BY <1>3, <1>11, FocusMoves DEF Deleted
<1>13. FocusResolves(t)
  <2>1. ASSUME NEW c \in Channels(s), NEW k \in DOMAIN s.channels[c], ~(c = d /\ k = i),
               t.focused = [chain |-> c, module |-> s.channels[c][k]]
        PROVE  StandsIn(t, t.focused.chain, t.focused.module)
    <3>1. /\ Down(c, k, d, i) \in DOMAIN t.channels[c]
          /\ s.channels[c][k] = t.channels[c][Down(c, k, d, i)]
      BY <2>1, <1>5, <1>7 DEF Opens
    <3>2. QED
      BY <2>1, <3>1, <1>7 DEF StandsIn
  <2>2. QED
    BY <2>1, <1>12 DEF FocusResolves
<1>14. t.focused \in [chain : Nat \cup {None}, module : Nat \cup {None}]
  <2>1. ASSUME NEW c \in Channels(s), NEW k \in DOMAIN s.channels[c]
        PROVE  c \in Nat /\ s.channels[c][k] \in Nat
    <3>1. c \in Nat
      BY <1>1 DEF StateType, Channels
    <3>2. s.channels[c] \in Seq(Nat)
      BY <1>8 DEF Chained
    <3>3. QED
      BY <3>1, <3>2
  <2>2. ASSUME NEW c \in Channels(s), NEW k \in DOMAIN s.channels[c],
               t.focused = [chain |-> c, module |-> s.channels[c][k]]
        PROVE  t.focused \in [chain : Nat \cup {None}, module : Nat \cup {None}]
    BY <2>1, <2>2
  <2>3. CASE t.focused = [chain |-> None, module |-> None]
    BY <2>3
  <2>4. QED
    BY <2>2, <2>3, <1>12
<1>15. StateType(t)
  <2>1. DOMAIN t.midi_assignments \subseteq Nat
    BY <1>1, <1>3 DEF Deleted, Unassigned, StateType
  <2>2. \A k \in Modules(t) : t.fx_modules[k] \in FxModule
    BY <1>1, <1>3, <1>7 DEF Deleted, StateType, Modules
  <2>3. DOMAIN t = DOMAIN s
    BY <1>3 DEF Deleted
  <2>4. QED
    BY <2>1, <2>2, <2>3, <1>1, <1>7, <1>8, <1>14 DEF StateType, Channels, Modules, Chained
<1>16. QED
  BY <1>5, <1>9, <1>10, <1>13, <1>15 DEF StateFits

LEMMA RemoveChannelKeeps ==
  ASSUME NEW s, NEW n, StateFits(s, n), NEW c \in Channels(s) \ {Main},
         s.channels[c] = <<>>, NEW t, t = RemoveMixerChannel(s, c)
  PROVE  StateFits(t, n)
<1>1. StateType(s) /\ IdsAreGiven(s, n) /\ PlacesAgree(s) /\ FocusResolves(s)
  BY DEF StateFits
<1>2. /\ DOMAIN t = DOMAIN s
      /\ t.channels = [d \in DOMAIN s.channels \ {c} |-> s.channels[d]]
  BY <1>1 DEF RemoveMixerChannel, StateType
<1>3. t.fx_modules = s.fx_modules /\ t.focused = s.focused
  BY <1>1 DEF RemoveMixerChannel, StateType
<1>4. t.midi_assignments = Unassigned(s.midi_assignments, c)
  BY <1>1 DEF RemoveMixerChannel, StateType
<1>5. /\ Channels(t) = Channels(s) \ {c} /\ Modules(t) = Modules(s)
      /\ \A d \in Channels(t) : t.channels[d] = s.channels[d]
  BY <1>2, <1>3 DEF Channels, Modules
<1>6. \A i : i \notin DOMAIN s.channels[c]
  OBVIOUS
<1>7. \A d, m : StandsIn(s, d, m) => d \in Channels(t) /\ StandsIn(t, d, m)
  BY <1>5, <1>6 DEF StandsIn
<1>8. PlacesAgree(t)
  <2>1. \A m \in Modules(t) : \E d \in Channels(t) : StandsIn(t, d, m)
    BY <1>1, <1>5, <1>7 DEF PlacesAgree
  <2>2. QED
    BY <2>1, <1>1, <1>5 DEF PlacesAgree
<1>9. FocusResolves(t)
  BY <1>1, <1>3, <1>7 DEF FocusResolves
<1>10. IdsAreGiven(t, n)
  BY <1>1, <1>5 DEF IdsAreGiven
<1>11. StateType(t)
  <2>1. DOMAIN t.midi_assignments \subseteq Nat
    BY <1>1, <1>4 DEF Unassigned, StateType
  <2>2. \A d \in Channels(t) : t.channels[d] \in Seq(Nat)
    BY <1>1, <1>5 DEF StateType, Channels
  <2>3. QED
    BY <2>1, <2>2, <1>1, <1>2, <1>3, <1>5 DEF StateType, Channels, Modules
<1>12. QED
  BY <1>8, <1>9, <1>10, <1>11 DEF StateFits

\* Learning and assigning change no chain, module or focus.
LEMMA AssignKeeps ==
  ASSUME NEW s, NEW n, StateFits(s, n), NEW t, DOMAIN t = DOMAIN s,
         t.channels = s.channels, t.fx_modules = s.fx_modules, t.focused = s.focused,
         DOMAIN t.midi_assignments \subseteq Nat
  PROVE  StateFits(t, n)
<1>1. Channels(t) = Channels(s) /\ Modules(t) = Modules(s)
  BY DEF Channels, Modules
<1>2. StateType(t)
  BY DEF StateFits, StateType
<1>3. IdsAreGiven(t, n)
  BY <1>1 DEF StateFits, IdsAreGiven
<1>4. \A c, m : StandsIn(t, c, m) <=> StandsIn(s, c, m)
  BY <1>1 DEF StandsIn
<1>5. PlacesAgree(t)
  BY <1>1, <1>4 DEF StateFits, PlacesAgree
<1>6. FocusResolves(t)
  BY <1>4 DEF StateFits, FocusResolves
<1>7. QED
  BY <1>2, <1>3, <1>5, <1>6 DEF StateFits

LEMMA AddChannelKeeps ==
  ASSUME NEW s, NEW n \in Nat, StateFits(s, n),
         NEW t, t = [s EXCEPT !.channels = Added(@, n, <<>>)]
  PROVE  StateFits(t, n + 1)
<1>1. StateType(s) /\ IdsAreGiven(s, n) /\ PlacesAgree(s) /\ FocusResolves(s)
  BY DEF StateFits
<1>2. /\ DOMAIN t = DOMAIN s /\ t.channels = Added(s.channels, n, <<>>)
      /\ t.fx_modules = s.fx_modules /\ t.focused = s.focused
      /\ t.midi_assignments = s.midi_assignments
  BY <1>1 DEF StateType
<1>3. n \notin Channels(s)
  BY <1>1 DEF IdsAreGiven
<1>4. /\ Channels(t) = Channels(s) \cup {n} /\ Modules(t) = Modules(s)
      /\ \A c \in Channels(s) : t.channels[c] = s.channels[c]
      /\ t.channels[n] = <<>>
  BY <1>2, <1>3 DEF Channels, Modules, Added
<1>5. \A i : i \notin DOMAIN t.channels[n]
  BY <1>4
<1>6. \A c, m : StandsIn(s, c, m) => c \in Channels(t) /\ StandsIn(t, c, m)
  BY <1>4 DEF StandsIn
<1>7. PlacesAgree(t)
  <2>1. \A m \in Modules(t) : \E c \in Channels(t) : StandsIn(t, c, m)
    BY <1>1, <1>4, <1>6 DEF PlacesAgree
  <2>2. \A c \in Channels(t) : \A i \in DOMAIN t.channels[c] : c \in Channels(s)
    BY <1>4, <1>5
  <2>3. QED
    BY <2>1, <2>2, <1>1, <1>4 DEF PlacesAgree
<1>8. FocusResolves(t)
  BY <1>1, <1>2, <1>6 DEF FocusResolves
<1>9. IdsAreGiven(t, n + 1)
  BY <1>1, <1>4 DEF IdsAreGiven
<1>10. StateType(t)
  <2>1. \A c \in Channels(s) : t.channels[c] \in Seq(Nat)
    BY <1>1, <1>4 DEF StateType, Channels
  <2>2. <<>> \in Seq(Nat)
    BY EmptySeq
  <2>3. t.channels[n] \in Seq(Nat)
    BY <2>2, <1>4
  <2>4. QED
    BY <2>1, <2>3, <1>1, <1>2, <1>4 DEF StateType, Channels, Modules
<1>11. QED
  BY <1>7, <1>8, <1>9, <1>10 DEF StateFits

LEMMA FocusKeeps ==
  ASSUME NEW s, NEW n, StateFits(s, n), NEW c, NEW m, StandsIn(s, c, m),
         NEW t, t = [s EXCEPT !.focused = [chain |-> c, module |-> m]]
  PROVE  StateFits(t, n)
<1>1. StateType(s) /\ IdsAreGiven(s, n) /\ PlacesAgree(s)
  BY DEF StateFits
<1>2. /\ DOMAIN t = DOMAIN s /\ t.channels = s.channels
      /\ t.fx_modules = s.fx_modules /\ t.midi_assignments = s.midi_assignments
      /\ t.focused = [chain |-> c, module |-> m]
  BY <1>1 DEF StateType
<1>3. Channels(t) = Channels(s) /\ Modules(t) = Modules(s)
  BY <1>2 DEF Channels, Modules
<1>4. \A d, k : StandsIn(t, d, k) <=> StandsIn(s, d, k)
  BY <1>2, <1>3 DEF StandsIn
<1>5. PlacesAgree(t)
  BY <1>1, <1>2, <1>3, <1>4 DEF PlacesAgree
<1>6. FocusResolves(t)
  BY <1>2, <1>4 DEF FocusResolves
<1>7. IdsAreGiven(t, n)
  BY <1>1, <1>3 DEF IdsAreGiven
<1>8. c \in Nat /\ m \in Nat
  <2>1. c \in Channels(s) /\ s.channels[c] \in Seq(Nat)
    BY <1>1 DEF StandsIn, StateType, Channels
  <2>2. c \in Nat
    BY <2>1, <1>1 DEF StateType, Channels
  <2>3. QED
    BY <2>1, <2>2 DEF StandsIn
<1>9. StateType(t)
  BY <1>1, <1>2, <1>8 DEF StateType
<1>10. QED
  BY <1>5, <1>6, <1>7, <1>9 DEF StateFits

\* Two modules of a chain change places.
LEMMA MoveKeeps ==
  ASSUME NEW s, NEW n, StateFits(s, n), NEW c \in Channels(s),
         NEW i \in DOMAIN s.channels[c], NEW j \in DOMAIN s.channels[c],
         NEW t, t = [s EXCEPT !.channels[c][i] = s.channels[c][j],
                              !.channels[c][j] = s.channels[c][i]]
  PROVE  StateFits(t, n)
<1> DEFINE chain == s.channels[c]
           swap(d, k) == IF d = c /\ k = i THEN j ELSE IF d = c /\ k = j THEN i ELSE k
<1>1. StateType(s) /\ IdsAreGiven(s, n) /\ PlacesAgree(s) /\ FocusResolves(s)
  BY DEF StateFits
<1>2. DOMAIN t = DOMAIN s
  BY <1>1 DEF StateType
<1>3. t.fx_modules = s.fx_modules /\ t.midi_assignments = s.midi_assignments
  BY <1>1 DEF StateType
<1>4. t.focused = s.focused
  BY <1>1 DEF StateType
<1>5. /\ DOMAIN t.channels = DOMAIN s.channels
      /\ \A d \in Channels(s) \ {c} : t.channels[d] = s.channels[d]
      /\ t.channels[c] = [[chain EXCEPT ![i] = chain[j]] EXCEPT ![j] = chain[i]]
  BY <1>1 DEF StateType, Channels
<1>6. Channels(t) = Channels(s) /\ Modules(t) = Modules(s)
  BY <1>3, <1>5 DEF Channels, Modules
<1>7. /\ chain \in Seq(Nat) /\ t.channels[c] \in Seq(Nat)
      /\ DOMAIN t.channels[c] = DOMAIN chain
      /\ \A k \in DOMAIN chain : t.channels[c][k] = chain[swap(c, k)]
  <2>1. chain \in Seq(Nat)
    BY <1>1 DEF StateType, Channels
  <2> HIDE DEF chain
  <2>2. i \in DOMAIN chain /\ j \in DOMAIN chain
    BY DEF chain
  <2>3. /\ t.channels[c] \in Seq(Nat) /\ DOMAIN t.channels[c] = DOMAIN chain
        /\ \A k \in DOMAIN chain : t.channels[c][k] =
             IF k = j THEN chain[i] ELSE IF k = i THEN chain[j] ELSE chain[k]
    <3>1. chain[i] \in Nat /\ chain[j] \in Nat
      BY <2>1, <2>2
    <3> DEFINE half == [chain EXCEPT ![i] = chain[j]]
               new == [half EXCEPT ![j] = chain[i]]
    <3>2. half \in Seq(Nat) /\ DOMAIN half = DOMAIN chain
      <4>1. Len(chain) \in Nat /\ DOMAIN chain = 1..Len(chain) /\ chain \in [1..Len(chain) -> Nat]
        BY <2>1, LenProperties
      <4>2. half \in [1..Len(chain) -> Nat]
        BY <4>1, <2>2, <3>1
      <4>3. QED
        BY <4>1, <4>2, SeqDef
    <3>3. new \in Seq(Nat) /\ DOMAIN new = DOMAIN chain
      <4>1. Len(chain) \in Nat /\ DOMAIN chain = 1..Len(chain)
        BY <2>1, LenProperties
      <4>2. half \in [1..Len(chain) -> Nat]
        BY <4>1, <3>2, LenProperties
      <4> HIDE DEF half
      <4>3. new \in [1..Len(chain) -> Nat]
        BY <4>1, <4>2, <2>2, <3>1
      <4> HIDE DEF new
      <4>4. QED
        BY <4>1, <4>3, SeqDef
    <3>4. \A k \in DOMAIN chain : new[k] =
             IF k = j THEN chain[i] ELSE IF k = i THEN chain[j] ELSE chain[k]
      BY <2>2
    <3>5. t.channels[c] = new
      BY <1>5
    <3> HIDE DEF new
    <3>6. QED
      BY <3>3, <3>4, <3>5
  <2>4. QED
    BY <2>1, <2>2, <2>3 DEF chain
<1>8. ASSUME NEW d \in Channels(s)
      PROVE  /\ DOMAIN t.channels[d] = DOMAIN s.channels[d]
             /\ \A k \in DOMAIN s.channels[d] :
                  /\ swap(d, k) \in DOMAIN s.channels[d] /\ swap(d, swap(d, k)) = k
                  /\ t.channels[d][k] = s.channels[d][swap(d, k)]
  <2>1. CASE d = c
    BY <2>1, <1>7
  <2>2. CASE d # c
    BY <2>2, <1>5
  <2>3. QED
    BY <2>1, <2>2
<1> HIDE DEF swap
<1>9. \A d, m : StandsIn(s, d, m) => StandsIn(t, d, m)
  <2> SUFFICES ASSUME NEW d, NEW m, StandsIn(s, d, m)
               PROVE  StandsIn(t, d, m)
    OBVIOUS
  <2>1. PICK k \in DOMAIN s.channels[d] : s.channels[d][k] = m
    BY DEF StandsIn
  <2>2. d \in Channels(s)
    BY DEF StandsIn
  <2>3. swap(d, k) \in DOMAIN t.channels[d] /\ t.channels[d][swap(d, k)] = m
    BY <2>1, <2>2, <1>8
  <2>4. QED
    BY <2>2, <2>3, <1>6 DEF StandsIn
<1>10. PlacesAgree(t)
  <2>1. \A d \in Channels(t) : \A k \in DOMAIN t.channels[d] : t.channels[d][k] \in Modules(t)
    <3> SUFFICES ASSUME NEW d \in Channels(s), NEW k \in DOMAIN s.channels[d]
                 PROVE  t.channels[d][k] \in Modules(s)
      BY <1>6, <1>8
    <3>1. swap(d, k) \in DOMAIN s.channels[d] /\ t.channels[d][k] = s.channels[d][swap(d, k)]
      BY <1>8
    <3>2. QED
      BY <3>1, <1>1 DEF PlacesAgree
  <2>2. \A m \in Modules(t) : \E d \in Channels(t) : StandsIn(t, d, m)
    BY <1>1, <1>6, <1>9 DEF PlacesAgree
  <2>3. ASSUME NEW d \in Channels(t), NEW e \in Channels(t),
               NEW k \in DOMAIN t.channels[d], NEW l \in DOMAIN t.channels[e],
               t.channels[d][k] = t.channels[e][l]
        PROVE  d = e /\ k = l
    <3>1. s.channels[d][swap(d, k)] = s.channels[e][swap(e, l)]
      BY <2>3, <1>6, <1>8
    <3>2. d = e /\ swap(d, k) = swap(e, l)
      <4>1. /\ d \in Channels(s) /\ e \in Channels(s)
            /\ swap(d, k) \in DOMAIN s.channels[d] /\ swap(e, l) \in DOMAIN s.channels[e]
        BY <1>6, <1>8
      <4>2. QED
        BY <3>1, <4>1, <1>1 DEF PlacesAgree
    <3>3. swap(d, swap(d, k)) = k /\ swap(e, swap(e, l)) = l
      BY <1>6, <1>8
    <3>4. QED
      BY <3>2, <3>3
  <2>4. QED
    BY <2>1, <2>2, <2>3 DEF PlacesAgree
<1>11. FocusResolves(t)
  BY <1>1, <1>4, <1>9 DEF FocusResolves
<1>12. IdsAreGiven(t, n)
  BY <1>1, <1>6 DEF IdsAreGiven
<1>13. StateType(t)
  <2>1. \A d \in Channels(t) : t.channels[d] \in Seq(Nat)
    BY <1>1, <1>5, <1>6, <1>7 DEF StateType, Channels
  <2>2. QED
    BY <2>1, <1>1, <1>2, <1>3, <1>4, <1>5, <1>6 DEF StateType, Channels, Modules
<1>14. QED
  BY <1>10, <1>11, <1>12, <1>13 DEF StateFits

-----------------------------------------------------------------------------
(* The batch.                                                              *)

\* q is p without its first action.
Rest(p, q) ==
    /\ q \in Seq(Action) /\ Len(p) \in Nat \ {0}
    /\ DOMAIN p = 1..Len(p) /\ DOMAIN q = 1..Len(p) - 1
    /\ Head(p) = p[1]
    /\ \A k \in DOMAIN q : q[k] = p[k + 1]

LEMMA TailIsRest ==
  ASSUME NEW p \in Seq(Action), p # <<>>
  PROVE  Rest(p, Tail(p))
<1>1. /\ Head(p) = p[1] /\ Tail(p) \in Seq(Action) /\ Len(Tail(p)) = Len(p) - 1
      /\ \A k \in 1..Len(Tail(p)) : Tail(p)[k] = p[k + 1]
  <2>1. Tail(p) \in Seq(Action) /\ Len(Tail(p)) = Len(p) - 1
    BY HeadTailProperties
  <2>2. \A k \in 1..Len(Tail(p)) : Tail(p)[k] = p[k + 1]
    BY HeadTailProperties
  <2>3. Head(p) = p[1]
    OBVIOUS
  <2>4. QED
    BY <2>1, <2>2, <2>3
<1>2. Len(p) \in Nat \ {0} /\ DOMAIN p = 1..Len(p)
  BY EmptySeq, LenProperties
<1>3. DOMAIN Tail(p) = 1..Len(p) - 1
  BY <1>1, LenProperties
<1>4. QED
  BY <1>1, <1>2, <1>3 DEF Rest

LEMMA ActionFields ==
  ASSUME NEW a \in Action
  PROVE  /\ a.do \in {"insert_internal", "load", "delete_module", "unload", "assign",
                      "delete_channel"}
         /\ a.do \in {"insert_internal", "load"} => a.chain \in Nat /\ a.position \in Nat
         /\ a.do = "load" => a.plugin \in Plugin /\ a.midi \in Control \cup {None}
         /\ a.do = "delete_module" => a.chain \in Nat \cup {None} /\ a.module \in Nat
         /\ a.do = "assign" => a.id = Main /\ a.control \in Control
BY DEF Action

\* The actions of a session follow each other; every other one is alone.
LEMMA PlainRest ==
  ASSUME NEW s, NEW t, NEW p, NEW q, Rest(p, q), Plain(s, p),
         Len(p) # 1 => Channels(t) = Channels(s)
  PROVE  Plain(t, q)
<1> SUFFICES ASSUME NEW k \in DOMAIN q
             PROVE  \/ /\ q[k].do \in {"insert_internal", "load"}
                       /\ q[k].chain \in Channels(t) /\ q[k].position = npos
                    \/ q[k].do = "assign"
  BY DEF Plain
<1>1. Len(p) # 1 /\ k + 1 \in DOMAIN p /\ q[k] = p[k + 1]
  BY DEF Rest
<1>2. QED
  BY <1>1 DEF Plain

\* A deletion of a reload leaves the load into the place that was closed.
LEMMA ReloadAfterDelete ==
  ASSUME NEW s, NEW t, Chained(s), Chained(t), NEW p \in Seq(Action), NEW q, Rest(p, q),
         PlacesAgree(s), Reload(s, p), p[1].do = "delete_module", NEW i,
         Stands(s, p[1].chain, i, p[1].module), Opens(t, s, p[1].chain, i),
         Modules(t) = Modules(s) \ {p[1].module},
         \A m \in Modules(t) : t.fx_modules[m] = s.fx_modules[m]
  PROVE  Reload(t, q)
<1> DEFINE d == p[1].chain
<1>1. 1 \in DOMAIN p /\ 2 \in DOMAIN p /\ p[2].do = "load" /\ p[2].chain = d
  BY DEF Reload, Paired, Rest
<1>2. 1 \in DOMAIN q /\ q[1] = p[2] /\ q # <<>>
  BY <1>1 DEF Rest
<1>3. \A k \in DOMAIN q : k \in Nat /\ k >= 1 /\ k + 1 \in DOMAIN p /\ q[k] = p[k + 1]
  BY DEF Rest
<1>4. i = p[2].position
  <2>1. Stands(s, d, p[2].position, p[1].module)
    BY <1>1 DEF Reload, PlaceNow
  <2>2. QED
    BY <2>1 DEF Stands, PlacesAgree
<1>5. /\ d \in Channels(s) /\ Channels(t) = Channels(s) /\ i \in Nat
      /\ i \in DOMAIN s.channels[d] /\ Len(s.channels[d]) = Len(t.channels[d]) + 1
  BY DEF Opens
<1>6. Paired(q)
  <2> SUFFICES ASSUME NEW k \in DOMAIN q
               PROVE  \/ /\ q[k].do = "load" /\ q[k].position # npos
                         /\ k > 1 => q[k - 1].do = "delete_module"
                      \/ /\ q[k].do = "delete_module" /\ k + 1 \in DOMAIN q
                         /\ q[k + 1].do = "load" /\ q[k + 1].chain = q[k].chain
    BY DEF Paired
  <2>1. CASE p[k + 1].do = "load"
    <3>1. p[k + 1].position # npos /\ p[k].do = "delete_module"
      <4>1. k + 1 > 1 /\ k + 1 - 1 = k
        BY <1>3
      <4>2. QED
        BY <2>1, <1>3, <4>1 DEF Reload, Paired
    <3>2. k > 1 => k - 1 \in DOMAIN q /\ q[k - 1] = p[k]
      <4>1. k > 1 => k - 1 \in DOMAIN q /\ k - 1 + 1 = k
        BY <1>3 DEF Rest
      <4>2. QED
        BY <4>1, <1>3
    <3>3. QED
      BY <2>1, <3>1, <3>2, <1>3
  <2>2. CASE p[k + 1].do = "delete_module"
    <3>1. k + 1 + 1 \in DOMAIN p /\ p[k + 1 + 1].do = "load"
          /\ p[k + 1 + 1].chain = p[k + 1].chain
      BY <2>2, <1>3 DEF Reload, Paired
    <3>2. k + 1 \in DOMAIN q
      BY <3>1, <1>3 DEF Rest
    <3>3. QED
      BY <2>2, <3>1, <3>2, <1>3
  <2>3. QED
    BY <2>1, <2>2, <1>3 DEF Reload, Paired
<1>7. q[1].chain \in Channels(t) /\ q[1].position \in 1..Len(t.channels[q[1].chain]) + 1
  <2>1. q[1].chain = d /\ q[1].position = i
    BY <1>1, <1>2, <1>4
  <2>2. /\ t.channels[d] \in Seq(Nat) /\ Len(t.channels[d]) \in Nat
        /\ DOMAIN s.channels[d] = 1..Len(s.channels[d])
    BY <1>5 DEF Chained
  <2>3. QED
    BY <2>1, <2>2, <1>5
<1>8. ASSUME NEW k \in DOMAIN q, q[k].do = "delete_module"
      PROVE  /\ ~(q[k].chain = q[1].chain /\ q[k + 1].position = q[1].position)
             /\ Stands(t, q[k].chain, PlaceNow(q, q[k].chain, q[k + 1].position), q[k].module)
             /\ q[k].module \in OfKind(t, "missing")
  <2> DEFINE c == q[k].chain
             l == q[k + 1].position
             m == q[k].module
  <2>1. k + 1 \in DOMAIN q /\ q[k + 1] = p[k + 1 + 1]
    BY <1>3, <1>6, <1>8 DEF Paired
  <2>2. Stands(s, c, l, m) /\ m \in OfKind(s, "missing")
    <3>1. p[k + 1].do = "delete_module" /\ k + 1 \in DOMAIN p
      BY <1>3, <1>8
    <3>2. Stands(s, p[k + 1].chain, PlaceNow(p, p[k + 1].chain, p[k + 1 + 1].position),
                 p[k + 1].module)
      BY <3>1 DEF Reload
    <3>3. p[k + 1].module \in OfKind(s, "missing")
      BY <3>1 DEF Reload
    <3>4. PlaceNow(p, p[k + 1].chain, p[k + 1 + 1].position) = l
      BY <2>1 DEF PlaceNow
    <3>5. p[k + 1] = q[k]
      BY <1>3
    <3>6. QED
      BY <3>2, <3>3, <3>4, <3>5
  <2>3. m # p[1].module
    <3>1. p[k + 1].do = "delete_module" /\ k + 1 \in DOMAIN p /\ p[k + 1].module = m /\ k + 1 # 1
      BY <1>3, <1>8
    <3>2. QED
      BY <3>1, <1>1 DEF Reload
  <2>4. ~(c = d /\ l = i)
    BY <2>2, <2>3 DEF Stands
  <2>5. Stands(t, c, Down(c, l, d, i), m)
    BY <2>2, <2>4, <1>5 DEF Opens, Stands
  <2>6. PlaceNow(q, c, l) = Down(c, l, d, i)
    BY <1>1, <1>2, <1>4 DEF PlaceNow
  <2>7. m \in OfKind(t, "missing")
    BY <2>2, <2>3 DEF OfKind
  <2>8. QED
    BY <2>4, <2>5, <2>6, <2>7, <1>1, <1>2, <1>4
<1>9. ASSUME NEW j \in DOMAIN q, NEW k \in DOMAIN q, q[j].do = "delete_module",
             q[k].do = "delete_module", q[j].module = q[k].module
      PROVE  j = k
  <2>1. j + 1 = k + 1
    BY <1>3, <1>9 DEF Reload
  <2>2. QED
    BY <2>1, <1>3
<1>10. QED
  BY <1>2, <1>6, <1>7, <1>8, <1>9 DEF Reload

\* The load of a reload opens the place again, and every later one is right.
LEMMA ReloadAfterLoad ==
  ASSUME NEW s, NEW t, Chained(s), NEW p \in Seq(Action), NEW q, Rest(p, q), q # <<>>,
         Reload(s, p), p[1].do = "load", Opens(s, t, p[1].chain, p[1].position),
         NEW n, Modules(t) = Modules(s) \cup {n}, n \notin Modules(s),
         \A m \in Modules(s) : t.fx_modules[m] = s.fx_modules[m]
  PROVE  Reload(t, q)
<1> DEFINE d == p[1].chain
           i == p[1].position
<1>1. \A k \in DOMAIN q : k \in Nat /\ k >= 1 /\ k + 1 \in DOMAIN p /\ q[k] = p[k + 1]
  BY DEF Rest
<1>2. Channels(t) = Channels(s) /\ d \in Channels(s) /\ i \in Nat
  BY DEF Opens
<1>3. 1 \in DOMAIN q /\ q[1] = p[2] /\ q[1].do = "delete_module"
  <2>1. 1 \in DOMAIN q /\ q[1] = p[2]
    <3>1. Len(q) # 0
      BY EmptySeq DEF Rest
    <3>2. 1 \in DOMAIN q
      BY <3>1, LenProperties DEF Rest
    <3>3. QED
      BY <3>2, <1>1
  <2>2. 2 \in DOMAIN p /\ ~(p[2].do = "load" /\ p[1].do = "delete_module")
    BY <2>1, <1>1
  <2>3. p[2].do = "delete_module"
    <3>1. p[2].do = "load" => p[2 - 1].do = "delete_module"
      BY <2>2 DEF Reload, Paired
    <3>2. p[2].do \in {"load", "delete_module"}
      BY <2>2 DEF Reload, Paired
    <3>3. QED
      BY <2>2, <3>1, <3>2
  <2>4. QED
    BY <2>1, <2>3
<1>4. Paired(q)
  <2> SUFFICES ASSUME NEW k \in DOMAIN q
               PROVE  \/ /\ q[k].do = "load" /\ q[k].position # npos
                         /\ k > 1 => q[k - 1].do = "delete_module"
                      \/ /\ q[k].do = "delete_module" /\ k + 1 \in DOMAIN q
                         /\ q[k + 1].do = "load" /\ q[k + 1].chain = q[k].chain
    BY DEF Paired
  <2>1. CASE p[k + 1].do = "load"
    <3>1. p[k + 1].position # npos /\ p[k].do = "delete_module"
      <4>1. k + 1 > 1 /\ k + 1 - 1 = k
        BY <1>1
      <4>2. QED
        BY <2>1, <1>1, <4>1 DEF Reload, Paired
    <3>2. k > 1 => k - 1 \in DOMAIN q /\ q[k - 1] = p[k]
      <4>1. k > 1 => k - 1 \in DOMAIN q /\ k - 1 + 1 = k
        BY <1>1 DEF Rest
      <4>2. QED
        BY <4>1, <1>1
    <3>3. QED
      BY <2>1, <3>1, <3>2, <1>1
  <2>2. CASE p[k + 1].do = "delete_module"
    <3>1. k + 1 + 1 \in DOMAIN p /\ p[k + 1 + 1].do = "load"
          /\ p[k + 1 + 1].chain = p[k + 1].chain
      BY <2>2, <1>1 DEF Reload, Paired
    <3>2. k + 1 \in DOMAIN q
      BY <3>1, <1>1 DEF Rest
    <3>3. QED
      BY <2>2, <3>1, <3>2, <1>1
  <2>3. QED
    BY <2>1, <2>2, <1>1 DEF Reload, Paired
<1>5. ASSUME NEW k \in DOMAIN q, q[k].do = "delete_module"
      PROVE  /\ Stands(t, q[k].chain, PlaceNow(q, q[k].chain, q[k + 1].position), q[k].module)
             /\ q[k].module \in OfKind(t, "missing")
  <2> DEFINE c == q[k].chain
             l == q[k + 1].position
             m == q[k].module
  <2>1. k + 1 \in DOMAIN q /\ q[k + 1] = p[k + 1 + 1]
    BY <1>1, <1>4, <1>5 DEF Paired
  <2>2. /\ Stands(s, c, Down(c, l, d, i), m) /\ m \in OfKind(s, "missing")
        /\ ~(c = d /\ l = i)
    <3>1. p[k + 1].do = "delete_module" /\ k + 1 \in DOMAIN p /\ p[k + 1] = q[k]
      BY <1>1, <1>5
    <3>2. Stands(s, p[k + 1].chain, PlaceNow(p, p[k + 1].chain, p[k + 1 + 1].position),
                 p[k + 1].module)
      BY <3>1 DEF Reload
    <3>3. p[k + 1].module \in OfKind(s, "missing")
      BY <3>1 DEF Reload
    <3>4. PlaceNow(p, p[k + 1].chain, p[k + 1 + 1].position) = Down(c, l, d, i)
      BY <2>1, <3>1 DEF PlaceNow
    <3>5. ~(p[k + 1].chain = p[1].chain /\ p[k + 1 + 1].position = p[1].position)
      BY <3>1 DEF Reload
    <3>6. QED
      BY <3>1, <3>2, <3>3, <3>4, <3>5, <2>1
  <2>3. /\ Up(c, Down(c, l, d, i), d, i) \in DOMAIN t.channels[c]
        /\ t.channels[c][Up(c, Down(c, l, d, i), d, i)] = m
    BY <2>2 DEF Stands, Opens
  <2>4. Up(c, Down(c, l, d, i), d, i) = l
    <3>1. l \in Nat
      <4>1. q[k + 1] \in Action /\ q[k + 1].do = "load"
        BY <2>1, <1>4, <1>5 DEF Rest, Paired
      <4>2. QED
        BY <4>1, ActionFields
    <3>2. QED
      BY <3>1, <2>2, <1>2 DEF Up, Down
  <2>5. Stands(t, c, l, m)
    BY <2>2, <2>3, <2>4, <1>2 DEF Stands
  <2>6. PlaceNow(q, c, l) = l
    BY <1>3 DEF PlaceNow
  <2>7. m \in OfKind(t, "missing")
    BY <2>2 DEF OfKind
  <2>8. QED
    BY <2>5, <2>6, <2>7
<1>6. ASSUME NEW j \in DOMAIN q, NEW k \in DOMAIN q, q[j].do = "delete_module",
             q[k].do = "delete_module", q[j].module = q[k].module
      PROVE  j = k
  <2>1. j + 1 = k + 1
    BY <1>1, <1>6 DEF Reload
  <2>2. QED
    BY <2>1, <1>1
<1>7. QED
  BY <1>3, <1>4, <1>5, <1>6 DEF Reload

\* What was covered stays so, when no module comes to wait and those that were
\* to be deleted still are, or are gone.
LEMMA CoversRest ==
  ASSUME NEW s, NEW t, NEW p, NEW q, Rest(p, q), Covers(s, p),
         \A m \in OfKind(t, "missing") :
            \/ t.fx_modules[m].plugin \notin fx_registry \cap Loadable
            \/ /\ m \in OfKind(s, "missing") /\ s.fx_modules[m].plugin = t.fx_modules[m].plugin
               /\ ~(p[1].do = "delete_module" /\ p[1].module = m)
  PROVE  Covers(t, q)
<1> SUFFICES ASSUME NEW m \in OfKind(t, "missing"),
                    t.fx_modules[m].plugin \in fx_registry \cap Loadable
             PROVE  \E k \in DOMAIN q : q[k].do = "delete_module" /\ q[k].module = m
  BY DEF Covers
<1>1. PICK k \in DOMAIN p : p[k].do = "delete_module" /\ p[k].module = m
  BY DEF Covers
<1>2. k # 1
  BY <1>1
<1>3. k - 1 \in DOMAIN q /\ q[k - 1] = p[k]
  <2>1. k - 1 \in DOMAIN q /\ k - 1 + 1 = k
    BY <1>2 DEF Rest
  <2>2. QED
    BY <2>1 DEF Rest
<1>4. QED
  BY <1>1, <1>3

LEMMA EmptyFits ==
  ASSUME NEW s, NEW q, DOMAIN q = {}
  PROVE  Plain(s, q)
BY DEF Plain

-----------------------------------------------------------------------------
(* The actions of a batch.                                                 *)

\* A module is inserted, by an action of the user or of a session, or into the
\* place of the one that was deleted before.
LEMMA InsertFits ==
  ASSUME NEW s, NEW n \in Nat, StateFits(s, n), NEW p \in Seq(Action), NEW q, Rest(p, q),
         Fits(s, p), p[1].do \in {"insert_internal", "load"}, NEW module \in FxModule,
         NEW t, t = InsertModule(s, p[1], n, module)
  PROVE  StateFits(t, n + 1) /\ Fits(t, q)
<1> DEFINE a == p[1]
<1>1. 1 \in DOMAIN p /\ a \in Action
  BY DEF Rest
<1>2. a.position \in Nat
  BY <1>1, ActionFields
<1>3. a.chain \in Channels(s)
  BY <1>1 DEF Fits, Aborts, Plain, Reload, Paired
<1>4. StateFits(t, n + 1)
  BY <1>2, <1>3, InsertKeeps
<1>5. PICK i \in 1..Len(s.channels[a.chain]) + 1 :
        /\ Opens(s, t, a.chain, i) /\ t.channels[a.chain][i] = n
        /\ a.position \in 1..Len(s.channels[a.chain]) + 1 => i = a.position
  BY <1>2, <1>3, InsertKeeps
<1>6. Inserted(s, t, a, n, module)
  BY <1>3, InsertFields DEF StateFits
<1>7. CASE Plain(s, p)
  <2>1. Channels(t) = Channels(s)
    BY <1>6 DEF Inserted
  <2>2. QED
    BY <1>4, <1>7, <2>1, PlainRest DEF Fits
<1>8. CASE Reload(s, p) /\ q # <<>>
  <2>1. a.do = "load" /\ i = a.position
    BY <1>1, <1>5, <1>8 DEF Reload, Paired
  <2>2. Chained(s) /\ n \notin Modules(s)
    BY DEF StateFits, StateType, Chained, Channels, IdsAreGiven
  <2>3. Modules(t) = Modules(s) \cup {n} /\ \A m \in Modules(s) : t.fx_modules[m] = s.fx_modules[m]
    BY <1>6, <2>2 DEF Inserted
  <2>4. Opens(s, t, a.chain, a.position)
    BY <1>5, <2>1
  <2>5. Reload(t, q)
    BY <1>8, <2>1, <2>2, <2>3, <2>4, ReloadAfterLoad
  <2>6. QED
    BY <1>4, <2>5 DEF Fits
<1>9. CASE q = <<>>
  BY <1>4, <1>9, EmptyFits DEF Fits
<1>10. QED
  BY <1>1, <1>7, <1>8, <1>9 DEF Fits, Aborts

\* A module is deleted, and when it is a LADSPA module its plugin is left to
\* be unloaded: m is gone, and of a reload it was none to be unloaded.
LEMMA DeleteFits ==
  ASSUME NEW s, NEW n \in Nat, StateFits(s, n), NEW p \in Seq(Action), NEW q, Rest(p, q),
         Fits(s, p), p[1].do = "delete_module", p[1].chain \in Channels(s),
         NEW erased \in BOOLEAN, NEW t, t = DeleteFxModule(s, p[1].chain, p[1].module, erased)
  PROVE  /\ \E i : Stands(s, p[1].chain, i, p[1].module) /\ Opens(t, s, p[1].chain, i)
         /\ StateFits(t, n)
         /\ p[1].module \in OfKind(s, "ladspa") => q = <<>>
         /\ Fits(t, q)
<1> DEFINE d == p[1].chain
           m == p[1].module
<1>1. StateType(s) /\ PlacesAgree(s)
  BY DEF StateFits
<1>2. 1 \in DOMAIN p
  BY DEF Rest
<1>3. ~Aborts(p)
  BY <1>1, FxAssumption DEF Aborts, StateType, Channels
<1>4. \E i : Stands(s, d, i, m)
  <2>1. CASE Plain(s, p)
    <3>1. StandsIn(s, d, m)
      BY <1>2, <2>1 DEF Plain
    <3>2. QED
      BY <3>1 DEF StandsIn, Stands
  <2>2. CASE Reload(s, p)
    <3>1. Stands(s, d, PlaceNow(p, d, p[1 + 1].position), m)
      BY <1>2, <2>2 DEF Reload
    <3>2. QED
      BY <3>1
  <2>3. QED
    BY <1>3, <2>1, <2>2 DEF Fits
<1>5. PICK i : Stands(s, d, i, m)
  BY <1>4
<1>6. StateFits(t, n) /\ Opens(t, s, d, i)
  BY <1>5, DeleteKeeps
<1>7. Deleted(s, t, d, m)
  BY <1>1, DeleteFields
<1>8. CASE Plain(s, p)
  <2>1. Len(p) = 1
    BY <1>2, <1>8 DEF Plain
  <2>2. DOMAIN q = {} /\ q = <<>>
    <3>1. DOMAIN q = {}
      BY <2>1 DEF Rest
    <3>2. Len(q) = 0
      BY <3>1, LenProperties DEF Rest
    <3>3. QED
      BY <3>1, <3>2, EmptySeq DEF Rest
  <2>3. QED
    BY <1>5, <1>6, <2>2, EmptyFits DEF Fits
<1>9. CASE Reload(s, p)
  <2>1. m \in OfKind(s, "missing")
    BY <1>2, <1>9 DEF Reload
  <2>2. Chained(s) /\ Chained(t)
    BY <1>6 DEF StateFits, StateType, Chained, Channels
  <2>3. Modules(t) = Modules(s) \ {m} /\ \A k \in Modules(t) : t.fx_modules[k] = s.fx_modules[k]
    BY <1>7 DEF Deleted
  <2>4. Reload(t, q)
    BY <1>1, <1>5, <1>6, <1>9, <2>2, <2>3, ReloadAfterDelete
  <2>5. QED
    BY <1>5, <1>6, <2>1, <2>4 DEF Fits, OfKind
<1>10. QED
  BY <1>3, <1>8, <1>9 DEF Fits

\* What the other actions find: one alone, or the last of a session.
LEMMA OthersArePlain ==
  ASSUME NEW s, NEW p, 1 \in DOMAIN p, Fits(s, p),
         p[1].do \in {"unload", "assign", "delete_channel"}
  PROVE  /\ Plain(s, p)
         /\ p[1].do = "unload" => Len(p) = 1 /\ p[1].module \notin Modules(s)
         /\ p[1].do = "delete_channel" =>
              /\ Len(p) = 1
              /\ p[1].channel \in Channels(s) \ {Main} /\ s.channels[p[1].channel] = <<>>
<1>1. Plain(s, p)
  BY DEF Fits, Aborts, Reload, Paired
<1>2. QED
  BY <1>1 DEF Plain

\* What is covered needs the kinds of the modules and their plugins only.
LEMMA CoversSame ==
  ASSUME NEW s, NEW t, NEW p, t.fx_modules = s.fx_modules, Covers(s, p)
  PROVE  Covers(t, p)
BY DEF Covers, OfKind, Modules

LEMMA CoversOthers ==
  ASSUME NEW s, NEW t, NEW p, NEW q, Rest(p, q), p[1].do # "delete_module",
         t.fx_modules = s.fx_modules, Covers(s, p)
  PROVE  Covers(t, q)
BY CoversRest DEF OfKind, Modules

LEMMA InsertCovers ==
  ASSUME NEW s, NEW n \in Nat, StateFits(s, n), NEW p, NEW q, Rest(p, q), Covers(s, p),
         p[1].chain \in Channels(s), p[1].do # "delete_module",
         NEW module, module.kind = "missing" => module.plugin \notin fx_registry \cap Loadable,
         NEW t, t = InsertModule(s, p[1], n, module)
  PROVE  Covers(t, q)
<1>1. Inserted(s, t, p[1], n, module)
  BY InsertFields DEF StateFits
<1>2. n \notin Modules(s)
  BY DEF StateFits, IdsAreGiven
<1>3. ASSUME NEW m \in OfKind(t, "missing"), m # n
      PROVE  m \in OfKind(s, "missing") /\ s.fx_modules[m].plugin = t.fx_modules[m].plugin
  BY <1>1, <1>2, <1>3 DEF Inserted, OfKind
<1>4. n \in OfKind(t, "missing") => t.fx_modules[n].plugin \notin fx_registry \cap Loadable
  BY <1>1 DEF Inserted, OfKind
<1>5. QED
  BY <1>3, <1>4, CoversRest

LEMMA DeleteCovers ==
  ASSUME NEW s, StateType(s), NEW p, NEW q, Rest(p, q), Covers(s, p),
         p[1].do = "delete_module", p[1].chain \in Channels(s),
         NEW erased \in BOOLEAN, NEW t, t = DeleteFxModule(s, p[1].chain, p[1].module, erased)
  PROVE  Covers(t, q)
<1>1. Deleted(s, t, p[1].chain, p[1].module)
  BY DeleteFields
<1>2. ASSUME NEW m \in OfKind(t, "missing")
      PROVE  /\ m \in OfKind(s, "missing") /\ s.fx_modules[m].plugin = t.fx_modules[m].plugin
             /\ p[1].module # m
  BY <1>1 DEF Deleted, OfKind
<1>3. QED
  BY <1>2, CoversRest

-----------------------------------------------------------------------------
(* The invariant: what the state is, and what the batch may hold.          *)

LEMMA KeepsInv ==
  ASSUME next_id' \in Nat, StateFits(st', next_id'), pending' \in Seq(Action),
         Fits(st', pending'), fx_registry' = fx_registry,
         scan' = "done" => Covers(st', pending')
  PROVE  FxInv'
<1>1. TypeOK'
  BY DEF TypeOK, StateFits
<1>2. (scan = "done" => Covers(st, pending))'
  BY DEF Covers, OfKind, Modules
<1>3. QED
  BY <1>1, <1>2 DEF FxInv, PendingFits

\* What each action of the batch starts from.
LEMMA BatchStarts ==
  ASSUME FxInv, NEW do, NextIs(do)
  PROVE  /\ pending # <<>> /\ pending \in Seq(Action) /\ Rest(pending, Tail(pending))
         /\ Tail(pending) \in Seq(Action)
         /\ pending[1] \in Action /\ Head(pending) = pending[1] /\ pending[1].do = do
         /\ 1 \in DOMAIN pending
         /\ next_id \in Nat /\ StateFits(st, next_id) /\ Fits(st, pending)
         /\ scan = "done" => Covers(st, pending)
<1>1. pending # <<>> /\ pending \in Seq(Action)
  BY DEF FxInv, TypeOK, NextIs
<1>2. Rest(pending, Tail(pending))
  BY <1>1, TailIsRest
<1>3. 1 \in DOMAIN pending
  BY <1>2 DEF Rest
<1>4. pending[1] \in Action
  BY <1>1, <1>3
<1>5. QED
  BY <1>1, <1>2, <1>3, <1>4 DEF FxInv, TypeOK, NextIs, PendingFits, Rest

LEMMA InsertInternalKeeps ==
  ASSUME FxInv, InsertInternal
  PROVE  FxInv'
<1> DEFINE module == [kind |-> "internal", plugin |-> None, midi |-> None]
<1>0. NextIs("insert_internal")
  BY DEF InsertInternal
<1>1. /\ pending \in Seq(Action) /\ Rest(pending, Tail(pending)) /\ Tail(pending) \in Seq(Action)
      /\ Head(pending) = pending[1] /\ pending[1].do = "insert_internal" /\ 1 \in DOMAIN pending
      /\ next_id \in Nat /\ StateFits(st, next_id) /\ Fits(st, pending)
      /\ scan = "done" => Covers(st, pending)
  BY <1>0, BatchStarts
<1>2. /\ st' = InsertModule(st, pending[1], next_id, module)
      /\ next_id' = next_id + 1 /\ pending' = Tail(pending)
      /\ fx_registry' = fx_registry /\ scan' = scan
  BY <1>1 DEF InsertInternal, EngineAction
<1>3. module \in FxModule /\ module.kind # "missing"
  BY DEF FxModule
<1> HIDE DEF module
<1>4. StateFits(st', next_id') /\ Fits(st', pending')
  BY <1>1, <1>2, <1>3, InsertFits
<1>5. pending[1].chain \in Channels(st)
  BY <1>1 DEF Fits, Aborts, Plain, Reload, Paired
<1>6. scan' = "done" => Covers(st', pending')
  BY <1>1, <1>2, <1>3, <1>5, InsertCovers
<1>7. next_id' \in Nat
  BY <1>1, <1>2
<1>8. QED
  BY <1>1, <1>2, <1>4, <1>6, <1>7, KeepsInv

LEMMA LoadKeeps ==
  ASSUME FxInv, LoadLadspa
  PROVE  FxInv'
<1> DEFINE a == pending[1]
           module(kind, midi) == [kind |-> kind, plugin |-> a.plugin, midi |-> midi]
<1>0. NextIs("load")
  BY DEF LoadLadspa
<1>1. /\ pending \in Seq(Action) /\ Rest(pending, Tail(pending)) /\ Tail(pending) \in Seq(Action)
      /\ Head(pending) = a /\ a \in Action /\ a.do = "load" /\ 1 \in DOMAIN pending
      /\ next_id \in Nat /\ StateFits(st, next_id) /\ Fits(st, pending)
      /\ scan = "done" => Covers(st, pending)
  BY <1>0, BatchStarts
<1>2. /\ next_id' = next_id + 1 /\ pending' = Tail(pending)
      /\ fx_registry' = fx_registry /\ scan' = scan
  BY DEF LoadLadspa
<1>3. PICK kind \in {"ladspa", "missing"}, midi \in {a.midi, None} :
        /\ st' = InsertModule(st, a, next_id, module(kind, midi))
        /\ kind = "missing" => a.plugin \notin fx_registry \cap Loadable
        /\ kind = "ladspa" => midi = None
  BY <1>1 DEF LoadLadspa, EngineAction
<1>4. a.plugin \in Plugin /\ midi \in Control \cup {None}
  BY <1>1, ActionFields
<1>5. /\ module(kind, midi) \in FxModule
      /\ module(kind, midi).kind = "missing"
           => module(kind, midi).plugin \notin fx_registry \cap Loadable
  BY <1>3, <1>4 DEF FxModule
<1> HIDE DEF module
<1>6. StateFits(st', next_id') /\ Fits(st', pending')
  BY <1>1, <1>2, <1>3, <1>5, InsertFits
<1>7. a.chain \in Channels(st)
  BY <1>1 DEF Fits, Aborts, Plain, Reload, Paired
<1>8. scan' = "done" => Covers(st', pending')
  BY <1>1, <1>2, <1>3, <1>5, <1>7, InsertCovers
<1>9. next_id' \in Nat
  BY <1>1, <1>2
<1>10. QED
  BY <1>1, <1>2, <1>6, <1>8, <1>9, KeepsInv

LEMMA DeleteModuleKeeps ==
  ASSUME FxInv, DeleteModule
  PROVE  FxInv'
<1> DEFINE m == pending[1].module
           c == pending[1].chain
           rest == Tail(pending)
<1>0. NextIs("delete_module")
  BY DEF DeleteModule
<1>1. /\ pending \in Seq(Action) /\ Rest(pending, rest) /\ rest \in Seq(Action)
      /\ Head(pending) = pending[1] /\ pending[1].do = "delete_module" /\ 1 \in DOMAIN pending
      /\ next_id \in Nat /\ StateFits(st, next_id) /\ Fits(st, pending)
      /\ scan = "done" => Covers(st, pending)
      /\ pending[1] \in Action
  BY <1>0, BatchStarts
<1>2. next_id' = next_id /\ fx_registry' = fx_registry /\ scan' = scan
  BY DEF DeleteModule
<1>3. CASE c \notin Channels(st)
  <2>1. st' = st /\ pending' = pending
    BY <1>1, <1>3 DEF DeleteModule
  <2>2. QED
    BY <1>1, <1>2, <2>1, KeepsInv
<1>4. CASE c \in Channels(st)
  <2>1. PICK erased \in BOOLEAN : st' = DeleteFxModule(st, c, m, erased)
    BY <1>1, <1>4 DEF DeleteModule, EngineAction
  <2>2. StateFits(st', next_id) /\ Fits(st', rest) /\ (m \in OfKind(st, "ladspa") => rest = <<>>)
    <3> HIDE DEF rest
    <3>1. StateFits(st', next_id)
      BY <1>1, <1>4, <2>1, DeleteFits
    <3>2. Fits(st', rest)
      BY <1>1, <1>4, <2>1, DeleteFits
    <3>3. m \in OfKind(st, "ladspa") => rest = <<>>
      BY <1>1, <1>4, <2>1, DeleteFits
    <3>4. QED
      BY <3>1, <3>2, <3>3
  <2>3. scan = "done" => Covers(st', rest)
    BY <1>1, <1>4, <2>1, DeleteCovers DEF StateFits
  <2>4. CASE m \notin OfKind(st, "ladspa")
    <3>1. pending' = rest
      <4>1. pending' = <<>> \o rest
        BY <1>1, <1>4, <2>4 DEF DeleteModule
      <4>2. QED
        BY <1>1, <4>1, ConcatEmptySeq
    <3>2. QED
      BY <1>1, <1>2, <2>2, <2>3, <3>1, KeepsInv
  <2>5. CASE m \in OfKind(st, "ladspa")
    <3> DEFINE unload == [do |-> "unload", module |-> m]
               one == <<unload>>
    <3>1. m \in Nat
      BY <1>1, ActionFields
    <3>2. one \in Seq(Action) /\ Len(one) = 1 /\ one[1] = unload /\ DOMAIN one = {1}
      <4>1. unload \in Action
        BY <3>1 DEF Action
      <4> HIDE DEF unload
      <4>2. QED
        BY <4>1
    <3> HIDE DEF one
    <3>3. pending' = one
      <4>1. pending' = one \o rest
        BY <1>1, <1>4, <2>5 DEF DeleteModule, one
      <4>2. QED
        BY <2>2, <2>5, <3>2, <4>1, ConcatEmptySeq
    <3>4. m \notin Modules(st')
      <4>1. Deleted(st, st', c, m)
        BY <1>1, <1>4, <2>1, DeleteFields DEF StateFits
      <4>2. QED
        BY <4>1 DEF Deleted
    <3>5. Plain(st', one)
      BY <3>2, <3>4 DEF Plain
    <3>6. scan' = "done" => Covers(st', one)
      BY <1>2, <2>2, <2>3, <2>5 DEF Covers
    <3>7. QED
      BY <1>1, <1>2, <2>2, <3>2, <3>3, <3>5, <3>6, KeepsInv DEF Fits
  <2>6. QED
    BY <2>4, <2>5
<1>5. QED
  BY <1>3, <1>4

LEMMA OtherActionKeeps ==
  ASSUME FxInv, Unload \/ AssignControl \/ DeleteMixerChannel
  PROVE  FxInv'
<1> DEFINE a == pending[1]
           rest == Tail(pending)
<1>0. PICK do \in {"unload", "assign", "delete_channel"} : NextIs(do)
  BY DEF Unload, AssignControl, DeleteMixerChannel
<1>1. /\ pending \in Seq(Action) /\ Rest(pending, rest) /\ rest \in Seq(Action)
      /\ Head(pending) = a /\ a.do = do /\ 1 \in DOMAIN pending
      /\ next_id \in Nat /\ StateFits(st, next_id) /\ Fits(st, pending)
      /\ scan = "done" => Covers(st, pending)
      /\ a \in Action
  BY <1>0, BatchStarts
<1>2. /\ Plain(st, pending)
      /\ do = "delete_channel" => Len(pending) = 1 /\ a.channel \in Channels(st) \ {Main}
                                  /\ st.channels[a.channel] = <<>>
  BY <1>1, OthersArePlain
<1>3. /\ next_id' = next_id /\ fx_registry' = fx_registry /\ scan' = scan
      /\ pending' = rest
  BY DEF Unload, AssignControl, DeleteMixerChannel
<1>4. /\ StateFits(st', next_id) /\ st'.fx_modules = st.fx_modules
      /\ Len(pending) # 1 => Channels(st') = Channels(st)
  <2>1. CASE Unload
    BY <1>1, <2>1 DEF Unload
  <2>2. CASE AssignControl
    <3>1. st' = [st EXCEPT !.midi_assignments = Assigned(@, a.id, a.control)]
      BY <1>1, <2>2 DEF AssignControl, EngineAction
    <3>2. /\ DOMAIN st' = DOMAIN st /\ st'.channels = st.channels
          /\ st'.fx_modules = st.fx_modules /\ st'.focused = st.focused
          /\ st'.midi_assignments = Assigned(st.midi_assignments, a.id, a.control)
      BY <1>1, <3>1 DEF StateFits, StateType
    <3>3. DOMAIN st'.midi_assignments \subseteq Nat
      <4>1. a.id = Main
        <5>1. a.do = "assign"
          BY <1>1, <2>2 DEF AssignControl, NextIs
        <5>2. QED
          BY <5>1, <1>1, ActionFields
      <4>2. QED
        BY <1>1, <3>2, <4>1 DEF StateFits, StateType, Assigned, Main
    <3>4. QED
      BY <1>1, <3>2, <3>3, AssignKeeps DEF Channels
  <2>3. CASE DeleteMixerChannel
    <3>1. st' = RemoveMixerChannel(st, a.channel) /\ do = "delete_channel"
      BY <1>1, <2>3 DEF DeleteMixerChannel, EngineAction, NextIs
    <3>2. st'.fx_modules = st.fx_modules
      BY <1>1, <3>1 DEF RemoveMixerChannel, StateFits, StateType
    <3>3. QED
      BY <1>1, <1>2, <3>1, <3>2, RemoveChannelKeeps
  <2>4. QED
    BY <2>1, <2>2, <2>3
<1>5. Plain(st', rest)
  BY <1>1, <1>2, <1>4, PlainRest
<1>6. scan' = "done" => Covers(st', rest)
  BY <1>1, <1>3, <1>4, CoversOthers
<1>7. QED
  BY <1>1, <1>3, <1>4, <1>5, <1>6, KeepsInv DEF Fits

-----------------------------------------------------------------------------
(* What the start and the scan thread dispatch.                            *)

LEMMA InitHolds == Init => FxInv
<1> SUFFICES ASSUME Init
             PROVE  FxInv
  OBVIOUS
<1>0. None \notin Nat
  BY FxAssumption
<1>1. /\ DOMAIN st = {"channels", "fx_modules", "fx_ladspa_instances", "midi_assignments",
                      "midi_learning", "focused"}
      /\ st.channels = [c \in {Main} |-> <<>>] /\ st.fx_modules = <<>>
      /\ st.midi_assignments = <<>> /\ st.focused = [chain |-> None, module |-> None]
      /\ pending = <<>> /\ next_id = 1 /\ scan = "session"
  BY DEF Init
<1>2. Channels(st) = {Main} /\ Modules(st) = {} /\ Main \in Nat
  BY <1>1 DEF Channels, Modules, Main
<1>3. st.channels[Main] = <<>> /\ DOMAIN st.midi_assignments = {}
  BY <1>1
<1>4. StateType(st)
  <2>1. <<>> \in Seq(Nat)
    BY EmptySeq
  <2>2. \A c \in DOMAIN st.channels : st.channels[c] \in Seq(Nat)
    BY <2>1, <1>2, <1>3 DEF Channels
  <2>3. DOMAIN st.channels \subseteq Nat /\ DOMAIN st.fx_modules = {}
    BY <1>2 DEF Channels, Modules
  <2>4. st.focused \in [chain : Nat \cup {None}, module : Nat \cup {None}]
    BY <1>1
  <2>5. QED
    BY <1>1, <1>3, <2>2, <2>3, <2>4 DEF StateType
<1>5. PlacesAgree(st)
  <2>1. \A c \in Channels(st) : DOMAIN st.channels[c] = {}
    BY <1>2, <1>3
  <2>2. QED
    BY <1>2, <2>1 DEF PlacesAgree
<1>6. FocusResolves(st)
  BY <1>1 DEF FocusResolves
<1>7. IdsAreGiven(st, next_id)
  BY <1>1, <1>2 DEF IdsAreGiven, Main
<1>8. PendingFits
  <2>1. DOMAIN pending = {} /\ scan # "done"
    BY <1>1
  <2>2. QED
    BY <2>1, EmptyFits DEF PendingFits, Fits
<1>9. TypeOK
  <2>1. pending \in Seq(Action)
    BY <1>1, EmptySeq
  <2>2. QED
    BY <1>1, <1>4, <2>1 DEF TypeOK
<1>10. QED
  BY <1>4, <1>5, <1>6, <1>7, <1>8, <1>9 DEF FxInv, StateFits

LEMMA SessionKeeps ==
  ASSUME FxInv, LoadSession
  PROVE  FxInv' /\ NoUnload(pending')
<1>1. PICK fxs \in SeqOf(SessionModule, MaxSession), midi \in Control \cup {None} :
        pending' = fxs \o (IF midi = None THEN <<>>
                           ELSE <<[do |-> "assign", id |-> Main, control |-> midi]>>)
  BY DEF LoadSession
<1>2. /\ st' = st /\ next_id' = next_id /\ fx_registry' = fx_registry /\ scan' = "scanning"
      /\ next_id \in Nat /\ StateFits(st, next_id)
  BY DEF LoadSession, FxInv, TypeOK
<1>3. fxs \in Seq(SessionModule)
  BY SeqDef, FxAssumption DEF SeqOf
<1>4. ASSUME NEW a \in SessionModule
      PROVE  /\ a \in Action
             /\ a.do \in {"insert_internal", "load"}
             /\ a.chain = Main /\ a.position = npos
  <2>1. Main \in Nat /\ npos \in Nat
    BY DEF Main, npos
  <2>2. QED
    BY <2>1 DEF SessionModule, Action
<1> DEFINE assign == [do |-> "assign", id |-> Main, control |-> midi]
           last == IF midi = None THEN <<>> ELSE <<assign>>
<1>5. last \in Seq(Action) /\ \A k \in DOMAIN last : last[k].do = "assign"
  <2>1. CASE midi = None
    BY <2>1, EmptySeq
  <2>2. CASE midi \in Control /\ midi # None
    <3>1. assign \in Action /\ assign.do = "assign"
      BY <2>2 DEF Action
    <3> HIDE DEF assign
    <3>2. <<assign>> \in Seq(Action) /\ \A k \in DOMAIN <<assign>> : <<assign>>[k] = assign
      BY <3>1
    <3>3. QED
      BY <2>2, <3>1, <3>2
  <2>3. QED
    BY <2>1, <2>2
<1>6. fxs \in Seq(Action)
  <2>1. DOMAIN fxs = 1..Len(fxs) /\ Len(fxs) \in Nat
    BY <1>3, LenProperties
  <2>2. \A k \in 1..Len(fxs) : fxs[k] \in SessionModule
    BY <1>3, <2>1, ElementOfSeq
  <2>3. fxs \in [1..Len(fxs) -> Action]
    <3>1. \A k \in 1..Len(fxs) : fxs[k] \in Action
      BY <2>2, <1>4
    <3>2. fxs = [k \in 1..Len(fxs) |-> fxs[k]]
      BY <1>3, LenProperties
    <3>3. QED
      BY <3>1, <3>2
  <2>4. QED
    BY <2>1, <2>3, SeqDef
<1> HIDE DEF last
<1>7. pending' = fxs \o last
  BY <1>1 DEF last
<1>8. /\ pending' \in Seq(Action) /\ Len(pending') = Len(fxs) + Len(last)
      /\ \A k \in 1..Len(fxs) + Len(last) :
            pending'[k] = IF k <= Len(fxs) THEN fxs[k] ELSE last[k - Len(fxs)]
  BY <1>5, <1>6, <1>7, ConcatProperties
<1>9. ASSUME NEW k \in DOMAIN pending'
      PROVE  \/ /\ pending'[k].do \in {"insert_internal", "load"}
                /\ pending'[k].chain \in Channels(st) /\ pending'[k].position = npos
             \/ pending'[k].do = "assign"
  <2>1. Len(fxs) \in Nat /\ Len(last) \in Nat /\ k \in 1..Len(fxs) + Len(last)
    BY <1>5, <1>6, <1>8, LenProperties
  <2>2. CASE k <= Len(fxs)
    <3>1. fxs[k] \in SessionModule
      BY <2>1, <2>2, <1>3, ElementOfSeq
    <3>2. Main \in Channels(st)
      BY <1>2 DEF StateFits, IdsAreGiven
    <3>3. QED
      BY <3>1, <3>2, <2>1, <2>2, <1>4, <1>8
  <2>3. CASE k > Len(fxs)
    <3>1. k - Len(fxs) \in DOMAIN last
      BY <2>1, <2>3, <1>5, LenProperties
    <3>2. QED
      BY <3>1, <2>1, <2>3, <1>5, <1>8
  <2>4. QED
    BY <2>1, <2>2, <2>3
<1>10. Plain(st', pending') /\ NoUnload(pending')
  BY <1>2, <1>9 DEF Plain, NoUnload
<1>11. QED
  BY <1>2, <1>8, <1>10, KeepsInv DEF Fits

LEMMA ScanKeeps ==
  ASSUME FxInv, FinalizeScan
  PROVE  FxInv'
<1>1. st' = st /\ next_id' = next_id /\ pending' = pending /\ scan' = "registered"
  BY DEF FinalizeScan
<1>2. TypeOK' /\ StateFits(st', next_id')
  BY <1>1 DEF FxInv, TypeOK
<1>3. PendingFits'
  BY <1>1 DEF FxInv, PendingFits
<1>4. QED
  BY <1>2, <1>3 DEF FxInv

LEMMA Halves ==
  ASSUME NEW n \in Nat, NEW k \in 1..2 * n
  PROVE  \E j \in 1..n :
            \/ k % 2 = 1 /\ k = 2 * j - 1 /\ (k + 1) \div 2 = j
            \/ k % 2 # 1 /\ k = 2 * j /\ k \div 2 = j
<1>1. CASE k % 2 = 1
  <2> DEFINE j == (k + 1) \div 2
  <2>1. j \in 1..n /\ k = 2 * j - 1
    BY <1>1
  <2>2. QED
    BY <1>1, <2>1
<1>2. CASE k % 2 # 1
  <2> DEFINE j == k \div 2
  <2>1. j \in 1..n /\ k = 2 * j
    BY <1>2
  <2>2. QED
    BY <1>2, <2>1
<1>3. QED
  BY <1>1, <1>2

LEMMA Twice ==
  ASSUME NEW n \in Nat, NEW j \in 1..n
  PROVE  /\ 2 * j - 1 \in 1..2 * n /\ 2 * j \in 1..2 * n
         /\ (2 * j - 1) % 2 = 1 /\ (2 * j - 1 + 1) \div 2 = j
         /\ (2 * j) % 2 # 1 /\ (2 * j) \div 2 = j
OBVIOUS

\* A place that waits, the module that stands there, and what replaces it.
LEMMA MissingPlace ==
  ASSUME StateFits(st, next_id), NEW a \in MissingPlaces
  PROVE  /\ a = [chain |-> a.chain, position |-> a.position]
         /\ Stands(st, a.chain, a.position, Deletion(a).module)
         /\ Deletion(a).module \in OfKind(st, "missing")
         /\ Deletion(a) \in Action /\ Replacement(a) \in Action
         /\ Deletion(a).do = "delete_module" /\ Deletion(a).chain = a.chain
         /\ Replacement(a).do = "load" /\ Replacement(a).chain = a.chain
         /\ Replacement(a).position = a.position /\ a.position # npos
         /\ a.chain \in Nat /\ a.position \in Nat
<1> DEFINE m == st.channels[a.chain][a.position]
<1>1. PICK c \in Channels(st) :
        a \in {[chain |-> c, position |-> i] :
                 i \in {j \in DOMAIN st.channels[c] : WaitsForPlugin(c, j)}}
  BY DEF MissingPlaces
<1>2. PICK i \in DOMAIN st.channels[c] :
        WaitsForPlugin(c, i) /\ a = [chain |-> c, position |-> i]
  BY <1>1
<1>3. a.chain = c /\ a.position = i /\ m \in OfKind(st, "missing") /\ Deletion(a).module = m
  BY <1>2 DEF WaitsForPlugin, Deletion
<1>4. StateType(st)
  BY DEF StateFits
<1>5. c \in Nat /\ i \in Nat /\ i # npos /\ m \in Nat
  <2>1. i \in 1..Len(st.channels[c])
    BY <1>4, <1>2, ChainDomain
  <2>2. c \in Nat /\ m \in Nat
    BY <1>3, <1>4 DEF StateType, Channels, Modules, OfKind
  <2>3. Len(st.channels[c]) \in Nat
    BY <1>4, ChainDomain
  <2>4. QED
    BY <2>1, <2>2, <2>3 DEF npos
<1>6. st.fx_modules[m].plugin \in Plugin /\ st.fx_modules[m].midi \in Control \cup {None}
  <2>1. st.fx_modules[m] \in FxModule /\ st.fx_modules[m].kind = "missing"
    BY <1>3, <1>4 DEF StateType, OfKind, Modules
  <2>2. QED
    BY <2>1 DEF FxModule
<1>7. Deletion(a) = [do |-> "delete_module", chain |-> c, module |-> m]
  BY <1>3 DEF Deletion
<1>8. Deletion(a) \in Action
  BY <1>5, <1>7 DEF Action
<1>9. Replacement(a) = [do |-> "load", chain |-> c, position |-> i,
                        plugin |-> st.fx_modules[m].plugin, midi |-> st.fx_modules[m].midi,
                        show |-> FALSE]
  BY <1>3 DEF Replacement
<1>10. Replacement(a) \in Action
  <2>1. PICK plugin \in Plugin, midi \in Control \cup {None} :
          Replacement(a) = [do |-> "load", chain |-> c, position |-> i, plugin |-> plugin,
                            midi |-> midi, show |-> FALSE]
    BY <1>6, <1>9
  <2>2. Replacement(a) \in [do : {"load"}, chain : Nat, position : Nat, plugin : Plugin,
                            midi : Control \cup {None}, show : BOOLEAN]
    BY <2>1, <1>5
  <2>3. QED
    BY <2>2 DEF Action
<1>11. QED
  BY <1>2, <1>3, <1>5, <1>7, <1>8, <1>9, <1>10 DEF Stands

LEMMA MissingPlacesFinite ==
  ASSUME StateFits(st, next_id), next_id \in Nat
  PROVE  Cardinality(MissingPlaces) \in Nat
<1> DEFINE f == [a \in MissingPlaces |-> Deletion(a).module]
           ids == 0..next_id - 1
<1>1. \A a \in MissingPlaces : Deletion(a).module \in ids
  BY MissingPlace DEF StateFits, IdsAreGiven, OfKind
<1>2. ASSUME NEW a \in MissingPlaces, NEW b \in MissingPlaces,
             Deletion(a).module = Deletion(b).module
      PROVE  a = b
  <2>1. Stands(st, a.chain, a.position, Deletion(a).module)
    BY MissingPlace
  <2>2. Stands(st, b.chain, b.position, Deletion(b).module)
    BY MissingPlace
  <2>3. a.chain = b.chain /\ a.position = b.position
    BY <1>2, <2>1, <2>2 DEF Stands, StateFits, PlacesAgree
  <2>4. a = [chain |-> a.chain, position |-> a.position]
    BY MissingPlace
  <2>5. b = [chain |-> b.chain, position |-> b.position]
    BY MissingPlace
  <2>6. QED
    BY <2>3, <2>4, <2>5
<1>3. f \in Injection(MissingPlaces, ids)
  BY <1>1, <1>2 DEF Injection, IsInjective
<1>4. IsFiniteSet(ids)
  BY FS_Interval
<1>5. IsFiniteSet(MissingPlaces)
  BY <1>3, <1>4, FS_Injection
<1>6. QED
  BY <1>5, FS_CardinalityType

LEMMA ReloadMissingKeeps ==
  ASSUME FxInv, ReloadMissingPlugins
  PROVE  FxInv' /\ NoUnload(pending')
<1> DEFINE n == Cardinality(MissingPlaces)
<1>1. /\ st' = st /\ next_id' = next_id /\ fx_registry' = fx_registry
      /\ next_id \in Nat /\ StateFits(st, next_id)
  BY DEF ReloadMissingPlugins, FxInv, TypeOK
<1>2. n \in Nat
  BY <1>1, MissingPlacesFinite
<1>3. PICK places \in [1..n -> MissingPlaces] :
        /\ ToSet(places) = MissingPlaces
        /\ \A k, l \in DOMAIN places : k < l => Before(places[k], places[l])
        /\ pending' = [k \in 1..2 * Len(places) |->
                          IF k % 2 = 1 THEN Deletion(places[(k + 1) \div 2])
                          ELSE Replacement(places[k \div 2])]
  BY DEF ReloadMissingPlugins
<1> HIDE DEF n
<1>4. Len(places) = n /\ DOMAIN places = 1..n
  <2>1. places \in Seq(MissingPlaces)
    BY <1>2, <1>3, SeqDef
  <2>2. DOMAIN places = 1..n
    BY <1>3
  <2>3. QED
    BY <1>2, <2>1, <2>2, LenProperties
<1>5. /\ DOMAIN pending' = 1..2 * n
      /\ \A j \in 1..n : /\ pending'[2 * j - 1] = Deletion(places[j])
                         /\ pending'[2 * j] = Replacement(places[j])
      /\ \A k \in 1..2 * n : \E j \in 1..n :
            \/ k = 2 * j - 1 /\ pending'[k] = Deletion(places[j])
            \/ k = 2 * j /\ pending'[k] = Replacement(places[j])
  <2>1. pending' = [k \in 1..2 * n |-> IF k % 2 = 1 THEN Deletion(places[(k + 1) \div 2])
                                       ELSE Replacement(places[k \div 2])]
    BY <1>3, <1>4
  <2>2. ASSUME NEW j \in 1..n
        PROVE  /\ pending'[2 * j - 1] = Deletion(places[j])
               /\ pending'[2 * j] = Replacement(places[j])
    <3>1. /\ 2 * j - 1 \in 1..2 * n /\ 2 * j \in 1..2 * n
          /\ (2 * j - 1) % 2 = 1 /\ (2 * j - 1 + 1) \div 2 = j
          /\ (2 * j) % 2 # 1 /\ (2 * j) \div 2 = j
      BY <1>2, Twice
    <3>2. QED
      BY <2>1, <3>1
  <2>3. ASSUME NEW k \in 1..2 * n
        PROVE  \E j \in 1..n :
                  \/ k = 2 * j - 1 /\ pending'[k] = Deletion(places[j])
                  \/ k = 2 * j /\ pending'[k] = Replacement(places[j])
    <3>1. PICK j \in 1..n : \/ k % 2 = 1 /\ k = 2 * j - 1 /\ (k + 1) \div 2 = j
                            \/ k % 2 # 1 /\ k = 2 * j /\ k \div 2 = j
      BY <1>2, Halves
    <3>2. QED
      BY <2>1, <3>1
  <2>4. QED
    BY <2>1, <2>2, <2>3
<1>6. ASSUME NEW j \in 1..n
      PROVE  /\ places[j] \in MissingPlaces /\ j \in Nat
             /\ Stands(st, places[j].chain, places[j].position, Deletion(places[j]).module)
             /\ Deletion(places[j]).module \in OfKind(st, "missing")
             /\ Deletion(places[j]) \in Action /\ Replacement(places[j]) \in Action
             /\ Deletion(places[j]).do = "delete_module"
             /\ Deletion(places[j]).chain = places[j].chain
             /\ Replacement(places[j]).do = "load"
             /\ Replacement(places[j]).chain = places[j].chain
             /\ Replacement(places[j]).position = places[j].position
             /\ places[j].position # npos
  <2>1. places[j] \in MissingPlaces /\ j \in Nat
    BY <1>2, <1>3
  <2>2. QED
    BY <1>1, <2>1, MissingPlace
<1>7. ASSUME NEW i \in 1..n, NEW j \in 1..n,
             Deletion(places[i]).module = Deletion(places[j]).module
      PROVE  i = j
  <2>1. ~Before(places[i], places[j]) /\ ~Before(places[j], places[i])
    <3>1. Stands(st, places[i].chain, places[i].position, Deletion(places[i]).module)
      BY <1>6
    <3>2. Stands(st, places[j].chain, places[j].position, Deletion(places[j]).module)
      BY <1>6
    <3>3. places[i].chain = places[j].chain /\ places[i].position = places[j].position
      BY <1>1, <1>7, <3>1, <3>2 DEF Stands, StateFits, PlacesAgree
    <3>4. places[i].chain \in Nat /\ places[i].position \in Nat
      BY <1>1, <1>6, MissingPlace
    <3>5. QED
      BY <3>3, <3>4 DEF Before
  <2>2. i \in Nat /\ j \in Nat
    BY <1>6
  <2>3. ~(i < j) /\ ~(j < i)
    BY <2>1, <1>3, <1>4
  <2>4. QED
    BY <2>2, <2>3
<1>8. pending' \in Seq(Action)
  <2>1. \A k \in 1..2 * n : pending'[k] \in Action
    BY <1>5, <1>6
  <2>2. pending' = [k \in 1..2 * n |-> pending'[k]]
    BY <1>3, <1>4
  <2>3. 2 * n \in Nat
    BY <1>2
  <2>4. pending' \in [1..2 * n -> Action]
    BY <2>1, <2>2
  <2>5. QED
    BY <2>3, <2>4, SeqDef
<1>9. ASSUME NEW k \in 1..2 * n, pending'[k].do = "delete_module"
      PROVE  \E j \in 1..n : /\ k = 2 * j - 1 /\ pending'[k] = Deletion(places[j])
                             /\ k + 1 \in 1..2 * n /\ pending'[k + 1] = Replacement(places[j])
  <2>1. PICK j \in 1..n : \/ k = 2 * j - 1 /\ pending'[k] = Deletion(places[j])
                          \/ k = 2 * j /\ pending'[k] = Replacement(places[j])
    BY <1>5
  <2>2. k = 2 * j - 1 /\ pending'[k] = Deletion(places[j])
    BY <2>1, <1>6, <1>9
  <2>3. k + 1 = 2 * j /\ 2 * j \in 1..2 * n
    BY <2>2, <1>2, <1>6
  <2>4. QED
    BY <2>2, <2>3, <1>5
<1>10. n # 0 => Reload(st, pending')
  <2> SUFFICES ASSUME n # 0
               PROVE  Reload(st, pending')
    OBVIOUS
  <2>1. 1 \in 1..n /\ 1 \in 1..2 * n /\ 2 * 1 - 1 = 1
    BY <1>2
  <2>2. pending'[1].do = "delete_module" /\ pending' # <<>>
    <3>1. pending'[1] = Deletion(places[1])
      BY <2>1, <1>5
    <3>2. 1 \in DOMAIN pending'
      BY <2>1, <1>5
    <3>3. QED
      BY <2>1, <3>1, <3>2, <1>6
  <2>3. Paired(pending')
    <3> SUFFICES ASSUME NEW k \in 1..2 * n
                 PROVE  \/ /\ pending'[k].do = "load" /\ pending'[k].position # npos
                           /\ k > 1 => pending'[k - 1].do = "delete_module"
                        \/ /\ pending'[k].do = "delete_module" /\ k + 1 \in 1..2 * n
                           /\ pending'[k + 1].do = "load"
                           /\ pending'[k + 1].chain = pending'[k].chain
      BY <1>5 DEF Paired
    <3>1. PICK j \in 1..n : \/ k = 2 * j - 1 /\ pending'[k] = Deletion(places[j])
                            \/ k = 2 * j /\ pending'[k] = Replacement(places[j])
      BY <1>5
    <3>2. CASE k = 2 * j /\ pending'[k] = Replacement(places[j])
      <4>1. pending'[k - 1] = Deletion(places[j])
        BY <3>2, <1>5
      <4>2. QED
        BY <3>2, <4>1, <1>6
    <3>3. CASE k = 2 * j - 1 /\ pending'[k] = Deletion(places[j])
      <4>1. k + 1 = 2 * j /\ 2 * j \in 1..2 * n
        BY <3>3, <1>2, <1>6
      <4>2. pending'[k + 1] = Replacement(places[j])
        BY <4>1, <1>5
      <4>3. QED
        BY <3>3, <4>1, <4>2, <1>6
    <3>4. QED
      BY <3>1, <3>2, <3>3
  <2>4. ASSUME NEW k \in 1..2 * n, pending'[k].do = "delete_module"
        PROVE  /\ Stands(st, pending'[k].chain,
                         PlaceNow(pending', pending'[k].chain, pending'[k + 1].position),
                         pending'[k].module)
               /\ pending'[k].module \in OfKind(st, "missing")
    <3>1. PICK j \in 1..n : /\ pending'[k] = Deletion(places[j])
                            /\ pending'[k + 1] = Replacement(places[j])
      BY <2>4, <1>9
    <3>2. PlaceNow(pending', pending'[k].chain, pending'[k + 1].position) = places[j].position
      BY <2>2, <3>1, <1>6 DEF PlaceNow
    <3>3. pending'[k].chain = places[j].chain
      BY <3>1, <1>6
    <3>4. QED
      BY <3>1, <3>2, <3>3, <1>6
  <2>5. ASSUME NEW j \in 1..2 * n, NEW k \in 1..2 * n, pending'[j].do = "delete_module",
               pending'[k].do = "delete_module", pending'[j].module = pending'[k].module
        PROVE  j = k
    <3>1. PICK x \in 1..n : j = 2 * x - 1 /\ pending'[j] = Deletion(places[x])
      BY <2>5, <1>9
    <3>2. PICK y \in 1..n : k = 2 * y - 1 /\ pending'[k] = Deletion(places[y])
      BY <2>5, <1>9
    <3>3. x = y
      BY <3>1, <3>2, <2>5, <1>7
    <3>4. QED
      BY <3>1, <3>2, <3>3
  <2>6. QED
    BY <2>2, <2>3, <2>4, <2>5, <1>5 DEF Reload
<1>11. n = 0 => Plain(st, pending')
  <2> SUFFICES ASSUME n = 0
               PROVE  DOMAIN pending' = {}
    BY EmptyFits
  <2>1. 1..2 * 0 = {}
    OBVIOUS
  <2>2. QED
    BY <2>1, <1>5
<1>12. Covers(st, pending')
  <2> SUFFICES ASSUME NEW m \in OfKind(st, "missing")
               PROVE  \E k \in DOMAIN pending' :
                        pending'[k].do = "delete_module" /\ pending'[k].module = m
    BY DEF Covers
  <2>0. m \in Modules(st)
    BY DEF OfKind
  <2>1. PICK c \in Channels(st) : StandsIn(st, c, m)
    BY <1>1, <2>0 DEF StateFits, PlacesAgree
  <2>2. PICK i \in DOMAIN st.channels[c] : st.channels[c][i] = m
    BY <2>1 DEF StandsIn
  <2>3. [chain |-> c, position |-> i] \in MissingPlaces
    BY <2>2 DEF MissingPlaces, WaitsForPlugin
  <2>4. PICK j \in 1..n : places[j] = [chain |-> c, position |-> i]
    BY <2>3, <1>3, <1>4 DEF ToSet
  <2>5. Deletion(places[j]).module = m
    BY <2>2, <2>4 DEF Deletion
  <2>6. 2 * j - 1 \in DOMAIN pending' /\ pending'[2 * j - 1] = Deletion(places[j])
    BY <1>2, <1>5, Twice
  <2>7. QED
    BY <2>5, <2>6, <1>6
<1>13. Fits(st, pending')
  BY <1>10, <1>11 DEF Fits
<1>14. NoUnload(pending')
  BY <1>5, <1>6 DEF NoUnload
<1>15. QED
  BY <1>1, <1>8, <1>12, <1>13, <1>14, KeepsInv

-----------------------------------------------------------------------------
(* What the user dispatches.                                               *)

LEMMA DispatchKeeps ==
  ASSUME FxInv, NEW actions, UserDispatches(actions), actions \in Seq(Action),
         Fits(st, actions), NoUnload(actions)
  PROVE  FxInv' /\ NoUnload(pending')
<1>1. /\ pending = <<>> /\ pending' = actions /\ st' = st /\ next_id' = next_id
      /\ fx_registry' = fx_registry /\ scan' = scan
  BY DEF UserDispatches, User, Idle
<1>2. scan = "done" => Covers(st, actions)
  BY <1>1 DEF FxInv, PendingFits, Covers
<1>3. next_id \in Nat /\ StateFits(st, next_id)
  BY DEF FxInv, TypeOK
<1>4. QED
  BY <1>1, <1>2, <1>3, KeepsInv

LEMMA OneAction ==
  ASSUME NEW a \in Action
  PROVE  <<a>> \in Seq(Action) /\ Len(<<a>>) = 1 /\ DOMAIN <<a>> = {1} /\ <<a>>[1] = a
OBVIOUS

LEMMA AppendInternalKeeps ==
  ASSUME FxInv, NEW c \in Channels(st), AppendInternal(c)
  PROVE  FxInv' /\ NoUnload(pending')
<1> DEFINE a == [do |-> "insert_internal", chain |-> c, position |-> npos,
                 midi |-> None, show |-> TRUE]
<1>1. c \in Nat /\ npos \in Nat
  BY DEF FxInv, TypeOK, StateType, Channels, npos
<1>2. a \in Action /\ a.do = "insert_internal" /\ a.chain = c /\ a.position = npos
  BY <1>1 DEF Action
<1>3. UserDispatches(<<a>>)
  BY DEF AppendInternal
<1> HIDE DEF a
<1>4. <<a>> \in Seq(Action) /\ DOMAIN <<a>> = {1} /\ <<a>>[1] = a
  BY <1>2, OneAction
<1>5. Plain(st, <<a>>) /\ NoUnload(<<a>>)
  BY <1>2, <1>4 DEF Plain, NoUnload
<1>6. QED
  BY <1>3, <1>4, <1>5, DispatchKeeps DEF Fits

LEMMA AppendLadspaKeeps ==
  ASSUME FxInv, NEW c \in Channels(st), NEW p \in Plugin, AppendLadspa(c, p)
  PROVE  FxInv' /\ NoUnload(pending')
<1> DEFINE a == [do |-> "load", chain |-> c, position |-> npos, plugin |-> p,
                 midi |-> None, show |-> TRUE]
<1>1. c \in Nat /\ npos \in Nat
  BY DEF FxInv, TypeOK, StateType, Channels, npos
<1>2. a \in Action /\ a.do = "load" /\ a.chain = c /\ a.position = npos
  BY <1>1 DEF Action
<1>3. UserDispatches(<<a>>)
  BY DEF AppendLadspa
<1> HIDE DEF a
<1>4. <<a>> \in Seq(Action) /\ DOMAIN <<a>> = {1} /\ <<a>>[1] = a
  BY <1>2, OneAction
<1>5. Plain(st, <<a>>) /\ NoUnload(<<a>>)
  BY <1>2, <1>4 DEF Plain, NoUnload
<1>6. QED
  BY <1>3, <1>4, <1>5, DispatchKeeps DEF Fits

LEMMA RemoveModuleKeeps ==
  ASSUME FxInv, NEW c \in Channels(st), NEW m \in ToSet(st.channels[c]), RemoveModule(c, m)
  PROVE  FxInv' /\ NoUnload(pending')
<1> DEFINE a == [do |-> "delete_module", chain |-> c, module |-> m]
<1>1. StandsIn(st, c, m)
  BY DEF ToSet, StandsIn
<1>2. c \in Nat /\ m \in Nat
  <2>1. st.channels[c] \in Seq(Nat) /\ c \in Nat
    BY DEF FxInv, TypeOK, StateType, Channels
  <2>2. QED
    BY <2>1, <1>1 DEF StandsIn
<1>3. a \in Action /\ a.do = "delete_module" /\ a.chain = c /\ a.module = m
  BY <1>2 DEF Action
<1>4. UserDispatches(<<a>>)
  BY DEF RemoveModule
<1> HIDE DEF a
<1>5. <<a>> \in Seq(Action) /\ Len(<<a>>) = 1 /\ DOMAIN <<a>> = {1} /\ <<a>>[1] = a
  BY <1>3, OneAction
<1>6. Plain(st, <<a>>) /\ NoUnload(<<a>>)
  BY <1>1, <1>3, <1>5 DEF Plain, NoUnload
<1>7. QED
  BY <1>4, <1>5, <1>6, DispatchKeeps DEF Fits

\* A channel with effects is not deleted: the first action aborts.
LEMMA DeletionOfChannelKeeps ==
  ASSUME FxInv, NEW c \in Channels(st) \ {Main}, InitiateMixerChannelDeletion(c)
  PROVE  FxInv' /\ NoUnload(pending')
<1> DEFINE last == [do |-> "delete_channel", channel |-> c]
           one == <<last>>
           modules == [i \in DOMAIN st.channels[c] |->
                        [do |-> "delete_module", chain |-> None, module |-> st.channels[c][i]]]
           p == modules \o one
<1>1. c \in Nat /\ st.channels[c] \in Seq(Nat)
  BY DEF FxInv, TypeOK, StateType, Channels
<1>2. DOMAIN st.channels[c] = 1..Len(st.channels[c]) /\ Len(st.channels[c]) \in Nat
  BY <1>1, LenProperties
<1>3. /\ modules \in Seq(Action) /\ Len(modules) = Len(st.channels[c])
      /\ \A i \in 1..Len(st.channels[c]) :
            modules[i].do = "delete_module" /\ modules[i].chain = None
  <2>1. ASSUME NEW i \in DOMAIN st.channels[c]
        PROVE  [do |-> "delete_module", chain |-> None, module |-> st.channels[c][i]] \in Action
    <3>1. st.channels[c][i] \in Nat
      BY <1>1
    <3>2. QED
      BY <3>1 DEF Action
  <2>2. modules \in [1..Len(st.channels[c]) -> Action]
    BY <2>1, <1>2
  <2>3. modules \in Seq(Action)
    BY <2>2, <1>2, SeqDef
  <2>4. Len(modules) = Len(st.channels[c])
    BY <2>2, <2>3, <1>2, LenProperties
  <2>5. QED
    BY <2>3, <2>4, <1>2
<1>4. last \in Action /\ last.do = "delete_channel" /\ last.channel = c
  BY <1>1 DEF Action
<1>5. UserDispatches(p)
  BY DEF InitiateMixerChannelDeletion
<1> HIDE DEF last
<1>6. one \in Seq(Action) /\ Len(one) = 1 /\ DOMAIN one = {1} /\ one[1] = last
  BY <1>4, OneAction
<1>0. p = modules \o one
  OBVIOUS
<1> HIDE DEF modules, one, p
<1>7. /\ p \in Seq(Action) /\ Len(p) = Len(modules) + 1
      /\ \A k \in 1..Len(modules) + 1 :
            p[k] = IF k <= Len(modules) THEN modules[k] ELSE one[k - Len(modules)]
  <2>1. modules \in Seq(Action) /\ one \in Seq(Action)
    BY <1>3, <1>6
  <2>2. /\ p \in Seq(Action) /\ Len(p) = Len(modules) + Len(one)
        /\ \A k \in 1..Len(modules) + Len(one) :
              p[k] = IF k <= Len(modules) THEN modules[k] ELSE one[k - Len(modules)]
    BY <1>0, <2>1, ConcatProperties
  <2>3. QED
    BY <2>2, <1>6
<1>8. DOMAIN p = 1..Len(modules) + 1
  BY <1>7, LenProperties
<1>9. ASSUME NEW k \in DOMAIN p
      PROVE  \/ k <= Len(modules) /\ p[k].do = "delete_module" /\ p[k].chain = None
             \/ k = Len(modules) + 1 /\ p[k] = last
  <2>1. Len(modules) \in Nat /\ k \in 1..Len(modules) + 1
    BY <1>2, <1>3, <1>8
  <2>2. CASE k <= Len(modules)
    BY <2>1, <2>2, <1>3, <1>7
  <2>3. CASE k > Len(modules)
    <3>1. k = Len(modules) + 1 /\ k - Len(modules) = 1
      BY <2>1, <2>3
    <3>2. p[k] = last
      BY <2>1, <3>1, <1>6, <1>7
    <3>3. QED
      BY <3>1, <3>2
  <2>4. QED
    BY <2>1, <2>2, <2>3
<1>10. NoUnload(p)
  BY <1>4, <1>9 DEF NoUnload
<1>11. CASE Len(modules) # 0
  <2>1. 1 \in DOMAIN p /\ 1 # Len(modules) + 1
    BY <1>2, <1>3, <1>8, <1>11
  <2>2. p # <<>> /\ p[1].do = "delete_module" /\ p[1].chain = None
    BY <2>1, <1>9
  <2>3. \A k \in DOMAIN p : p[k].do \notin {"load", "unload"}
    BY <1>4, <1>9
  <2>4. QED
    BY <2>2, <2>3, <1>10, <1>5, <1>7, DispatchKeeps DEF Fits, Aborts
<1>12. CASE Len(modules) = 0
  <2>1. st.channels[c] = <<>>
    BY <1>1, <1>3, <1>12, EmptySeq
  <2>2. Len(p) = 1 /\ \A k \in DOMAIN p : p[k] = last
    BY <1>7, <1>8, <1>9, <1>12
  <2>3. Plain(st, p)
    BY <2>1, <2>2, <1>4 DEF Plain
  <2>4. QED
    BY <2>3, <1>10, <1>5, <1>7, DispatchKeeps DEF Fits
<1>13. QED
  BY <1>11, <1>12

LEMMA IdleKeeps ==
  ASSUME FxInv, pending = <<>>, pending' = pending, fx_registry' = fx_registry, scan' = scan,
         next_id' \in Nat, StateFits(st', next_id'), st'.fx_modules = st.fx_modules
  PROVE  FxInv'
<1>1. pending' \in Seq(Action) /\ Plain(st', pending')
  BY EmptySeq, EmptyFits
<1>2. scan' = "done" => Covers(st', pending')
  BY CoversSame DEF FxInv, PendingFits
<1>3. QED
  BY <1>1, <1>2, KeepsInv DEF Fits

LEMMA EditKeeps ==
  ASSUME FxInv, Edit
  PROVE  FxInv' /\ (pending' = pending \/ NoUnload(pending'))
<1>1. next_id \in Nat /\ StateFits(st, next_id) /\ StateType(st)
  BY DEF FxInv, TypeOK
<1>2. CASE AddMixerChannel
  <2>1. /\ st' = [st EXCEPT !.channels = Added(@, next_id, <<>>)] /\ next_id' = next_id + 1
        /\ pending = <<>> /\ pending' = pending /\ fx_registry' = fx_registry /\ scan' = scan
    BY <1>2 DEF AddMixerChannel, EngineAction, User, Idle
  <2>2. StateFits(st', next_id')
    BY <1>1, <2>1, AddChannelKeeps
  <2>3. st'.fx_modules = st.fx_modules /\ next_id' \in Nat
    BY <1>1, <2>1 DEF StateType
  <2>4. QED
    BY <2>1, <2>2, <2>3, IdleKeeps
<1>3. ASSUME NEW c \in Channels(st), AppendInternal(c)
      PROVE  FxInv' /\ NoUnload(pending')
  BY <1>3, AppendInternalKeeps
<1>4. ASSUME NEW c \in Channels(st), NEW p \in Plugin, AppendLadspa(c, p)
      PROVE  FxInv' /\ NoUnload(pending')
  BY <1>4, AppendLadspaKeeps
<1>5. ASSUME NEW c \in Channels(st), NEW m \in ToSet(st.channels[c]), RemoveModule(c, m)
      PROVE  FxInv' /\ NoUnload(pending')
  BY <1>5, RemoveModuleKeeps
<1>6. ASSUME NEW c \in Channels(st), NEW m \in ToSet(st.channels[c]), FocusModule(c, m)
      PROVE  FxInv' /\ pending' = pending
  <2>1. /\ st' = [st EXCEPT !.focused = [chain |-> c, module |-> m]] /\ next_id' = next_id
        /\ pending = <<>> /\ pending' = pending /\ fx_registry' = fx_registry /\ scan' = scan
    BY <1>6 DEF FocusModule, User, Idle
  <2>2. StandsIn(st, c, m)
    BY DEF ToSet, StandsIn
  <2>3. StateFits(st', next_id')
    BY <1>1, <2>1, <2>2, FocusKeeps
  <2>4. st'.fx_modules = st.fx_modules
    BY <1>1, <2>1 DEF StateType
  <2>5. QED
    BY <1>1, <2>1, <2>3, <2>4, IdleKeeps
<1>7. ASSUME NEW c \in Channels(st), NEW i \in 1..Len(st.channels[c]) - 1,
             MoveFocusedModule(c, i, i + 1) \/ MoveFocusedModule(c, i + 1, i)
      PROVE  FxInv' /\ pending' = pending
  <2>1. i \in DOMAIN st.channels[c] /\ i + 1 \in DOMAIN st.channels[c]
    <3>1. Len(st.channels[c]) \in Nat /\ DOMAIN st.channels[c] = 1..Len(st.channels[c])
      BY <1>1, ChainDomain
    <3>2. QED
      BY <3>1
  <2>2. PICK k \in DOMAIN st.channels[c], l \in DOMAIN st.channels[c] : MoveFocusedModule(c, k, l)
    BY <2>1, <1>7
  <2>3. /\ st' = [st EXCEPT !.channels[c][k] = st.channels[c][l],
                            !.channels[c][l] = st.channels[c][k]]
        /\ next_id' = next_id
        /\ pending = <<>> /\ pending' = pending /\ fx_registry' = fx_registry /\ scan' = scan
    BY <2>2 DEF MoveFocusedModule, UserReduces, EngineAction, User, Idle
  <2>4. StateFits(st', next_id')
    BY <1>1, <2>3, MoveKeeps
  <2>5. st'.fx_modules = st.fx_modules
    BY <1>1, <2>3 DEF StateType
  <2>6. QED
    BY <1>1, <2>3, <2>4, <2>5, IdleKeeps
<1>8. ASSUME NEW c \in Channels(st), c # Main, InitiateMixerChannelDeletion(c)
      PROVE  FxInv' /\ NoUnload(pending')
  BY <1>8, DeletionOfChannelKeeps
<1>9. QED
  BY <1>2, <1>3, <1>4, <1>5, <1>6, <1>7, <1>8 DEF Edit

\* Learning changes what is learned and assigned, the rest of the state stays.
LEMMA MidiKeeps ==
  ASSUME FxInv, Midi \/ ReopenDevice
  PROVE  FxInv'
<1>1. next_id \in Nat /\ StateFits(st, next_id) /\ StateType(st)
  BY DEF FxInv, TypeOK
<1>2. CASE st' = st /\ pending' = pending /\ scan' = scan /\ fx_registry' = fx_registry
           /\ next_id' = next_id
  BY <1>2 DEF FxInv, TypeOK, PendingFits, Covers, OfKind, Modules
<1>3. ASSUME NEW p, StartMidiLearning(p) \/ StopMidiLearning
      PROVE  FxInv'
  <2>1. PICK q : st' = [st EXCEPT !.midi_learning = q]
    BY <1>3 DEF StartMidiLearning, StopMidiLearning, UserReduces, EngineAction
  <2>2. /\ pending = <<>> /\ pending' = pending /\ fx_registry' = fx_registry /\ scan' = scan
        /\ next_id' = next_id
    BY <1>3 DEF StartMidiLearning, StopMidiLearning, UserReduces, User, Idle
  <2>3. /\ DOMAIN st' = DOMAIN st /\ st'.channels = st.channels
        /\ st'.fx_modules = st.fx_modules /\ st'.focused = st.focused
        /\ st'.midi_assignments = st.midi_assignments
    BY <2>1, <1>1 DEF StateType
  <2>4. StateFits(st', next_id')
    BY <2>2, <2>3, <1>1, AssignKeeps DEF StateType
  <2>5. QED
    BY <1>1, <2>2, <2>3, <2>4, IdleKeeps
<1>4. CASE RequestInfoUpdate
  <2>1. /\ pending = <<>> /\ pending' = pending /\ fx_registry' = fx_registry /\ scan' = scan
        /\ next_id' = next_id
    BY <1>4 DEF RequestInfoUpdate, User, Idle
  <2>2. ASSUME NEW c, NEW p \in 0..next_id - 1,
               st' = [st EXCEPT !.midi_learning = None,
                                !.midi_assignments = IF c = None THEN @ ELSE Assigned(@, p, c)]
        PROVE  FxInv'
    <3>1. /\ DOMAIN st' = DOMAIN st /\ st'.channels = st.channels
          /\ st'.fx_modules = st.fx_modules /\ st'.focused = st.focused
          /\ st'.midi_assignments = IF c = None THEN st.midi_assignments
                                    ELSE Assigned(st.midi_assignments, p, c)
      BY <2>2, <1>1 DEF StateType
    <3>2. DOMAIN st'.midi_assignments \subseteq Nat
      <4>1. p \in Nat
        BY <1>1
      <4>2. DOMAIN Assigned(st.midi_assignments, p, c) \subseteq Nat
        BY <4>1, <1>1 DEF StateType, Assigned
      <4>3. QED
        BY <4>2, <3>1, <1>1 DEF StateType
    <3>3. StateFits(st', next_id')
      BY <2>1, <3>1, <3>2, <1>1, AssignKeeps
    <3>4. QED
      BY <1>1, <2>1, <3>1, <3>3, IdleKeeps
  <2>3. QED
    BY <2>1, <2>2, <1>2, <1>4 DEF RequestInfoUpdate
<1>5. CASE MidiEvent \/ ReopenDevice
  BY <1>2, <1>5 DEF MidiEvent, ReopenDevice
<1>6. QED
  BY <1>3, <1>4, <1>5 DEF Midi

LEMMA NextKeeps == FxInv /\ [Next]_vars => FxInv'
<1> SUFFICES ASSUME FxInv, [Next]_vars
             PROVE  FxInv'
  OBVIOUS
<1>1. CASE LoadSession \/ FinalizeScan \/ ReloadMissingPlugins
  BY <1>1, SessionKeeps, ScanKeeps, ReloadMissingKeeps
<1>2. CASE Batch
  BY <1>2, InsertInternalKeeps, LoadKeeps, DeleteModuleKeeps, OtherActionKeeps DEF Batch
<1>3. CASE Edit
  BY <1>3, EditKeeps
<1>4. CASE Midi \/ ReopenDevice
  BY <1>4, MidiKeeps
<1>5. CASE UNCHANGED vars
  BY <1>5 DEF vars, FxInv, TypeOK, PendingFits, Covers, OfKind, Modules
<1>6. QED
  BY <1>1, <1>2, <1>3, <1>4, <1>5 DEF Next

(* Whatever is found, loaded, edited and learned: the state and what is    *)
(* left of the batch fit.                                                  *)
THEOREM InvHolds == Spec => []FxInv
BY InitHolds, NextKeeps, PTL DEF Spec

(* The modules are those of the chains, each in one place of one chain,    *)
(* also in the middle of a batch.                                          *)
THEOREM ChainsStayApart == Spec => []ChainsAgree
<1>1. FxInv => ChainsAgree
  <2> SUFFICES ASSUME FxInv
               PROVE  ChainsAgree
    OBVIOUS
  <2>1. PlacesAgree(st)
    BY DEF FxInv, StateFits
  <2>2. UNION {ToSet(st.channels[c]) : c \in Channels(st)} = Modules(st)
    <3>1. ASSUME NEW c \in Channels(st), NEW m \in ToSet(st.channels[c])
          PROVE  m \in Modules(st)
      BY <2>1 DEF ToSet, PlacesAgree
    <3>2. ASSUME NEW m \in Modules(st)
          PROVE  \E c \in Channels(st) : m \in ToSet(st.channels[c])
      BY <2>1 DEF ToSet, PlacesAgree, StandsIn
    <3>3. QED
      BY <3>1, <3>2
  <2>3. ASSUME NEW c \in Channels(st)
        PROVE  IsInjective(st.channels[c])
    BY <2>1 DEF PlacesAgree, IsInjective
  <2>4. ASSUME NEW c \in Channels(st), NEW d \in Channels(st) \ {c}
        PROVE  ToSet(st.channels[c]) \cap ToSet(st.channels[d]) = {}
    BY <2>1 DEF PlacesAgree, ToSet
  <2>5. QED
    BY <2>2, <2>3, <2>4 DEF ChainsAgree
<1>2. QED
  BY <1>1, InvHolds, PTL

(* Each plugin still to come is loaded into the place of the module it     *)
(* replaces, and when the reload is over no module waits for a plugin that *)
(* was found and that loads.                                               *)
THEOREM ReloadMissesNone == Spec => []MissingIsReloaded
<1>1. FxInv => MissingIsReloaded
  <2> SUFFICES ASSUME FxInv
               PROVE  MissingIsReloaded
    OBVIOUS
  <2>1. ASSUME NextIs("delete_module"), NEW k \in DOMAIN pending \ {1},
               pending[k].do = "load", pending[k].position # npos
        PROVE  /\ pending[k].position \in DOMAIN st.channels[pending[k].chain]
               /\ pending[k - 1].module = st.channels[pending[k].chain][pending[k].position]
    <3>1. /\ pending[1].do = "delete_module" /\ 1 \in DOMAIN pending /\ Fits(st, pending)
          /\ Rest(pending, Tail(pending))
      BY <2>1, BatchStarts
    <3>2. k \in 2..Len(pending) /\ Len(pending) \in Nat /\ Len(pending) # 1
      BY <3>1 DEF Rest
    <3>3. Reload(st, pending)
      BY <2>1, <3>1, <3>2 DEF Fits, Aborts, Plain
    <3>4. k - 1 \in DOMAIN pending /\ k - 1 + 1 = k /\ k > 1
      BY <3>1, <3>2 DEF Rest
    <3>5. pending[k - 1].do = "delete_module"
      BY <2>1, <3>3, <3>4 DEF Reload, Paired
    <3>6. pending[k].chain = pending[k - 1].chain
      BY <3>3, <3>4, <3>5 DEF Reload, Paired
    <3>7. Stands(st, pending[k - 1].chain, PlaceNow(pending, pending[k - 1].chain,
                 pending[k - 1 + 1].position), pending[k - 1].module)
      BY <3>3, <3>4, <3>5 DEF Reload
    <3>8. PlaceNow(pending, pending[k - 1].chain, pending[k - 1 + 1].position)
            = pending[k].position
      BY <3>1, <3>4 DEF PlaceNow
    <3>9. QED
      BY <3>6, <3>7, <3>8 DEF Stands
  <2>2. ASSUME scan = "done", pending = <<>>, NEW m \in OfKind(st, "missing")
        PROVE  st.fx_modules[m].plugin \notin fx_registry \cap Loadable
    BY <2>2 DEF FxInv, PendingFits, Covers
  <2>3. QED
    BY <2>1, <2>2 DEF MissingIsReloaded
<1>2. QED
  BY <1>1, InvHolds, PTL

-----------------------------------------------------------------------------
(* The plugins and the assignments, while the audio thread answers.        *)

EngineType ==
    [open : BOOLEAN, stale : BOOLEAN, plugins : SUBSET Nat,
     learn : {"none", "listening", "learned"}]

\* The engine runs plugins of the state, and learns for its sake.
EngineFits(e, s) ==
    /\ e \in EngineType
    /\ e.plugins \subseteq OfKind(s, "ladspa")
    /\ ~e.open => e.plugins = {} /\ e.learn = "none"
    /\ e.learn # "none" => s.midi_learning # None

AssignmentsFit(s) ==
    DOMAIN s.midi_assignments \subseteq Params(s) /\ IsInjective(s.midi_assignments)

StateResolves(s) ==
    /\ OfKind(s, "ladspa") \subseteq s.fx_ladspa_instances
    /\ s.midi_learning \in Params(s) \cup {None}
    /\ AssignmentsFit(s)

TimelyInv ==
    /\ m_instances = OfKind(st, "ladspa") \cup ToUnload
    /\ EngineFits(engine, st)
    /\ StateResolves(st)

LEMMA AssignedFits ==
  ASSUME NEW f, IsInjective(f), NEW P, DOMAIN f \subseteq P, NEW id \in P, NEW control
  PROVE  DOMAIN Assigned(f, id, control) \subseteq P /\ IsInjective(Assigned(f, id, control))
<1> DEFINE g == Assigned(f, id, control)
<1>1. /\ DOMAIN g = {q \in DOMAIN f : f[q] # control} \cup {id}
      /\ g[id] = control
      /\ \A q \in DOMAIN g \ {id} : q \in DOMAIN f /\ g[q] = f[q] /\ f[q] # control
  BY DEF Assigned
<1> HIDE DEF g
<1>2. IsInjective(g)
  <2> SUFFICES ASSUME NEW p \in DOMAIN g, NEW q \in DOMAIN g, g[p] = g[q]
               PROVE  p = q
    BY DEF IsInjective
  <2>1. p # id /\ q # id => p \in DOMAIN f /\ q \in DOMAIN f /\ f[p] = f[q]
    BY <1>1
  <2>2. p # id /\ q # id => p = q
    BY <2>1 DEF IsInjective
  <2>3. p = id <=> q = id
    BY <1>1
  <2>4. QED
    BY <2>2, <2>3
<1>3. QED
  BY <1>1, <1>2 DEF g

LEMMA UnassignedFits ==
  ASSUME NEW f, IsInjective(f), NEW id
  PROVE  /\ DOMAIN Unassigned(f, id) = DOMAIN f \ {id}
         /\ IsInjective(Unassigned(f, id))
BY DEF Unassigned, IsInjective

\* A rebuild that is not late leaves an engine of the state it was made for.
LEMMA RebuildFits ==
  ASSUME NEW old \in EngineType, NEW s, StateType(s), NEW instances, Rebuild(old, s, instances),
         AssignmentsFit(s), ~engine'.stale,
         engine \in EngineType, ~engine.open => engine.plugins = {} /\ engine.learn = "none"
  PROVE  EngineFits(engine', s)
<1>1. OfKind(s, "ladspa") \subseteq Nat
  BY DEF StateType, OfKind, Modules
<1>2. CASE ~engine.open /\ engine' = engine
  BY <1>2 DEF EngineFits
<1>3. CASE engine' = [old EXCEPT !.stale = TRUE]
  BY <1>3 DEF EngineType
<1>4. CASE engine' = Built(s, instances)
  BY <1>1, <1>4 DEF Built, EngineFits, EngineType
<1>5. QED
  BY <1>2, <1>3, <1>4 DEF Rebuild, AssignmentsFit, AssignmentsHaveParams

LEMMA NoneToUnload ==
  NoUnload(pending) => ToUnload = {}
BY DEF NoUnload, ToUnload, ToSet

LEMMA NoneToUnloadNext ==
  NoUnload(pending') => ToUnload' = {}
BY DEF NoUnload, ToUnload, ToSet

\* Only when an unload is the next action is there one.
LEMMA UnloadIsNext ==
  ASSUME NEW s, NEW p, Fits(s, p), p[1].do # "unload"
  PROVE  NoUnload(p)
<1>1. CASE Aborts(p)
  BY <1>1 DEF Aborts, NoUnload
<1>2. CASE Plain(s, p)
  <2>1. SUFFICES ASSUME NEW k \in DOMAIN p, p[k].do = "unload"
                 PROVE  FALSE
    BY DEF NoUnload
  <2>2. Len(p) = 1
    BY <1>2, <2>1 DEF Plain
  <2>3. QED
    BY <1>2, <2>1, <2>2 DEF Plain
<1>3. CASE Reload(s, p)
  BY <1>3 DEF Reload, Paired, NoUnload
<1>4. QED
  BY <1>1, <1>2, <1>3 DEF Fits

LEMMA RestUnloadsNone ==
  ASSUME NEW p, NEW q, Rest(p, q), NoUnload(p)
  PROVE  NoUnload(q)
BY DEF Rest, NoUnload

\* What a step of the batch finds.
LEMMA TimelyStarts ==
  ASSUME FxInv, TimelyInv, NEW do, NextIs(do), do # "unload"
  PROVE  /\ NoUnload(pending) /\ NoUnload(Tail(pending))
         /\ m_instances = OfKind(st, "ladspa")
<1>1. pending[1].do = do /\ Fits(st, pending) /\ Rest(pending, Tail(pending))
  BY BatchStarts
<1>2. NoUnload(pending)
  BY <1>1, UnloadIsNext
<1>3. QED
  BY <1>1, <1>2, RestUnloadsNone, NoneToUnload DEF TimelyInv

LEMMA InsertResolves ==
  ASSUME NEW s, NEW n \in Nat, StateFits(s, n), StateResolves(s), NEW a, a.chain \in Channels(s),
         NEW module, NEW t, t = InsertModule(s, a, n, module)
  PROVE  /\ OfKind(t, "ladspa") = OfKind(s, "ladspa")
                                  \cup {m \in {n} : module.kind = "ladspa"}
         /\ OfKind(t, "ladspa") \subseteq t.fx_ladspa_instances
         /\ AssignmentsFit(t)
         /\ t.midi_learning = s.midi_learning
<1>1. Inserted(s, t, a, n, module)
  BY InsertFields DEF StateFits
<1>2. n \notin Modules(s)
  BY DEF StateFits, IdsAreGiven
<1>3. ASSUME NEW kind
      PROVE  OfKind(t, kind) = OfKind(s, kind) \cup {m \in {n} : module.kind = kind}
  BY <1>1, <1>2 DEF Inserted, OfKind
<1>4. OfKind(t, "ladspa") \subseteq t.fx_ladspa_instances
  <2>1. CASE module.kind = "ladspa"
    <3>1. t.fx_ladspa_instances = s.fx_ladspa_instances \cup {n}
      BY <1>1, <2>1 DEF Inserted
    <3>2. QED
      BY <3>1, <1>3 DEF StateResolves
  <2>2. CASE module.kind # "ladspa"
    <3>1. t.fx_ladspa_instances = s.fx_ladspa_instances
      BY <1>1, <2>2 DEF Inserted
    <3>2. QED
      BY <3>1, <2>2, <1>3 DEF StateResolves
  <2>3. QED
    BY <2>1, <2>2
<1>5. Params(s) \subseteq Params(t) /\ (module.kind # "missing" => n \in Params(t))
  <2>1. Channels(t) = Channels(s) /\ Modules(t) = Modules(s) \cup {n}
    BY <1>1 DEF Inserted
  <2>2. \A m \in Modules(s) : m \in OfKind(t, "missing") => m \in OfKind(s, "missing")
    BY <1>2, <1>3
  <2>3. module.kind # "missing" => n \notin OfKind(t, "missing")
    BY <1>2, <1>3 DEF OfKind
  <2>4. Params(s) \subseteq Params(t)
    BY <2>1, <2>2 DEF Params
  <2>5. QED
    BY <2>1, <2>3, <2>4 DEF Params
<1>6. AssignmentsFit(t)
  <2>1. CASE t.midi_assignments = s.midi_assignments
    BY <2>1, <1>5 DEF StateResolves, AssignmentsFit
  <2>2. CASE /\ module.kind # "missing"
             /\ t.midi_assignments = Assigned(s.midi_assignments, n, a.midi)
    <3>1. IsInjective(s.midi_assignments) /\ DOMAIN s.midi_assignments \subseteq Params(t)
      BY <1>5 DEF StateResolves, AssignmentsFit
    <3>2. n \in Params(t)
      BY <1>5, <2>2
    <3>3. QED
      BY <2>2, <3>1, <3>2, AssignedFits DEF AssignmentsFit
  <2>3. QED
    BY <1>1, <2>1, <2>2 DEF Inserted
<1>7. t.midi_learning = s.midi_learning
  BY <1>1 DEF Inserted
<1>8. QED
  BY <1>3, <1>4, <1>6, <1>7

LEMMA DeleteResolves ==
  ASSUME NEW s, StateType(s), StateResolves(s), NEW c \in Channels(s), NEW m,
         NEW erased \in BOOLEAN, NEW t, t = DeleteFxModule(s, c, m, erased)
  PROVE  /\ OfKind(t, "ladspa") = OfKind(s, "ladspa") \ {m}
         /\ OfKind(t, "ladspa") \subseteq t.fx_ladspa_instances
         /\ AssignmentsFit(t)
         /\ t.midi_learning = s.midi_learning
<1>1. Deleted(s, t, c, m)
  BY DeleteFields
<1>2. ASSUME NEW kind
      PROVE  OfKind(t, kind) = OfKind(s, kind) \ {m}
  BY <1>1 DEF Deleted, OfKind
<1>3. OfKind(t, "ladspa") \subseteq t.fx_ladspa_instances
  BY <1>1, <1>2 DEF Deleted, StateResolves
<1>4. Params(s) \ {m} \subseteq Params(t)
  BY <1>1, <1>2 DEF Deleted, Params
<1>5. /\ DOMAIN t.midi_assignments = DOMAIN s.midi_assignments \ {m}
      /\ IsInjective(t.midi_assignments)
  BY <1>1, UnassignedFits DEF Deleted, StateResolves, AssignmentsFit
<1>6. AssignmentsFit(t)
  BY <1>4, <1>5 DEF StateResolves, AssignmentsFit
<1>7. QED
  BY <1>1, <1>2, <1>3, <1>6 DEF Deleted

\* A reduced state without any other module, and the engine rebuilt for it.
LEMMA SameModulesKeep ==
  ASSUME NEW s, NEW t, StateResolves(s), t.fx_modules = s.fx_modules,
         t.fx_ladspa_instances = s.fx_ladspa_instances
  PROVE  /\ OfKind(t, "ladspa") = OfKind(s, "ladspa")
         /\ OfKind(t, "ladspa") \subseteq t.fx_ladspa_instances
         /\ Channels(s) \subseteq Channels(t) => Params(s) \subseteq Params(t)
         /\ \A c : Channels(t) = Channels(s) \ {c} => Params(s) \ {c} \subseteq Params(t)
BY DEF StateResolves, OfKind, Modules, Params

\* Everything but the plugins follows from the state and the rebuild of a step.
LEMMA EngineActionKeeps ==
  ASSUME FxInv', TimelyInv, NEW s, NEW instances, EngineAction(s, instances),
         ~engine'.stale, st'.midi_learning \in Params(st') \cup {None},
         AssignmentsFit(s), OfKind(s, "ladspa") \subseteq s.fx_ladspa_instances
  PROVE  EngineFits(engine, st)' /\ StateResolves(st)' /\ m_instances' = instances
<1>1. st' = s /\ m_instances' = instances /\ Rebuild(engine, s, instances)
  BY DEF EngineAction
<1>2. StateType(s)
  BY <1>1 DEF FxInv, TypeOK
<1>3. EngineFits(engine', s)
  BY <1>1, <1>2, RebuildFits DEF TimelyInv, EngineFits
<1>4. StateResolves(s)
  BY <1>1 DEF StateResolves
<1>5. QED
  BY <1>1, <1>3, <1>4

LEMMA TimelyBatch ==
  ASSUME FxInv, FxInv', TimelyInv, Batch, ~engine'.stale,
         st'.midi_learning \in Params(st') \cup {None}
  PROVE  TimelyInv'
<1>0. /\ StateFits(st, next_id) /\ StateType(st) /\ next_id \in Nat /\ StateResolves(st)
      /\ AssignmentsFit(st) /\ Main \in Channels(st)
  BY DEF FxInv, TypeOK, TimelyInv, StateResolves, StateFits, IdsAreGiven
<1>1. CASE InsertInternal
  <2> DEFINE module == [kind |-> "internal", plugin |-> None, midi |-> None]
             s == InsertModule(st, pending[1], next_id, module)
  <2>1. NextIs("insert_internal")
    BY <1>1 DEF InsertInternal
  <2>2. /\ NoUnload(Tail(pending)) /\ m_instances = OfKind(st, "ladspa")
        /\ Head(pending) = pending[1]
    BY <2>1, TimelyStarts, BatchStarts
  <2>3. pending[1].chain \in Channels(st)
    BY <2>1, BatchStarts DEF Fits, Aborts, Plain, Reload, Paired
  <2>4. EngineAction(s, m_instances) /\ pending' = Tail(pending)
    BY <1>1, <2>2 DEF InsertInternal
  <2>5. /\ OfKind(s, "ladspa") = OfKind(st, "ladspa")
                                  \cup {m \in {next_id} : module.kind = "ladspa"}
        /\ OfKind(s, "ladspa") \subseteq s.fx_ladspa_instances /\ AssignmentsFit(s)
    <3> HIDE DEF module
    <3>1. QED
      BY <1>0, <2>3, InsertResolves
  <2> HIDE DEF s
  <2>6. EngineFits(engine, st)' /\ StateResolves(st)' /\ m_instances' = m_instances
    BY <2>4, <2>5, EngineActionKeeps
  <2>7. OfKind(s, "ladspa") = OfKind(st, "ladspa") /\ st' = s
    BY <2>4, <2>5 DEF EngineAction
  <2>8. ToUnload' = {}
    BY <2>2, <2>4, NoneToUnloadNext
  <2>9. QED
    BY <2>2, <2>6, <2>7, <2>8 DEF TimelyInv
<1>2. CASE LoadLadspa
  <2> DEFINE a == pending[1]
             module(kind, midi) == [kind |-> kind, plugin |-> a.plugin, midi |-> midi]
             s(kind, midi) == InsertModule(st, a, next_id, module(kind, midi))
  <2>1. NextIs("load")
    BY <1>2 DEF LoadLadspa
  <2>2. /\ NoUnload(Tail(pending)) /\ m_instances = OfKind(st, "ladspa")
        /\ Head(pending) = a
    BY <2>1, TimelyStarts, BatchStarts
  <2>3. a.chain \in Channels(st)
    BY <2>1, BatchStarts DEF Fits, Aborts, Plain, Reload, Paired
  <2>4. /\ pending' = Tail(pending)
        /\ \/ EngineAction(s("ladspa", None), m_instances \cup {next_id})
           \/ st' = s("missing", a.midi) /\ UNCHANGED <<m_instances, engine>>
    BY <1>2, <2>2 DEF LoadLadspa
  <2>5. ASSUME NEW kind \in {"ladspa", "missing"}, NEW midi
        PROVE  /\ OfKind(s(kind, midi), "ladspa") = OfKind(st, "ladspa")
                                                    \cup {m \in {next_id} : kind = "ladspa"}
               /\ OfKind(s(kind, midi), "ladspa") \subseteq s(kind, midi).fx_ladspa_instances
               /\ AssignmentsFit(s(kind, midi))
               /\ s(kind, midi).midi_learning = st.midi_learning
    <3>1. module(kind, midi).kind = kind
      OBVIOUS
    <3> HIDE DEF module
    <3>2. QED
      BY <1>0, <2>3, <3>1, InsertResolves
  <2> HIDE DEF s
  <2>6. ToUnload' = {}
    BY <2>2, <2>4, NoneToUnloadNext
  <2>7. CASE EngineAction(s("ladspa", None), m_instances \cup {next_id})
    <3>1. EngineFits(engine, st)' /\ StateResolves(st)' /\ m_instances' = m_instances \cup {next_id}
      BY <2>5, <2>7, EngineActionKeeps
    <3>2. OfKind(s("ladspa", None), "ladspa") = OfKind(st, "ladspa") \cup {next_id}
          /\ st' = s("ladspa", None)
      BY <2>5, <2>7 DEF EngineAction
    <3>3. QED
      BY <2>2, <2>6, <3>1, <3>2 DEF TimelyInv
  <2>8. CASE st' = s("missing", a.midi) /\ UNCHANGED <<m_instances, engine>>
    <3>1. OfKind(st', "ladspa") = OfKind(st, "ladspa")
      BY <2>5, <2>8
    <3>2. StateResolves(st')
      BY <2>5, <2>8 DEF StateResolves
    <3>3. EngineFits(engine', st')
      BY <2>5, <2>8, <3>1 DEF TimelyInv, EngineFits
    <3>4. QED
      BY <2>2, <2>6, <2>8, <3>1, <3>2, <3>3 DEF TimelyInv
  <2>9. QED
    BY <2>4, <2>7, <2>8
<1>3. CASE DeleteModule
  <2> DEFINE m == pending[1].module
             c == pending[1].chain
             rest == Tail(pending)
             ladspa == OfKind(st, "ladspa")
  <2>1. NextIs("delete_module")
    BY <1>3 DEF DeleteModule
  <2>2. /\ NoUnload(rest) /\ m_instances = ladspa /\ Head(pending) = pending[1]
        /\ rest \in Seq(Action) /\ Rest(pending, rest) /\ Fits(st, pending)
        /\ pending \in Seq(Action) /\ pending[1].do = "delete_module"
    BY <2>1, TimelyStarts, BatchStarts
  <2>3. CASE c \notin Channels(st)
    BY <1>3, <2>2, <2>3 DEF DeleteModule, TimelyInv, ToUnload
  <2>4. CASE c \in Channels(st)
    <3>1. PICK erased \in BOOLEAN : EngineAction(DeleteFxModule(st, c, m, erased), m_instances)
      BY <1>3, <2>2, <2>4 DEF DeleteModule
    <3>2. st' = DeleteFxModule(st, c, m, erased)
      BY <3>1 DEF EngineAction
    <3>3. /\ OfKind(st', "ladspa") = ladspa \ {m}
          /\ OfKind(st', "ladspa") \subseteq st'.fx_ladspa_instances /\ AssignmentsFit(st')
      BY <1>0, <2>4, <3>2, DeleteResolves
    <3>4. EngineFits(engine, st)' /\ StateResolves(st)' /\ m_instances' = m_instances
      <4>1. EngineAction(st', m_instances)
        BY <3>1, <3>2
      <4>2. QED
        BY <3>1, <3>2, <3>3, EngineActionKeeps
    <3>5. ToUnload' = {m} \cap ladspa
      <4>1. CASE m \notin ladspa
        <5>1. pending' = <<>> \o rest
          BY <1>3, <2>2, <2>4, <4>1 DEF DeleteModule
        <5>2. pending' = rest
          BY <5>1, <2>2, ConcatEmptySeq
        <5>3. ToUnload' = {}
          BY <2>2, <5>2, NoneToUnloadNext
        <5>4. QED
          BY <4>1, <5>3
      <4>2. CASE m \in ladspa
        <5> DEFINE unload == [do |-> "unload", module |-> m]
                   one == <<unload>>
        <5>1. rest = <<>>
          <6> HIDE DEF rest
          <6>1. m \in OfKind(st, "ladspa") => rest = <<>>
            BY <1>0, <2>2, <2>4, <3>2, DeleteFits
          <6>2. QED
            BY <4>2, <6>1
        <5>2. one \in Seq({unload})
          OBVIOUS
        <5>3. pending' = one
          <6>1. pending' = one \o rest
            BY <1>3, <2>2, <2>4, <4>2 DEF DeleteModule
          <6>2. QED
            BY <5>1, <5>2, <6>1, ConcatEmptySeq
        <5>4. ToSet(pending') = {unload}
          BY <5>3 DEF ToSet
        <5>5. ToUnload' = {m}
          <6>1. unload.do = "unload" /\ unload.module = m
            OBVIOUS
          <6> HIDE DEF unload
          <6>2. {b \in ToSet(pending') : b.do = "unload"} = {unload}
            BY <5>4, <6>1
          <6>3. QED
            BY <6>1, <6>2 DEF ToUnload
        <5>6. QED
          BY <4>2, <5>5
      <4>3. QED
        BY <4>1, <4>2
    <3>6. QED
      BY <2>2, <3>3, <3>4, <3>5 DEF TimelyInv
  <2>5. QED
    BY <2>3, <2>4
<1>4. CASE Unload
  <2>1. NextIs("unload")
    BY <1>4 DEF Unload
  <2>2. /\ Head(pending) = pending[1] /\ pending[1].do = "unload" /\ Fits(st, pending)
        /\ Rest(pending, Tail(pending)) /\ 1 \in DOMAIN pending
    BY <2>1, BatchStarts
  <2>3. Len(pending) = 1 /\ pending[1].module \notin Modules(st)
    BY <2>2, OthersArePlain
  <2>4. ToUnload = {pending[1].module}
    <3>1. DOMAIN pending = {1}
      BY <2>2, <2>3 DEF Rest
    <3>2. ToSet(pending) = {pending[1]}
      BY <3>1 DEF ToSet
    <3>3. QED
      BY <2>2, <3>2 DEF ToUnload
  <2>5. ToUnload' = {}
    <3>1. pending' = Tail(pending) /\ DOMAIN Tail(pending) = {}
      BY <1>4, <2>2, <2>3 DEF Unload, Rest
    <3>2. NoUnload(pending')
      BY <3>1 DEF NoUnload
    <3>3. QED
      BY <3>2, NoneToUnloadNext
  <2>6. st' = st /\ engine' = engine /\ m_instances' = m_instances \ {pending[1].module}
    BY <1>4, <2>2 DEF Unload
  <2>7. m_instances' = OfKind(st, "ladspa")
    BY <2>3, <2>4, <2>6 DEF TimelyInv, OfKind
  <2>8. QED
    BY <2>5, <2>6, <2>7 DEF TimelyInv
<1>5. CASE AssignControl
  <2> DEFINE a == pending[1]
             s == [st EXCEPT !.midi_assignments = Assigned(@, a.id, a.control)]
  <2>1. NextIs("assign")
    BY <1>5 DEF AssignControl
  <2>2. /\ NoUnload(Tail(pending)) /\ m_instances = OfKind(st, "ladspa")
        /\ Head(pending) = a /\ a.do = "assign" /\ a \in Action
    BY <2>1, TimelyStarts, BatchStarts
  <2>3. a.id \in Params(st)
    BY <1>0, <2>2, ActionFields DEF Params
  <2>4. EngineAction(s, m_instances) /\ pending' = Tail(pending)
    BY <1>5, <2>2 DEF AssignControl
  <2>5. /\ s.fx_modules = st.fx_modules /\ s.channels = st.channels
        /\ s.fx_ladspa_instances = st.fx_ladspa_instances
        /\ s.midi_assignments = Assigned(st.midi_assignments, a.id, a.control)
    BY <1>0 DEF StateType
  <2> HIDE DEF s
  <2>6. /\ OfKind(s, "ladspa") = OfKind(st, "ladspa") /\ Params(st) \subseteq Params(s)
        /\ OfKind(s, "ladspa") \subseteq s.fx_ladspa_instances
    BY <1>0, <2>5, SameModulesKeep DEF Channels
  <2>7. AssignmentsFit(s)
    <3>1. IsInjective(st.midi_assignments) /\ DOMAIN st.midi_assignments \subseteq Params(s)
      BY <1>0, <2>6 DEF AssignmentsFit
    <3>2. a.id \in Params(s)
      BY <2>3, <2>6
    <3>3. /\ DOMAIN Assigned(st.midi_assignments, a.id, a.control) \subseteq Params(s)
          /\ IsInjective(Assigned(st.midi_assignments, a.id, a.control))
      <4> DEFINE f == st.midi_assignments
                 P == Params(s)
                 id == a.id
                 control == a.control
      <4>1. IsInjective(f) /\ DOMAIN f \subseteq P /\ id \in P
        BY <3>1, <3>2
      <4> HIDE DEF f, P, id, control
      <4>2. DOMAIN Assigned(f, id, control) \subseteq P /\ IsInjective(Assigned(f, id, control))
        BY <4>1, AssignedFits
      <4>3. QED
        BY <4>2 DEF f, P, id, control
    <3>4. QED
      BY <2>5, <3>3 DEF AssignmentsFit
  <2>8. EngineFits(engine, st)' /\ StateResolves(st)' /\ m_instances' = m_instances
    BY <2>4, <2>6, <2>7, EngineActionKeeps
  <2>9. ToUnload' = {} /\ st' = s
    BY <2>2, <2>4, NoneToUnloadNext DEF EngineAction
  <2>10. QED
    BY <2>2, <2>6, <2>8, <2>9 DEF TimelyInv
<1>6. CASE DeleteMixerChannel
  <2> DEFINE c == pending[1].channel
             s == RemoveMixerChannel(st, c)
  <2>1. NextIs("delete_channel")
    BY <1>6 DEF DeleteMixerChannel
  <2>2. /\ NoUnload(Tail(pending)) /\ m_instances = OfKind(st, "ladspa")
        /\ Head(pending) = pending[1]
    BY <2>1, TimelyStarts, BatchStarts
  <2>3. EngineAction(s, m_instances) /\ pending' = Tail(pending)
    BY <1>6, <2>2 DEF DeleteMixerChannel
  <2>4. /\ s.fx_modules = st.fx_modules
        /\ s.fx_ladspa_instances = st.fx_ladspa_instances
        /\ s.midi_assignments = Unassigned(st.midi_assignments, c)
        /\ Channels(s) = Channels(st) \ {c}
    BY <1>0 DEF StateType, RemoveMixerChannel, Channels
  <2> HIDE DEF s
  <2>5. /\ OfKind(s, "ladspa") = OfKind(st, "ladspa") /\ Params(st) \ {c} \subseteq Params(s)
        /\ OfKind(s, "ladspa") \subseteq s.fx_ladspa_instances
    BY <1>0, <2>4, SameModulesKeep
  <2>6. AssignmentsFit(s)
    <3>1. IsInjective(st.midi_assignments) /\ DOMAIN st.midi_assignments \subseteq Params(st)
      BY <1>0 DEF AssignmentsFit
    <3>2. DOMAIN Unassigned(st.midi_assignments, c) = DOMAIN st.midi_assignments \ {c}
      BY <3>1, UnassignedFits
    <3>3. IsInjective(Unassigned(st.midi_assignments, c))
      BY <3>1, UnassignedFits
    <3>4. QED
      BY <2>4, <2>5, <3>1, <3>2, <3>3 DEF AssignmentsFit
  <2>7. EngineFits(engine, st)' /\ StateResolves(st)' /\ m_instances' = m_instances
    BY <2>3, <2>5, <2>6, EngineActionKeeps
  <2>8. ToUnload' = {} /\ st' = s
    BY <2>2, <2>3, NoneToUnloadNext DEF EngineAction
  <2>9. QED
    BY <2>2, <2>5, <2>7, <2>8 DEF TimelyInv
<1>7. QED
  BY <1>1, <1>2, <1>3, <1>4, <1>5, <1>6 DEF Batch

\* What leaves the state, the plugins and the engine, and dispatches no unload.
LEMMA TimelyDispatch ==
  ASSUME TimelyInv, pending = <<>>, st' = st, m_instances' = m_instances, engine' = engine,
         NoUnload(pending')
  PROVE  TimelyInv'
<1>1. NoUnload(pending)
  BY DEF NoUnload
<1>2. ToUnload = {} /\ ToUnload' = {}
  BY <1>1, NoneToUnload, NoneToUnloadNext
<1>3. QED
  BY <1>2 DEF TimelyInv

\* One action of the user that is reduced at once and keeps the modules.
LEMMA TimelyReduced ==
  ASSUME FxInv', TimelyInv, pending = <<>>, pending' = pending, NEW s,
         EngineAction(s, m_instances), ~engine'.stale,
         st'.midi_learning \in Params(st') \cup {None},
         s.fx_modules = st.fx_modules, s.fx_ladspa_instances = st.fx_ladspa_instances,
         Channels(st) \subseteq Channels(s), s.midi_assignments = st.midi_assignments
  PROVE  TimelyInv'
<1>1. StateResolves(st)
  BY DEF TimelyInv
<1>2. /\ OfKind(s, "ladspa") = OfKind(st, "ladspa") /\ Params(st) \subseteq Params(s)
      /\ OfKind(s, "ladspa") \subseteq s.fx_ladspa_instances
  BY <1>1, SameModulesKeep
<1>3. AssignmentsFit(s)
  BY <1>1, <1>2 DEF StateResolves, AssignmentsFit
<1>4. EngineFits(engine, st)' /\ StateResolves(st)' /\ m_instances' = m_instances
  BY <1>2, <1>3, EngineActionKeeps
<1>5. ToUnload' = ToUnload /\ st' = s
  BY DEF ToUnload, EngineAction
<1>6. QED
  BY <1>2, <1>4, <1>5 DEF TimelyInv

LEMMA TimelyEdit ==
  ASSUME FxInv, FxInv', TimelyInv, Edit, ~engine'.stale,
         st'.midi_learning \in Params(st') \cup {None}
  PROVE  TimelyInv'
<1>0. StateType(st)
  BY DEF FxInv, TypeOK
<1>1. CASE AddMixerChannel
  <2> DEFINE s == [st EXCEPT !.channels = Added(@, next_id, <<>>)]
  <2>1. EngineAction(s, m_instances) /\ pending = <<>> /\ pending' = pending
    BY <1>1 DEF AddMixerChannel, User, Idle
  <2>2. /\ s.fx_modules = st.fx_modules /\ s.fx_ladspa_instances = st.fx_ladspa_instances
        /\ Channels(st) \subseteq Channels(s) /\ s.midi_assignments = st.midi_assignments
    BY <1>0 DEF StateType, Channels, Added
  <2> HIDE DEF s
  <2>3. QED
    BY <2>1, <2>2, TimelyReduced
<1>2. ASSUME NEW c, NEW m, FocusModule(c, m)
      PROVE  TimelyInv'
  <2>1. /\ st' = [st EXCEPT !.focused = [chain |-> c, module |-> m]]
        /\ pending' = pending /\ engine' = engine /\ m_instances' = m_instances
    BY <1>2 DEF FocusModule
  <2>2. /\ st'.fx_modules = st.fx_modules /\ st'.fx_ladspa_instances = st.fx_ladspa_instances
        /\ st'.channels = st.channels /\ st'.midi_assignments = st.midi_assignments
        /\ st'.midi_learning = st.midi_learning
    BY <1>0, <2>1 DEF StateType
  <2>3. \A kind : OfKind(st', kind) = OfKind(st, kind)
    BY <2>2 DEF OfKind, Modules
  <2>4. Params(st') = Params(st)
    BY <2>2, <2>3 DEF Params, Channels, Modules
  <2>5. StateResolves(st') /\ EngineFits(engine', st')
    BY <2>1, <2>2, <2>3, <2>4 DEF TimelyInv, StateResolves, AssignmentsFit, EngineFits
  <2>6. ToUnload' = ToUnload
    BY <2>1 DEF ToUnload
  <2>7. QED
    BY <2>1, <2>3, <2>5, <2>6 DEF TimelyInv
<1>3. ASSUME NEW c \in Channels(st), NEW k, NEW l, MoveFocusedModule(c, k, l)
      PROVE  TimelyInv'
  <2> DEFINE s == [st EXCEPT !.channels[c][k] = st.channels[c][l],
                             !.channels[c][l] = st.channels[c][k]]
  <2>1. EngineAction(s, m_instances) /\ pending = <<>> /\ pending' = pending
    BY <1>3 DEF MoveFocusedModule, UserReduces, User, Idle
  <2>2. /\ s.fx_modules = st.fx_modules /\ s.fx_ladspa_instances = st.fx_ladspa_instances
        /\ Channels(st) \subseteq Channels(s) /\ s.midi_assignments = st.midi_assignments
    BY <1>0 DEF StateType, Channels
  <2> HIDE DEF s
  <2>3. QED
    BY <2>1, <2>2, TimelyReduced
<1>4. ASSUME NEW actions, UserDispatches(actions)
      PROVE  TimelyInv'
  <2>1. /\ st' = st /\ m_instances' = m_instances /\ engine' = engine /\ pending = <<>>
    BY <1>4 DEF UserDispatches, User, Idle
  <2>2. NoUnload(pending)
    BY <2>1 DEF NoUnload
  <2>3. NoUnload(pending')
    BY <2>2, EditKeeps
  <2>4. QED
    BY <2>1, <2>3, TimelyDispatch
<1>5. QED
  BY <1>1, <1>2, <1>3, <1>4
     DEF Edit, AppendInternal, AppendLadspa, RemoveModule, InitiateMixerChannelDeletion

LEMMA TimelyMidi ==
  ASSUME FxInv, FxInv', TimelyInv, Midi, ~engine'.stale,
         st'.midi_learning \in Params(st') \cup {None}
  PROVE  TimelyInv'
<1>0. StateType(st) /\ EngineFits(engine, st) /\ StateResolves(st)
  BY DEF FxInv, TypeOK, TimelyInv
<1>1. ASSUME NEW p, StartMidiLearning(p) \/ StopMidiLearning
      PROVE  TimelyInv'
  <2>1. PICK q : UserReduces([st EXCEPT !.midi_learning = q])
    BY <1>1 DEF StartMidiLearning, StopMidiLearning
  <2> DEFINE s == [st EXCEPT !.midi_learning = q]
  <2>2. EngineAction(s, m_instances) /\ pending = <<>> /\ pending' = pending
    BY <2>1 DEF UserReduces, User, Idle
  <2>3. /\ s.fx_modules = st.fx_modules /\ s.fx_ladspa_instances = st.fx_ladspa_instances
        /\ Channels(st) \subseteq Channels(s) /\ s.midi_assignments = st.midi_assignments
    BY <1>0 DEF StateType, Channels
  <2> HIDE DEF s
  <2>4. QED
    BY <2>2, <2>3, TimelyReduced
<1>2. CASE MidiEvent
  <2>1. /\ engine' = [engine EXCEPT !.learn = "learned"] /\ engine.learn = "listening"
        /\ st' = st /\ m_instances' = m_instances /\ pending' = pending
    BY <1>2 DEF MidiEvent
  <2>2. EngineFits(engine', st)
    BY <1>0, <2>1 DEF EngineFits, EngineType
  <2>3. QED
    BY <2>1, <2>2 DEF TimelyInv, ToUnload
<1>3. CASE RequestInfoUpdate
  <2>1. st.midi_learning # None /\ m_instances' = m_instances /\ pending' = pending
    BY <1>0, <1>3 DEF RequestInfoUpdate, EngineFits
  <2>2. PICK c \in Control \cup {None}, p \in 0..next_id - 1 :
          /\ st.midi_learning \in {p, None}
          /\ st' = [st EXCEPT !.midi_learning = None,
                              !.midi_assignments = IF c = None THEN @ ELSE Assigned(@, p, c)]
          /\ Rebuild([engine EXCEPT !.learn = "none"], st', m_instances)
    BY <1>3, <2>1 DEF RequestInfoUpdate
  <2>3. p \in Params(st)
    BY <1>0, <2>1, <2>2 DEF StateResolves
  <2>4. /\ st'.fx_modules = st.fx_modules /\ st'.fx_ladspa_instances = st.fx_ladspa_instances
        /\ st'.channels = st.channels
        /\ st'.midi_assignments = IF c = None THEN st.midi_assignments
                                  ELSE Assigned(st.midi_assignments, p, c)
    BY <1>0, <2>2 DEF StateType
  <2>5. /\ OfKind(st', "ladspa") = OfKind(st, "ladspa") /\ Params(st) \subseteq Params(st')
        /\ OfKind(st', "ladspa") \subseteq st'.fx_ladspa_instances
    BY <1>0, <2>4, SameModulesKeep DEF Channels
  <2>6. AssignmentsFit(st')
    <3> DEFINE f == st.midi_assignments
               P == Params(st')
    <3>1. IsInjective(f) /\ DOMAIN f \subseteq P /\ p \in P
      BY <1>0, <2>3, <2>5 DEF StateResolves, AssignmentsFit
    <3>2. st'.midi_assignments = IF c = None THEN f ELSE Assigned(f, p, c)
      BY <2>4
    <3> HIDE DEF f, P
    <3>3. DOMAIN Assigned(f, p, c) \subseteq P /\ IsInjective(Assigned(f, p, c))
      BY <3>1, AssignedFits
    <3>4. DOMAIN st'.midi_assignments \subseteq P /\ IsInjective(st'.midi_assignments)
      BY <3>1, <3>2, <3>3
    <3>5. QED
      BY <3>4 DEF AssignmentsFit, P
  <2>7. EngineFits(engine', st')
    <3>1. [engine EXCEPT !.learn = "none"] \in EngineType
      BY <1>0 DEF EngineFits, EngineType
    <3>2. StateType(st')
      BY DEF FxInv, TypeOK
    <3>3. QED
      BY <1>0, <2>2, <2>6, <3>1, <3>2, RebuildFits DEF EngineFits
  <2>8. StateResolves(st')
    BY <2>5, <2>6 DEF StateResolves
  <2>9. ToUnload' = ToUnload
    BY <2>1 DEF ToUnload
  <2>10. QED
    BY <2>1, <2>5, <2>7, <2>8, <2>9 DEF TimelyInv
<1>4. QED
  BY <1>1, <1>2, <1>3 DEF Midi

LEMMA TimelyReopen ==
  ASSUME FxInv, TimelyInv, ReopenDevice, ~engine'.stale
  PROVE  TimelyInv'
<1>1. st' = st /\ m_instances' = m_instances /\ pending' = pending
  BY DEF ReopenDevice
<1>2. EngineFits(engine', st)
  <2>1. CASE engine' = Closed
    BY <2>1 DEF Closed, EngineFits, EngineType
  <2>2. CASE engine' = [Built(st, m_instances) EXCEPT
                           !.plugins = OfKind(st, "ladspa") \cap m_instances]
    <3>1. OfKind(st, "ladspa") \subseteq Nat
      BY DEF FxInv, TypeOK, StateType, OfKind, Modules
    <3>2. QED
      BY <2>2, <3>1 DEF Built, EngineFits, EngineType
  <2>3. CASE engine' = [Closed EXCEPT !.open = TRUE, !.stale = TRUE]
    BY <2>3 DEF Closed
  <2>4. QED
    BY <2>1, <2>2, <2>3 DEF ReopenDevice
<1>3. QED
  BY <1>1, <1>2 DEF TimelyInv, ToUnload

LEMMA TimelyInit == Init => TimelyInv
<1> SUFFICES ASSUME Init
             PROVE  TimelyInv
  OBVIOUS
<1>1. /\ DOMAIN st.fx_modules = {} /\ DOMAIN st.midi_assignments = {}
      /\ st.midi_learning = None /\ m_instances = {} /\ engine = Closed /\ pending = <<>>
  BY DEF Init
<1>2. \A kind : OfKind(st, kind) = {}
  BY <1>1 DEF OfKind, Modules
<1>3. EngineFits(engine, st)
  BY <1>1 DEF Closed, EngineFits, EngineType
<1>4. IsInjective(st.midi_assignments)
  BY <1>1 DEF IsInjective
<1>5. StateResolves(st)
  BY <1>1, <1>2, <1>4 DEF StateResolves, AssignmentsFit
<1>6. ToUnload = {}
  BY <1>1, NoneToUnload DEF NoUnload
<1>7. QED
  BY <1>1, <1>2, <1>3, <1>5, <1>6 DEF TimelyInv

LEMMA TimelyKeeps == FxInv /\ TimelyInv /\ [TimelyNext]_vars => FxInv' /\ TimelyInv'
<1> SUFFICES ASSUME FxInv, TimelyInv, [TimelyNext]_vars
             PROVE  FxInv' /\ TimelyInv'
  OBVIOUS
<1>1. FxInv'
  BY NextKeeps DEF TimelyNext
<1>2. CASE UNCHANGED vars
  BY <1>1, <1>2 DEF vars, TimelyInv, ToUnload
<1>3. CASE TimelyNext
  <2>1. ~engine'.stale /\ st'.midi_learning \in Params(st') \cup {None}
    BY <1>3 DEF TimelyNext
  <2>2. CASE LoadSession \/ ReloadMissingPlugins
    <3>1. NoUnload(pending')
      BY <2>2, SessionKeeps, ReloadMissingKeeps
    <3>2. pending = <<>> /\ st' = st /\ m_instances' = m_instances /\ engine' = engine
      BY <2>2 DEF LoadSession, ReloadMissingPlugins, Idle
    <3>3. QED
      BY <1>1, <3>1, <3>2, TimelyDispatch
  <2>3. CASE FinalizeScan
    BY <1>1, <2>3 DEF FinalizeScan, TimelyInv, ToUnload
  <2>4. CASE Batch
    BY <1>1, <2>1, <2>4, TimelyBatch
  <2>5. CASE Edit
    BY <1>1, <2>1, <2>5, TimelyEdit
  <2>6. CASE Midi
    BY <1>1, <2>1, <2>6, TimelyMidi
  <2>7. CASE ReopenDevice
    BY <1>1, <2>1, <2>7, TimelyReopen
  <2>8. QED
    BY <1>3, <2>2, <2>3, <2>4, <2>5, <2>6, <2>7 DEF TimelyNext, Next
<1>4. QED
  BY <1>2, <1>3

LEMMA TimelyInvHolds == TimelySpec => [](FxInv /\ TimelyInv)
BY InitHolds, TimelyInit, TimelyKeeps, PTL DEF TimelySpec

(* While the audio thread answers: the plugins that are loaded are those   *)
(* of the LADSPA modules and those about to be unloaded, and none is       *)
(* unloaded while the engine runs it.                                      *)
THEOREM PluginsStayLoaded == TimelySpec => []PluginsAgree
<1>1. FxInv /\ TimelyInv => PluginsAgree
  BY DEF TimelyInv, StateResolves, EngineFits, PluginsAgree
<1>2. QED
  BY <1>1, TimelyInvHolds, PTL

(* What the state refers to exists, and while something is learned the     *)
(* state knows for which parameter.                                        *)
THEOREM ReferencesStayResolved == TimelySpec => []ReferencesResolve
<1>1. FxInv /\ TimelyInv => ReferencesResolve
  <2> SUFFICES ASSUME FxInv, TimelyInv
               PROVE  ReferencesResolve
    OBVIOUS
  <2>1. AssignmentsResolve
    BY DEF TimelyInv, StateResolves, AssignmentsFit, AssignmentsResolve, AssignmentsHaveParams
  <2>2. engine.learn \in {"listening", "learned"} => st.midi_learning # None
    BY DEF TimelyInv, EngineFits
  <2>3. ASSUME StandsIn(st, st.focused.chain, st.focused.module)
        PROVE  /\ st.focused.chain \in Channels(st)
               /\ Contains(st.channels[st.focused.chain], st.focused.module)
    <3>1. StateType(st) /\ st.focused.chain \in Channels(st)
      BY <2>3 DEF FxInv, TypeOK, StandsIn
    <3>2. DOMAIN st.channels[st.focused.chain] = 1..Len(st.channels[st.focused.chain])
      BY <3>1, ChainDomain
    <3>3. QED
      BY <2>3, <3>1, <3>2 DEF StandsIn, Contains
  <2>4. QED
    BY <2>1, <2>2, <2>3 DEF FxInv, StateFits, FocusResolves, SelectionsResolve, ReferencesResolve
<1>2. QED
  BY <1>1, TimelyInvHolds, PTL
=============================================================================
