---------------------------- MODULE ViewsProofs ----------------------------
(***************************************************************************)
(* That the views follow the state, and that no slot calls a model that is *)
(* gone, for whatever channels and modules there are and however many      *)
(* actions and subscriptions.  The invariant is on the record of the user  *)
(* interface, so that each edit of a list of rows is a step from one       *)
(* record to the next; the edits of a script are followed one by one.      *)
(***************************************************************************)
EXTENDS Views, SequenceTheorems, WellFoundedInduction, TLAPS

-----------------------------------------------------------------------------
(* The invariant.  What holds of the views is said of a record, so that it can *)
(* be said of one in the middle of an edit as well.                            *)

Strips == [kind : {"strip"}, id : MixerChannel, copy : 1..2]
Entries == [kind : {"entry"}, id : Module, copy : 1..2]
Models == {mixer, main_strip} \cup Strips \cup Entries

ListOf(o) == IF o.kind = "mixer" THEN "inputs" ELSE "chain"
IdsOf(o) == IF o.kind = "mixer" THEN MixerChannel ELSE Module
RowsOf(o) == IF o.kind = "mixer" THEN Strips ELSE Entries
Whats(o) == ToSet(Observed[o.kind])

IsUi(ui) ==
    ui = [shown |-> ui.shown, rows |-> ui.rows, subscribed |-> ui.subscribed,
          slots |-> ui.slots, calls |-> ui.calls]

\* Each model but those of the mixer and its main strip is one row of one list.
TreeFits(ui) ==
    /\ DOMAIN ui.shown \subseteq Models /\ mixer \in DOMAIN ui.shown
    /\ main_strip \in DOMAIN ui.shown
    /\ DOMAIN ui.rows = {o \in DOMAIN ui.shown : o.kind # "entry"}
    /\ \A o \in DOMAIN ui.rows : ui.rows[o] \in Seq(DOMAIN ui.shown \cap RowsOf(o))
    /\ \A o, p \in DOMAIN ui.rows : \A i \in DOMAIN ui.rows[o], j \in DOMAIN ui.rows[p] :
           ui.rows[o][i] = ui.rows[p][j] => o = p /\ i = j
    /\ \A r \in DOMAIN ui.shown \ {mixer, main_strip} :
           \E o \in DOMAIN ui.rows : \E i \in DOMAIN ui.rows[o] : ui.rows[o][i] = r

\* The rows of each list are those it was last handed; chains share no module.
ShownFits(ui) ==
    /\ \A o \in DOMAIN ui.shown : DOMAIN ui.shown[o] = Whats(o)
    /\ \A o \in DOMAIN ui.rows :
           /\ ui.shown[o][ListOf(o)] \in Seq(IdsOf(o)) /\ IsInjective(ui.shown[o][ListOf(o)])
           /\ Ids(ui.rows[o]) = ui.shown[o][ListOf(o)]
    /\ \A o, p \in DOMAIN ui.rows \ {mixer} :
           ToSet(ui.shown[o]["chain"]) \cap ToSet(ui.shown[p]["chain"]) # {} => o = p

Key(slot) == <<slot.model, slot.what>>

\* A model that is subscribed has a slot for each thing it observes, and shows
\* what that slot was last called with.
SlotsFit(ui) ==
    /\ ui.subscribed \subseteq DOMAIN ui.shown
    /\ \A i \in DOMAIN ui.slots :
           /\ ui.slots[i] = [model |-> ui.slots[i].model, what |-> ui.slots[i].what,
                             last |-> ui.slots[i].last]
           /\ ui.slots[i].model \in ui.subscribed /\ ui.slots[i].what \in Whats(ui.slots[i].model)
    /\ ui.slots \in Seq(ToSet(ui.slots))
    /\ \A i, j \in DOMAIN ui.slots : Key(ui.slots[i]) = Key(ui.slots[j]) => i = j
    /\ \A o \in ui.subscribed : \A what \in Whats(o) :
           \E i \in DOMAIN ui.slots : Key(ui.slots[i]) = <<o, what>>
    /\ \A i \in DOMAIN ui.slots :
           ui.shown[ui.slots[i].model][ui.slots[i].what]
               = Showing(ui.slots[i].model, ui.slots[i].what, ui.slots[i].last)

\* A call that is not void is that of a slot which has not been called since.
CallsFit(ui) ==
    /\ \A i \in DOMAIN ui.calls :
           /\ ui.calls[i] = [model |-> ui.calls[i].model, what |-> ui.calls[i].what,
                             last |-> ui.calls[i].last, token |-> ui.calls[i].token]
           /\ ui.calls[i].token \in {"held", "expired"}
           /\ ui.calls[i].token = "held" =>
                \E j \in DOMAIN ui.slots :
                    Key(ui.slots[j]) = Key(ui.calls[i]) /\ ui.slots[j].last = ui.calls[i].last
    /\ ui.calls \in Seq(ToSet(ui.calls))
    /\ \A i, j \in DOMAIN ui.calls : Key(ui.calls[i]) = Key(ui.calls[j]) => i = j

\* A module is only ever in the chain of one channel.
ChainsFit(ui, s) ==
    \A o \in DOMAIN ui.rows \ {mixer}, c \in DOMAIN s.channels :
        ToSet(ui.shown[o]["chain"]) \cap ToSet(s.channels[c].fx_chain) # {} => c = o.id

\* What a slot would select now is what it was last called with, or it is
\* still to be called.
SlotsFollow(ui, s) ==
    \A i \in DOMAIN ui.slots :
        \/ ui.slots[i].last = Selected(s, ui.slots[i].model, ui.slots[i].what)
        \/ \E j \in DOMAIN ui.calls :
               Key(ui.calls[j]) = Key(ui.slots[i]) /\ ui.calls[j].token = "held"

StateFits(s) ==
    /\ s = [channels |-> s.channels, inputs |-> s.inputs, fx_modules |-> s.fx_modules,
            focused |-> s.focused]
    /\ s.inputs \in Seq(MixerChannel) /\ IsInjective(s.inputs)
    /\ \A c \in DOMAIN s.channels :
           /\ s.channels[c] = [name |-> s.channels[c].name, fx_chain |-> s.channels[c].fx_chain]
           /\ s.channels[c].fx_chain \in Seq(Module) /\ IsInjective(s.channels[c].fx_chain)
    /\ \A c, d \in DOMAIN s.channels :
           ToSet(s.channels[c].fx_chain) \cap ToSet(s.channels[d].fx_chain) # {} => c = d

\* The ids that the state and the views know have been given.
UsedFits(ui, s, ids) ==
    /\ ToSet(s.inputs) \subseteq ids
    /\ \A c \in DOMAIN s.channels : ToSet(s.channels[c].fx_chain) \subseteq ids
    /\ \A o \in DOMAIN ui.rows \ {mixer} : ToSet(ui.shown[o]["chain"]) \subseteq ids

Unseen(ui, s, m) ==
    /\ \A c \in DOMAIN s.channels : m \notin ToSet(s.channels[c].fx_chain)
    /\ \A o \in DOMAIN ui.rows \ {mixer} : m \notin ToSet(ui.shown[o]["chain"])

\* An action can be reduced as it was meant.
InsertFits(ui, s, ids, a) ==
    /\ a.do = "insert_module" /\ a.module \in Module /\ a.pos \in Nat
    /\ a.channel \in DOMAIN s.channels /\ Unseen(ui, s, a.module) /\ a.module \in ids

ActionFits(ui, s, ids, a) ==
    CASE a.do = "add_channel" ->
            a.channel \in MixerChannel /\ a.channel \notin ToSet(s.inputs) /\ a.channel \in ids
      [] a.do = "delete_channel" -> a.channel \in ToSet(s.inputs)
      [] a.do = "move_channel" -> a.pos \in 1..Len(s.inputs) - 1
      [] a.do = "insert_module" -> InsertFits(ui, s, ids, a)
      [] a.do = "delete_module" ->
            a.channel \in DOMAIN s.channels /\ a.module \in ToSet(s.channels[a.channel].fx_chain)
      [] a.do = "move_module" ->
            s.focused.chain \in DOMAIN s.channels =>
                a.pos \in 1..Len(s.channels[s.focused.chain].fx_chain) - 1
      [] OTHER -> a.do \in {"set_channel_name", "focus_module"}

\* At most two actions are reduced with one notification.
BatchFits(ui, s, ids, batch) ==
    \/ \E a \in ToSet(batch) : batch = <<a>> /\ ActionFits(ui, s, ids, a)
    \/ \E a, b \in ToSet(batch) :
           /\ batch = <<a, b>> /\ a.do = "delete_module" /\ ActionFits(ui, s, ids, a)
           /\ InsertFits(ui, s, ids, b)

QueueFits(ui, s, ids, list) ==
    list # <<>> =>
        \E batch \in ToSet(list) :
            /\ list = <<batch>>
            /\ \/ BatchFits(ui, s, ids, batch)
               \/ batch[1].do = "thunk" /\ batch = Thunk(batch[1].dispatches)
                  /\ BatchFits(ui, s, ids, batch[1].dispatches)

UiFits(ui) == IsUi(ui) /\ TreeFits(ui) /\ ShownFits(ui)

\* What holds of the views, the state, the ids given and what is to be reduced.
ViewsHold(ui, s, ids, list) ==
    /\ UiFits(ui) /\ SlotsFit(ui) /\ CallsFit(ui)
    /\ StateFits(s) /\ ChainsFit(ui, s) /\ UsedFits(ui, s, ids)
    /\ QueueFits(ui, s, ids, list)
    /\ list # <<>> => ui.calls = <<>>
    /\ list = <<>> => SlotsFollow(ui, s)

ViewsInv == ViewsHold(Ui, st, used, queue) /\ stray = FALSE
-----------------------------------------------------------------------------
(* Numbers and lists. *)

\* A set of numbers has a least one.
LEMMA LeastIsThere ==
    ASSUME NEW values \in SUBSET Nat, values # {}
    PROVE  \E x \in values : \A y \in values : x <= y
<1>1. PICK x \in values : \A y \in values : ~(<<y, x>> \in OpToRel(<, Nat))
    <2>1. IsWellFoundedOn(OpToRel(<, Nat), Nat)
        BY NatLessThanWellFounded
    <2> QED
        BY <2>1, WFMin
<1>2. \A y \in values : x <= y
    <2> SUFFICES ASSUME NEW y \in values PROVE x <= y
        OBVIOUS
    <2>1. x \in Nat /\ y \in Nat
        OBVIOUS
    <2>2. ~(y < x)
        BY <1>1, <2>1 DEF OpToRel
    <2> QED
        BY <2>1, <2>2
<1> QED
    BY <1>2

\* A list is one of the things that are in it.
LEMMA ListOfItsOwn ==
    ASSUME NEW S, NEW list \in Seq(S)
    PROVE  /\ list \in Seq(ToSet(list))
           /\ DOMAIN list = 1 .. Len(list) /\ Len(list) \in Nat
           /\ ToSet(list) \subseteq S
           /\ \A i \in 1 .. Len(list) : list[i] \in S
<1>1. /\ Len(list) \in Nat /\ list \in [1 .. Len(list) -> S]
      /\ DOMAIN list = 1 .. Len(list)
    BY LenProperties
<1>2. \A i \in 1 .. Len(list) : list[i] \in ToSet(list)
    BY <1>1 DEF ToSet
<1>3. list \in [1 .. Len(list) -> ToSet(list)]
    BY <1>1, <1>2
<1>4. list \in Seq(ToSet(list))
    BY <1>1, <1>3, SeqDef
<1> QED
    BY <1>1, <1>4 DEF ToSet

\* A list whose elements are of a set is a list over that set.
LEMMA ListOver ==
    ASSUME NEW S, NEW T, NEW list \in Seq(S), \A i \in 1 .. Len(list) : list[i] \in T
    PROVE  list \in Seq(T)
<1>1. Len(list) \in Nat /\ list \in [1 .. Len(list) -> S]
    BY LenProperties
<1>2. list \in [1 .. Len(list) -> T]
    BY <1>1
<1> QED
    BY <1>1, <1>2, SeqDef

\* A function on the first numbers is a list.
LEMMA FunctionIsList ==
    ASSUME NEW T, NEW n \in Nat, NEW f \in [1 .. n -> T]
    PROVE  f \in Seq(T) /\ Len(f) = n
<1>1. f \in Seq(T)
    BY SeqDef
<1>2. DOMAIN f = 1 .. Len(f) /\ Len(f) \in Nat
    BY <1>1, LenProperties
<1> QED
    BY <1>1, <1>2

\* What is after an insertion at a position.
LEMMA Inserted ==
    ASSUME NEW S, NEW s \in Seq(S), NEW i \in 1 .. Len(s) + 1, NEW e \in S
    PROVE  /\ InsertAt(s, i, e) \in Seq(S)
           /\ Len(InsertAt(s, i, e)) = Len(s) + 1
           /\ InsertAt(s, i, e)[i] = e
           /\ \A k \in 1 .. i - 1 : InsertAt(s, i, e)[k] = s[k]
           /\ \A k \in i + 1 .. Len(s) + 1 : InsertAt(s, i, e)[k] = s[k - 1]
<1> DEFINE left == SubSeq(s, 1, i - 1)
           right == SubSeq(s, i, Len(s))
           upto == left \o <<e>>
           all == upto \o right
<1>1. /\ left \in Seq(S) /\ Len(left) = i - 1
      /\ \A k \in 1 .. i - 1 : left[k] = s[k]
    BY SubSeqProperties
<1>2. /\ right \in Seq(S) /\ Len(right) = Len(s) - i + 1
      /\ \A k \in 1 .. Len(s) - i + 1 : right[k] = s[k + i - 1]
    BY SubSeqProperties
<1>3. InsertAt(s, i, e) = all
    BY DEF InsertAt
<1> HIDE DEF left, right
<1>4. /\ upto \in Seq(S) /\ Len(upto) = i
      /\ \A k \in 1 .. i : upto[k] = IF k = i THEN e ELSE s[k]
    BY <1>1
<1> HIDE DEF upto
<1> i \in Nat
    OBVIOUS
<1>5. /\ all \in Seq(S) /\ Len(all) = i + Len(right)
      /\ \A k \in 1 .. i : all[k] = upto[k]
      /\ \A k \in i + 1 .. i + Len(right) : all[k] = right[k - i]
    <2>1. upto \in Seq(S) /\ right \in Seq(S) /\ Len(upto) = i
        BY <1>2, <1>4
    <2> QED
        BY <2>1
<1> HIDE DEF all
<1>6. Len(s) \in Nat
    OBVIOUS
<1>7. ASSUME NEW k \in 1 .. i - 1 PROVE all[k] = s[k]
    <2>1. k \in 1 .. i /\ k # i
        BY <1>6
    <2>2. all[k] = upto[k]
        BY <1>5, <2>1
    <2>3. upto[k] = s[k]
        BY <1>4, <2>1
    <2> QED
        BY <2>2, <2>3
<1>8. ASSUME NEW k \in i + 1 .. Len(s) + 1 PROVE all[k] = s[k - 1]
    <2>1. k \in i + 1 .. i + Len(right) /\ k - i \in 1 .. Len(s) - i + 1
        BY <1>2, <1>6
    <2>2. all[k] = right[k - i]
        BY <1>5, <2>1
    <2>3. right[k - i] = s[(k - i) + i - 1]
        BY <1>2, <2>1
    <2>4. (k - i) + i - 1 = k - 1
        BY <1>6
    <2> QED
        BY <2>2, <2>3, <2>4
<1> QED
    BY <1>2, <1>3, <1>4, <1>5, <1>6, <1>7, <1>8

\* What is left when a position is taken out.
LEMMA Removed ==
    ASSUME NEW S, NEW s \in Seq(S), NEW i \in 1 .. Len(s)
    PROVE  /\ RemoveAt(s, i) \in Seq(S)
           /\ Len(RemoveAt(s, i)) = Len(s) - 1
           /\ \A k \in 1 .. Len(s) - 1 :
                RemoveAt(s, i)[k] = IF k < i THEN s[k] ELSE s[k + 1]
<1> DEFINE left == SubSeq(s, 1, i - 1)
           right == SubSeq(s, i + 1, Len(s))
           all == left \o right
<1>0. i \in Nat /\ Len(s) \in Nat /\ i >= 1 /\ i <= Len(s)
    OBVIOUS
<1>1. /\ left \in Seq(S) /\ Len(left) = i - 1
      /\ \A k \in 1 .. i - 1 : left[k] = s[k]
    BY SubSeqProperties
<1>2. /\ right \in Seq(S) /\ Len(right) = Len(s) - i
      /\ \A k \in 1 .. Len(s) - i : right[k] = s[k + i]
    <2>1. /\ right \in Seq(S)
          /\ Len(right) = IF i + 1 <= Len(s) THEN Len(s) - (i + 1) + 1 ELSE 0
          /\ \A k \in 1 .. Len(s) - (i + 1) + 1 : right[k] = s[(i + 1) + k - 1]
        <3>1. i + 1 \in Int /\ Len(s) \in Int /\ \A k \in i + 1 .. Len(s) : s[k] \in S
            BY <1>0
        <3> QED
            BY <3>1, SubSeqProperties
    <2>2. Len(s) - (i + 1) + 1 = Len(s) - i
        BY <1>0
    <2>3. \A k \in 1 .. Len(s) - i : (i + 1) + k - 1 = k + i
        BY <1>0
    <2> HIDE DEF right
    <2>4. Len(right) = Len(s) - i
        BY <2>1, <1>0
    <2>5. ASSUME NEW k \in 1 .. Len(s) - i PROVE right[k] = s[k + i]
        <3>1. k \in 1 .. Len(s) - (i + 1) + 1
            BY <2>2
        <3>2. right[k] = s[(i + 1) + k - 1]
            BY <2>1, <3>1
        <3> QED
            BY <2>3, <3>2
    <2> QED
        BY <2>1, <2>4, <2>5
<1>3. RemoveAt(s, i) = all
    BY DEF RemoveAt
<1> HIDE DEF left, right
<1>4. /\ all \in Seq(S) /\ Len(all) = Len(left) + Len(right)
      /\ \A k \in 1 .. Len(left) : all[k] = left[k]
      /\ \A k \in Len(left) + 1 .. Len(left) + Len(right) : all[k] = right[k - Len(left)]
    <2>1. left \in Seq(S) /\ right \in Seq(S)
        BY <1>1, <1>2
    <2> QED
        BY <2>1, ConcatProperties
<1> HIDE DEF all
<1>5. Len(all) = Len(s) - 1
    BY <1>0, <1>1, <1>2, <1>4
<1>6. ASSUME NEW k \in 1 .. Len(s) - 1
      PROVE  all[k] = IF k < i THEN s[k] ELSE s[k + 1]
    <2>1. CASE k < i
        <3>1. k \in 1 .. Len(left) /\ k \in 1 .. i - 1
            BY <1>0, <1>1, <2>1
        <3> QED
            BY <1>1, <1>4, <2>1, <3>1
    <2>2. CASE ~(k < i)
        <3>1. k \in Len(left) + 1 .. Len(left) + Len(right) /\ k - Len(left) = k - i + 1
              /\ k - i + 1 \in 1 .. Len(s) - i /\ (k - i + 1) + i = k + 1
            BY <1>0, <1>1, <1>2, <2>2
        <3>2. all[k] = right[k - i + 1]
            BY <1>4, <3>1
        <3>3. right[k - i + 1] = s[(k - i + 1) + i]
            BY <1>2, <3>1
        <3> QED
            BY <2>2, <3>1, <3>2, <3>3
    <2> QED
        BY <2>1, <2>2
<1> QED
    BY <1>3, <1>4, <1>5, <1>6

-----------------------------------------------------------------------------
(* The edits of a script, one after the other. *)

Unedited(ui) == [ui |-> ui, deletion_offset |-> 0]

AreEdited(f, ui, o, list, m) ==
    f = [n \in 0 .. m |-> IF n = 0 THEN Unedited(ui) ELSE RowEdited(f[n - 1], o, list[n])]

EditedBy(ui, o, list) == (CHOOSE f : AreEdited(f, ui, o, list, Len(list)))[Len(list)]

LEMMA RowsEditedAre ==
    ASSUME NEW ui, NEW o, NEW list
    PROVE  RowsEdited(ui, o, list) = EditedBy(ui, o, list).ui
BY DEF RowsEdited, EditedBy, AreEdited, Unedited

\* The recursion has a value for every list.
LEMMA EditedIsThere ==
    ASSUME NEW ui, NEW o, NEW list, NEW m \in Nat
    PROVE  \E f : AreEdited(f, ui, o, list, m)
<1> DEFINE There(k) == \E f : AreEdited(f, ui, o, list, k)
           Lacking == {k \in 0 .. m : ~There(k)}
<1>1. ASSUME Lacking # {} PROVE FALSE
    <2>1. PICK k \in Lacking : \A j \in Lacking : k <= j
        <3>1. Lacking \in SUBSET Nat
            OBVIOUS
        <3> HIDE DEF Lacking
        <3> QED
            BY <1>1, <3>1, LeastIsThere
    <2>2. k \in 0 .. m /\ ~There(k)
        OBVIOUS
    <2>3. k \in Nat /\ k <= m
        BY <2>2
    <2>4. k # 0
        <3> DEFINE z == [n \in 0 .. 0 |-> Unedited(ui)]
        <3>1. z = [n \in 0 .. 0 |-> IF n = 0 THEN Unedited(ui)
                                    ELSE RowEdited(z[n - 1], o, list[n])]
            OBVIOUS
        <3>2. There(0)
            <4> HIDE DEF z
            <4> QED
                BY <3>1 DEF AreEdited
        <3> QED
            BY <2>2, <3>2
    <2>5. k - 1 \notin Lacking /\ k - 1 \in 0 .. m
        <3> HIDE DEF Lacking
        <3> QED
            BY <2>1, <2>2, <2>3, <2>4
    <2>6. PICK f : AreEdited(f, ui, o, list, k - 1)
        BY <2>5
    <2> DEFINE new == RowEdited(f[k - 1], o, list[k])
               g == [n \in 0 .. k |-> IF n = k THEN new ELSE f[n]]
    <2> HIDE DEF new
    <2>7. g[k] = new /\ g[k - 1] = f[k - 1] /\ \A n \in 0 .. k - 1 : g[n] = f[n]
        BY <2>3, <2>4
    <2>8. ASSUME NEW n \in 0 .. k
          PROVE  g[n] = IF n = 0 THEN Unedited(ui)
                        ELSE RowEdited(g[n - 1], o, list[n])
        <3> HIDE DEF g
        <3>1. CASE n = k
            BY <2>4, <2>7, <3>1 DEF new
        <3>2. CASE n # k
            <4>1. n \in 0 .. k - 1
                BY <2>3, <3>2
            <4>2. n # 0 => n - 1 \in 0 .. k - 1
                BY <2>3, <4>1
            <4>3. f[n] = IF n = 0 THEN Unedited(ui)
                         ELSE RowEdited(f[n - 1], o, list[n])
                BY <2>6, <4>1 DEF AreEdited
            <4> QED
                BY <2>7, <4>1, <4>2, <4>3
        <3> QED
            BY <3>1, <3>2
    <2>9. AreEdited(g, ui, o, list, k)
        <3>1. g = [n \in 0 .. k |-> g[n]]
            OBVIOUS
        <3> HIDE DEF g
        <3> QED
            BY <2>8, <3>1 DEF AreEdited
    <2>10. There(k)
        <3> HIDE DEF g
        <3> QED
            BY <2>9
    <2> QED
        BY <2>2, <2>10
<1> QED
    <2>1. m \notin Lacking /\ m \in 0 .. m
        BY <1>1
    <2> QED
        BY <2>1

\* It has one value, which what comes later in the list does not change.
LEMMA EditedIsOne ==
    ASSUME NEW ui, NEW o, NEW list, NEW longer, NEW m \in Nat, NEW l \in Nat,
           m <= l, \A n \in 1 .. m : longer[n] = list[n],
           NEW f, AreEdited(f, ui, o, list, m),
           NEW g, AreEdited(g, ui, o, longer, l)
    PROVE  \A n \in 0 .. m : g[n] = f[n]
<1> DEFINE Apart == {n \in 0 .. m : g[n] # f[n]}
<1> SUFFICES ASSUME Apart # {} PROVE FALSE
    OBVIOUS
<1>1. PICK k \in Apart : \A j \in Apart : k <= j
    <2>1. Apart \in SUBSET Nat
        OBVIOUS
    <2> HIDE DEF Apart
    <2> QED
        BY <2>1, LeastIsThere
<1>2. k \in 0 .. m /\ g[k] # f[k]
    OBVIOUS
<1>3. k \in Nat /\ k \in 0 .. l
    BY <1>2
<1>4. f[k] = IF k = 0 THEN Unedited(ui) ELSE RowEdited(f[k - 1], o, list[k])
    BY <1>2 DEF AreEdited
<1>5. g[k] = IF k = 0 THEN Unedited(ui) ELSE RowEdited(g[k - 1], o, longer[k])
    BY <1>3 DEF AreEdited
<1>6. k # 0
    BY <1>2, <1>4, <1>5
<1>7. k \in 1 .. m /\ k - 1 \in 0 .. m
    BY <1>2, <1>6
<1>8. k - 1 \notin Apart
    <2> HIDE DEF Apart
    <2> QED
        BY <1>1, <1>3
<1>9. g[k - 1] = f[k - 1]
    BY <1>7, <1>8
<1> QED
    BY <1>2, <1>4, <1>5, <1>6, <1>7, <1>9

\* Without edits, nothing is changed.
LEMMA EditedNone ==
    ASSUME NEW ui, NEW o
    PROVE  EditedBy(ui, o, <<>>) = Unedited(ui)
<1>1. Len(<<>>) = 0
    OBVIOUS
<1>2. PICK f : AreEdited(f, ui, o, <<>>, 0)
    BY EditedIsThere
<1> DEFINE g == CHOOSE f_1 : AreEdited(f_1, ui, o, <<>>, 0)
<1>3. AreEdited(g, ui, o, <<>>, 0)
    BY <1>2
<1>4. EditedBy(ui, o, <<>>) = g[0]
    BY <1>1 DEF EditedBy
<1> HIDE DEF g
<1>5. 0 \in 0 .. 0
    OBVIOUS
<1> QED
    BY <1>3, <1>4, <1>5 DEF AreEdited

\* One edit more is one step more.
LEMMA EditedOneMore ==
    ASSUME NEW ui, NEW o, NEW T, NEW list \in Seq(T), NEW edit \in T
    PROVE  EditedBy(ui, o, Append(list, edit))
            = RowEdited(EditedBy(ui, o, list), o, edit)
<1> DEFINE longer == Append(list, edit)
<1>1. PICK l \in Nat : l = Len(list)
    OBVIOUS
<1>2. Len(longer) = l + 1 /\ longer[l + 1] = edit /\ \A n \in 1 .. l : longer[n] = list[n]
    BY <1>1
<1> HIDE DEF longer
<1> DEFINE f == CHOOSE f_1 : AreEdited(f_1, ui, o, list, l)
           g == CHOOSE f_1 : AreEdited(f_1, ui, o, longer, l + 1)
<1>3. AreEdited(f, ui, o, list, l)
    <2>1. \E f_1 : AreEdited(f_1, ui, o, list, l)
        BY EditedIsThere
    <2> QED
        BY <2>1
<1>4. AreEdited(g, ui, o, longer, l + 1)
    <2>1. l + 1 \in Nat
        OBVIOUS
    <2>2. \E f_1 : AreEdited(f_1, ui, o, longer, l + 1)
        BY <2>1, EditedIsThere
    <2> QED
        BY <2>2
<1>5. EditedBy(ui, o, list) = f[l] /\ EditedBy(ui, o, longer) = g[l + 1]
    BY <1>1, <1>2 DEF EditedBy
<1> HIDE DEF f, g
<1>6. g[l] = f[l]
    <2>1. PICK k \in Nat : k = l + 1
        OBVIOUS
    <2>2. l <= k /\ l \in 0 .. l
        BY <2>1
    <2>3. \A n \in 1 .. l : longer[n] = list[n]
        BY <1>2
    <2>4. AreEdited(g, ui, o, longer, k)
        BY <1>4, <2>1
    <2>5. \A n \in 0 .. l : g[n] = f[n]
        BY <1>3, <2>2, <2>3, <2>4, EditedIsOne
    <2> QED
        BY <2>2, <2>5
<1>7. l + 1 \in 0 .. (l + 1) /\ l + 1 # 0 /\ (l + 1) - 1 = l
    OBVIOUS
<1>8. g[l + 1] = RowEdited(g[(l + 1) - 1], o, longer[l + 1])
    BY <1>4, <1>7 DEF AreEdited
<1> QED
    BY <1>2, <1>5, <1>6, <1>7, <1>8 DEF longer

-----------------------------------------------------------------------------
(* Slots that are kept, calls that are void. *)

AreKept(f, list, gone, m) ==
    f = [n \in 0 .. m |->
            IF n = 0 THEN <<>>
            ELSE IF list[n].model \in gone THEN f[n - 1]
            ELSE Append(f[n - 1], list[n])]

LEMMA KeptAre ==
    ASSUME NEW list, NEW gone
    PROVE  Kept(list, gone) = (CHOOSE f : AreKept(f, list, gone, Len(list)))[Len(list)]
BY DEF Kept, AreKept

\* The recursion has a value for every list.
LEMMA KeptIsThere ==
    ASSUME NEW list, NEW gone, NEW m \in Nat
    PROVE  \E f : AreKept(f, list, gone, m)
<1> DEFINE There(k) == \E f : AreKept(f, list, gone, k)
           Lacking == {k \in 0 .. m : ~There(k)}
           Next(f, n) == IF n = 0 THEN <<>>
                         ELSE IF list[n].model \in gone THEN f[n - 1]
                         ELSE Append(f[n - 1], list[n])
<1>0. \A f, k : AreKept(f, list, gone, k) <=> f = [n \in 0 .. k |-> Next(f, n)]
    BY DEF AreKept
<1>n. ASSUME NEW f, NEW g, NEW n \in Nat, n # 0 => f[n - 1] = g[n - 1]
      PROVE  Next(f, n) = Next(g, n)
    BY <1>n
<1>z. \A f : Next(f, 0) = <<>>
    OBVIOUS
<1> HIDE DEF Next
<1>1. ASSUME Lacking # {} PROVE FALSE
    <2>1. PICK k \in Lacking : \A j \in Lacking : k <= j
        <3>1. Lacking \in SUBSET Nat
            OBVIOUS
        <3> HIDE DEF Lacking
        <3> QED
            BY <1>1, <3>1, LeastIsThere
    <2>2. k \in 0 .. m /\ ~There(k)
        OBVIOUS
    <2>3. k \in Nat /\ k <= m
        BY <2>2
    <2>4. k # 0
        <3> DEFINE z == [n \in 0 .. 0 |-> <<>>]
        <3>1. z = [n \in 0 .. 0 |-> Next(z, n)]
            <4>1. \A n \in 0 .. 0 : n = 0
                OBVIOUS
            <4>2. \A n \in 0 .. 0 : Next(z, n) = <<>>
                BY <1>z, <4>1
            <4> QED
                BY <4>2
        <3>2. There(0)
            <4> HIDE DEF z
            <4> QED
                BY <1>0, <3>1
        <3> QED
            BY <2>2, <3>2
    <2>5. k - 1 \notin Lacking /\ k - 1 \in 0 .. m
        <3> HIDE DEF Lacking
        <3> QED
            BY <2>1, <2>2, <2>3, <2>4
    <2>6. PICK f : AreKept(f, list, gone, k - 1)
        BY <2>5
    <2> DEFINE new == Next(f, k)
               g == [n \in 0 .. k |-> IF n = k THEN new ELSE f[n]]
    <2> HIDE DEF new
    <2>7. g[k] = new /\ g[k - 1] = f[k - 1] /\ \A n \in 0 .. k - 1 : g[n] = f[n]
        BY <2>3, <2>4
    <2>8. ASSUME NEW n \in 0 .. k PROVE g[n] = Next(g, n)
        <3> HIDE DEF g
        <3>0. n \in Nat
            BY <2>3
        <3>1. CASE n = k
            <4>1. new = Next(g, k)
                BY <1>n, <2>3, <2>7 DEF new
            <4> QED
                BY <2>7, <3>1, <4>1
        <3>2. CASE n # k
            <4>1. n \in 0 .. k - 1
                BY <2>3, <3>2
            <4>2. n # 0 => n - 1 \in 0 .. k - 1
                BY <2>3, <4>1
            <4>3. f[n] = Next(f, n)
                <5>1. f = [j \in 0 .. k - 1 |-> Next(f, j)]
                    BY <1>0, <2>6
                <5> QED
                    BY <4>1, <5>1
            <4>4. Next(f, n) = Next(g, n)
                <5>1. n # 0 => f[n - 1] = g[n - 1]
                    BY <2>7, <4>2
                <5> QED
                    BY <1>n, <3>0, <5>1
            <4> QED
                BY <2>7, <4>1, <4>3, <4>4
        <3> QED
            BY <3>1, <3>2
    <2>9. AreKept(g, list, gone, k)
        <3>1. g = [n \in 0 .. k |-> g[n]]
            OBVIOUS
        <3> HIDE DEF g
        <3>2. g = [n \in 0 .. k |-> Next(g, n)]
            BY <2>8, <3>1
        <3> QED
            BY <1>0, <3>2
    <2>10. There(k)
        <3> HIDE DEF g
        <3> QED
            BY <2>9
    <2> QED
        BY <2>2, <2>10
<1> QED
    <2>1. m \notin Lacking /\ m \in 0 .. m
        BY <1>1
    <2> QED
        BY <2>1

\* What is kept of the first slots.
KeepsOf(new, list, gone, n) ==
    /\ new \in Seq(ToSet(list))
    /\ \A i \in 1 .. Len(new) : \E j \in 1 .. n : new[i] = list[j] /\ list[j].model \notin gone
    /\ \A j \in 1 .. n : list[j].model \notin gone => \E i \in 1 .. Len(new) : new[i] = list[j]
    /\ \A i, k \in 1 .. Len(new) : Key(new[i]) = Key(new[k]) => i = k

LEMMA KeptFacts ==
    ASSUME NEW list, list \in Seq(ToSet(list)), NEW gone,
           \A i, j \in DOMAIN list : Key(list[i]) = Key(list[j]) => i = j
    PROVE  KeepsOf(Kept(list, gone), list, gone, Len(list))
<1> DEFINE m == Len(list)
           f == CHOOSE g : AreKept(g, list, gone, m)
           Wrong == {n \in 0 .. m : ~KeepsOf(f[n], list, gone, n)}
<1>1. m \in Nat /\ DOMAIN list = 1 .. m /\ \A i \in 1 .. m : list[i] \in ToSet(list)
    BY ListOfItsOwn
<1>2. AreKept(f, list, gone, m)
    <2>1. \E g : AreKept(g, list, gone, m)
        BY <1>1, KeptIsThere
    <2> QED
        BY <2>1
<1>3. Kept(list, gone) = f[m]
    BY KeptAre
<1> HIDE DEF f, m
<1>4. f[0] = <<>>
    <2>1. 0 \in 0 .. m
        BY <1>1
    <2> QED
        BY <1>2, <2>1 DEF AreKept
<1>5. ASSUME NEW n \in 1 .. m
      PROVE  f[n] = IF list[n].model \in gone THEN f[n - 1] ELSE Append(f[n - 1], list[n])
    <2>1. n \in 0 .. m /\ n # 0 /\ n > 0
        BY <1>1
    <2> QED
        BY <1>2, <2>1 DEF AreKept
<1>6. KeepsOf(f[0], list, gone, 0)
    BY <1>4 DEF KeepsOf
<1>7. ASSUME NEW n \in 1 .. m, KeepsOf(f[n - 1], list, gone, n - 1)
      PROVE  KeepsOf(f[n], list, gone, n)
    <2> DEFINE old == f[n - 1]
               new == f[n]
               S == ToSet(list)
    <2>1. /\ old \in Seq(S)
          /\ \A i \in 1 .. Len(old) :
                \E j \in 1 .. n - 1 : old[i] = list[j] /\ list[j].model \notin gone
          /\ \A j \in 1 .. n - 1 : list[j].model \notin gone =>
                \E i \in 1 .. Len(old) : old[i] = list[j]
          /\ \A i, k \in 1 .. Len(old) : Key(old[i]) = Key(old[k]) => i = k
        BY <1>7 DEF KeepsOf
    <2>2. n \in Nat /\ n \in 1 .. n /\ 1 .. n = (1 .. n - 1) \cup {n}
        BY <1>1
    <2>3. CASE list[n].model \in gone
        <3>1. new = old
            BY <1>5, <2>3
        <3> HIDE DEF old, new
        <3> QED
            BY <2>1, <2>2, <2>3, <3>1 DEF KeepsOf, new
    <2>4. CASE list[n].model \notin gone
        <3>1. new = Append(old, list[n])
            BY <1>5, <2>4
        <3>2. list[n] \in S
            BY <1>1
        <3> HIDE DEF old, new, S
        <3>3. /\ new \in Seq(S) /\ Len(new) = Len(old) + 1 /\ Len(old) \in Nat
              /\ \A i \in 1 .. Len(old) : new[i] = old[i]
              /\ new[Len(old) + 1] = list[n]
            BY <2>1, <3>1, <3>2
        <3>4. ASSUME NEW i \in 1 .. Len(new)
              PROVE  \E j \in 1 .. n : new[i] = list[j] /\ list[j].model \notin gone
            <4>1. CASE i \in 1 .. Len(old)
                BY <2>1, <2>2, <3>3, <4>1
            <4>2. CASE i \notin 1 .. Len(old)
                <5>1. i = Len(old) + 1
                    BY <3>3, <4>2
                <5> QED
                    BY <2>2, <2>4, <3>3, <5>1
            <4> QED
                BY <4>1, <4>2
        <3>5. ASSUME NEW j \in 1 .. n, list[j].model \notin gone
              PROVE  \E i \in 1 .. Len(new) : new[i] = list[j]
            <4>1. CASE j = n
                <5>1. Len(old) + 1 \in 1 .. Len(new)
                    BY <3>3
                <5> QED
                    BY <3>3, <4>1, <5>1
            <4>2. CASE j # n
                <5>1. j \in 1 .. n - 1
                    BY <2>2, <4>2
                <5>2. PICK i \in 1 .. Len(old) : old[i] = list[j]
                    BY <2>1, <3>5, <5>1
                <5>3. i \in 1 .. Len(new)
                    BY <3>3
                <5> QED
                    BY <3>3, <5>2, <5>3
            <4> QED
                BY <4>1, <4>2
        <3>6. ASSUME NEW i \in 1 .. Len(old) PROVE Key(new[i]) # Key(list[n])
            <4>1. PICK j \in 1 .. n - 1 : old[i] = list[j]
                BY <2>1
            <4>2. j \in DOMAIN list /\ n \in DOMAIN list /\ j # n
                BY <1>1, <2>2
            <4> QED
                BY <3>3, <4>1, <4>2
        <3>7. ASSUME NEW i \in 1 .. Len(new), NEW k \in 1 .. Len(new), Key(new[i]) = Key(new[k])
              PROVE  i = k
            <4>1. i \in 1 .. Len(old) \/ i = Len(old) + 1
                BY <3>3
            <4>2. k \in 1 .. Len(old) \/ k = Len(old) + 1
                BY <3>3
            <4>3. CASE i \in 1 .. Len(old) /\ k \in 1 .. Len(old)
                BY <2>1, <3>3, <3>7, <4>3
            <4> QED
                BY <3>3, <3>6, <3>7, <4>1, <4>2, <4>3
        <3> QED
            BY <3>3, <3>4, <3>5, <3>7 DEF KeepsOf, new, S
    <2> QED
        BY <2>3, <2>4
<1>8. ASSUME Wrong # {} PROVE FALSE
    <2>1. PICK n \in Wrong : \A j \in Wrong : n <= j
        <3>1. Wrong \in SUBSET Nat
            BY <1>1
        <3> HIDE DEF Wrong
        <3> QED
            BY <1>8, <3>1, LeastIsThere
    <2>2. n \in 0 .. m /\ ~KeepsOf(f[n], list, gone, n)
        OBVIOUS
    <2>3. n # 0
        BY <1>6, <2>2
    <2>4. n \in 1 .. m /\ n - 1 \in 0 .. m
        BY <1>1, <2>2, <2>3
    <2>5. n - 1 \notin Wrong
        <3> HIDE DEF Wrong
        <3> QED
            BY <1>1, <2>1, <2>4
    <2>6. KeepsOf(f[n - 1], list, gone, n - 1)
        BY <2>4, <2>5
    <2> QED
        BY <1>7, <2>2, <2>4, <2>6
<1>9. m \in 0 .. m
    BY <1>1
<1> QED
    BY <1>3, <1>8, <1>9 DEF m


-----------------------------------------------------------------------------
(* The edit script. *)

Corners(src, dst) == (0 .. Len(src)) \X (0 .. Len(dst))

NextScript(f, src, dst, cost, p) ==
    LET x == p[1]
        y == p[2]
        inserted == Append(f[<<x, y - 1>>], Insertion(y - 1, dst[y]))
        deleted == Append(f[<<x - 1, y>>], Deletion(x - 1))
    IN  CASE x = 0 /\ y = 0 -> <<>>
          [] x = 0 /\ y > 0 -> inserted
          [] x > 0 /\ y = 0 -> deleted
          [] x > 0 /\ y > 0 ->
               IF src[x] = dst[y] THEN f[<<x - 1, y - 1>>]
               ELSE IF cost[<<x, y - 1>>] <= cost[<<x - 1, y>>] THEN inserted
               ELSE deleted

IsScript(f, src, dst, cost) ==
    f = [p \in (0..Len(src)) \X (0..Len(dst)) |-> NextScript(f, src, dst, cost, p)]

LEMMA EditScriptIs ==
    ASSUME NEW src, NEW dst
    PROVE  EditScript(src, dst)
            = (CHOOSE f : IsScript(f, src, dst, Edits(src, dst)))[<<Len(src), Len(dst)>>]
BY DEF EditScript, IsScript, NextScript

\* It is a recursion on pairs, towards smaller sums.
IsScriptUpTo(f, src, dst, cost, k) ==
    f = [p \in {q \in Corners(src, dst) : q[1] + q[2] <= k} |-> NextScript(f, src, dst, cost, p)]

Agree(f, g, x, y) ==
    /\ y > 0 => f[<<x, y - 1>>] = g[<<x, y - 1>>]
    /\ x > 0 => f[<<x - 1, y>>] = g[<<x - 1, y>>]
    /\ x > 0 /\ y > 0 => f[<<x - 1, y - 1>>] = g[<<x - 1, y - 1>>]

LEMMA NextScriptAgrees ==
    ASSUME NEW src, NEW dst, NEW cost, NEW f, NEW g, NEW x \in Nat, NEW y \in Nat,
           Agree(f, g, x, y)
    PROVE  NextScript(f, src, dst, cost, <<x, y>>) = NextScript(g, src, dst, cost, <<x, y>>)
<1>1. <<x, y>>[1] = x /\ <<x, y>>[2] = y
    OBVIOUS
<1>2. CASE x = 0 /\ y = 0
    BY <1>1, <1>2 DEF NextScript
<1>3. CASE x = 0 /\ y > 0
    BY <1>1, <1>3 DEF NextScript, Agree
<1>4. CASE x > 0 /\ y = 0
    BY <1>1, <1>4 DEF NextScript, Agree
<1>5. CASE x > 0 /\ y > 0
    BY <1>1, <1>5 DEF NextScript, Agree
<1> QED
    BY <1>2, <1>3, <1>4, <1>5

LEMMA ScriptIsThere ==
    ASSUME NEW src, NEW dst, NEW cost, Len(src) \in Nat, Len(dst) \in Nat
    PROVE  \E f : IsScript(f, src, dst, cost)
<1> DEFINE m == Len(src) + Len(dst)
           There(k) == \E f : IsScriptUpTo(f, src, dst, cost, k)
           Lacking == {k \in 0 .. m : ~There(k)}
<1>0. m \in Nat
    OBVIOUS
<1> HIDE DEF m
<1>c. ASSUME NEW p \in Corners(src, dst)
      PROVE  /\ p = <<p[1], p[2]>> /\ p[1] \in 0 .. Len(src) /\ p[2] \in 0 .. Len(dst)
             /\ p[1] \in Nat /\ p[2] \in Nat /\ p[1] + p[2] \in 0 .. m
    BY DEF Corners, m
<1>d. ASSUME NEW x \in 0 .. Len(src), NEW y \in 0 .. Len(dst)
      PROVE  <<x, y>> \in Corners(src, dst)
    BY DEF Corners
<1>1. ASSUME Lacking # {} PROVE FALSE
    <2>1. PICK k \in Lacking : \A j \in Lacking : k <= j
        <3>1. Lacking \in SUBSET Nat
            BY <1>0
        <3> HIDE DEF Lacking
        <3> QED
            BY <1>1, <3>1, LeastIsThere
    <2>2. k \in 0 .. m /\ ~There(k) /\ k \in Nat
        BY <1>0
    <2>3. PICK f : k = 0 \/ IsScriptUpTo(f, src, dst, cost, k - 1)
        <3>1. CASE k = 0
            BY <3>1
        <3>2. CASE k # 0
            <4>1. k - 1 \in 0 .. m /\ ~(k <= k - 1)
                BY <1>0, <2>2, <3>2
            <4>2. k - 1 \notin Lacking
                <5> HIDE DEF Lacking
                <5> QED
                    BY <2>1, <4>1
            <4>3. There(k - 1)
                BY <4>1, <4>2
            <4> QED
                BY <4>3
        <3> QED
            BY <3>1, <3>2
    <2> DEFINE D == {q \in Corners(src, dst) : q[1] + q[2] <= k}
               g == [p \in D |-> IF p[1] + p[2] = k THEN NextScript(f, src, dst, cost, p)
                                 ELSE f[p]]
    <2>4. ASSUME NEW p \in Corners(src, dst), p[1] + p[2] <= k - 1
          PROVE  g[p] = f[p] /\ f[p] = NextScript(f, src, dst, cost, p)
        <3>1. p[1] + p[2] # k /\ p[1] + p[2] <= k /\ k # 0
            BY <1>c, <2>2, <2>4
        <3>2. p \in D
            BY <3>1
        <3>3. p \in {q \in Corners(src, dst) : q[1] + q[2] <= k - 1}
            BY <2>4
        <3>4. f[p] = NextScript(f, src, dst, cost, p)
            BY <2>3, <3>1, <3>3 DEF IsScriptUpTo
        <3> QED
            BY <3>1, <3>2, <3>4
    <2>5. ASSUME NEW p \in D PROVE g[p] = NextScript(f, src, dst, cost, p)
        <3>1. CASE p[1] + p[2] = k
            BY <3>1
        <3>2. CASE p[1] + p[2] # k
            <4>1. p \in Corners(src, dst) /\ p[1] + p[2] <= k - 1
                BY <1>c, <2>2, <3>2
            <4> HIDE DEF g
            <4> QED
                BY <2>4, <4>1
        <3> QED
            BY <3>1, <3>2
    <2>g. g = [p \in D |-> g[p]]
        OBVIOUS
    <2>s. ASSUME NEW p \in D
          PROVE  p \in Corners(src, dst) /\ p[1] + p[2] <= k
        BY <2>s
    <2> HIDE DEF g, D
    <2>6. ASSUME NEW p \in D PROVE g[p] = NextScript(g, src, dst, cost, p)
        <3>1. PICK x \in Nat, y \in Nat : p = <<x, y>> /\ x = p[1] /\ y = p[2]
            BY <1>c, <2>s
        <3>2. x \in 0 .. Len(src) /\ y \in 0 .. Len(dst) /\ x + y <= k
            BY <1>c, <2>s, <3>1
        <3>3. ASSUME y > 0 PROVE f[<<x, y - 1>>] = g[<<x, y - 1>>]
            <4>1. PICK z \in Nat : z = y - 1
                BY <3>3
            <4>2. z \in 0 .. Len(dst) /\ x + z <= k - 1
                BY <3>2, <4>1, <2>2
            <4>3. <<x, z>> \in Corners(src, dst) /\ <<x, z>>[1] = x /\ <<x, z>>[2] = z
                BY <1>d, <3>2, <4>2
            <4>4. f[<<x, z>>] = g[<<x, z>>]
                BY <2>4, <4>2, <4>3
            <4> QED
                BY <4>1, <4>4
        <3>4. ASSUME x > 0 PROVE f[<<x - 1, y>>] = g[<<x - 1, y>>]
            <4>1. PICK z \in Nat : z = x - 1
                BY <3>4
            <4>2. z \in 0 .. Len(src) /\ z + y <= k - 1
                BY <3>2, <4>1, <2>2
            <4>3. <<z, y>> \in Corners(src, dst) /\ <<z, y>>[1] = z /\ <<z, y>>[2] = y
                BY <1>d, <3>2, <4>2
            <4>4. f[<<z, y>>] = g[<<z, y>>]
                BY <2>4, <4>2, <4>3
            <4> QED
                BY <4>1, <4>4
        <3>5. ASSUME x > 0, y > 0 PROVE f[<<x - 1, y - 1>>] = g[<<x - 1, y - 1>>]
            <4>1. PICK z \in Nat, t \in Nat : z = x - 1 /\ t = y - 1
                BY <3>5
            <4>2. z \in 0 .. Len(src) /\ t \in 0 .. Len(dst) /\ z + t <= k - 1
                BY <3>2, <4>1, <2>2
            <4>3. <<z, t>> \in Corners(src, dst) /\ <<z, t>>[1] = z /\ <<z, t>>[2] = t
                BY <1>d, <4>2
            <4>4. f[<<z, t>>] = g[<<z, t>>]
                BY <2>4, <4>2, <4>3
            <4> QED
                BY <4>1, <4>4
        <3>6. NextScript(f, src, dst, cost, <<x, y>>) = NextScript(g, src, dst, cost, <<x, y>>)
            <4>1. y > 0 => f[<<x, y - 1>>] = g[<<x, y - 1>>]
                BY <3>3
            <4>2. x > 0 => f[<<x - 1, y>>] = g[<<x - 1, y>>]
                BY <3>4
            <4>3. x > 0 /\ y > 0 => f[<<x - 1, y - 1>>] = g[<<x - 1, y - 1>>]
                BY <3>5
            <4>4. Agree(f, g, x, y)
                BY <4>1, <4>2, <4>3 DEF Agree
            <4> QED
                BY <4>4, NextScriptAgrees
        <3> QED
            BY <2>5, <3>1, <3>6
    <2>7. IsScriptUpTo(g, src, dst, cost, k)
        <3>1. g = [p \in D |-> NextScript(g, src, dst, cost, p)]
            BY <2>6, <2>g
        <3> QED
            BY <3>1 DEF IsScriptUpTo, D
    <2> QED
        BY <2>2, <2>7
<1>2. PICK f : IsScriptUpTo(f, src, dst, cost, m)
    <2>1. m \in 0 .. m
        BY <1>0
    <2>2. m \notin Lacking
        BY <1>1
    <2> QED
        BY <2>1, <2>2
<1>3. {q \in Corners(src, dst) : q[1] + q[2] <= m} = Corners(src, dst)
    <2>1. \A q \in Corners(src, dst) : q[1] + q[2] <= m
        BY <1>0, <1>c
    <2> QED
        BY <2>1
<1>4. f = [p \in Corners(src, dst) |-> NextScript(f, src, dst, cost, p)]
    BY <1>2, <1>3 DEF IsScriptUpTo
<1>5. IsScript(f, src, dst, cost)
    BY <1>4 DEF IsScript, Corners
<1> QED
    BY <1>5

-----------------------------------------------------------------------------
(* Slots that are disconnected. *)

\* All but one slot follow the state, and that one is not to be called.
SlotsFollowBut(ui, s, key) ==
    \A i \in DOMAIN ui.slots : Key(ui.slots[i]) # key =>
        \/ ui.slots[i].last = Selected(s, ui.slots[i].model, ui.slots[i].what)
        \/ \E j \in DOMAIN ui.calls :
               Key(ui.calls[j]) = Key(ui.slots[i]) /\ ui.calls[j].token = "held"

NoneHeld(ui, key) ==
    \A j \in DOMAIN ui.calls : Key(ui.calls[j]) = key => ui.calls[j].token # "held"

LEMMA UnsubscribedIs ==
    ASSUME NEW ui, IsUi(ui), NEW gone
    PROVE  /\ IsUi(Unsubscribed(ui, gone))
           /\ Unsubscribed(ui, gone).shown = ui.shown
           /\ Unsubscribed(ui, gone).rows = ui.rows
           /\ Unsubscribed(ui, gone).subscribed = ui.subscribed \ gone
           /\ Unsubscribed(ui, gone).slots = Kept(ui.slots, gone)
           /\ Unsubscribed(ui, gone).calls = Expired(ui.calls, gone)
<1> DEFINE kept == Kept(ui.slots, gone)
           expired == Expired(ui.calls, gone)
<1>1. Unsubscribed(ui, gone)
        = [shown |-> ui.shown, rows |-> ui.rows, subscribed |-> ui.subscribed \ gone,
           slots |-> kept, calls |-> expired]
    <2> DEFINE left == ui.subscribed \ gone
    <2>1. Unsubscribed(ui, gone)
            = [ui EXCEPT !.subscribed = left, !.slots = kept, !.calls = expired]
        BY DEF Unsubscribed
    <2>2. left = ui.subscribed \ gone
        OBVIOUS
    <2> HIDE DEF kept, expired, left
    <2> QED
        BY <2>1, <2>2 DEF IsUi
<1> HIDE DEF kept, expired
<1> QED
    BY <1>1 DEF IsUi, kept, expired

\* What the slots are of a list of slots that are wholly there.
LEMMA SlotIsSlot ==
    ASSUME NEW ui, SlotsFit(ui), NEW gone
    PROVE  KeepsOf(Kept(ui.slots, gone), ui.slots, gone, Len(ui.slots))
<1>1. /\ ui.slots \in Seq(ToSet(ui.slots))
      /\ \A i, j \in DOMAIN ui.slots : Key(ui.slots[i]) = Key(ui.slots[j]) => i = j
    BY DEF SlotsFit
<1> QED
    BY <1>1, KeptFacts

\* The calls of the slots that are gone are void.
LEMMA ExpiredAre ==
    ASSUME NEW ui, CallsFit(ui), NEW gone
    PROVE  LET new == Expired(ui.calls, gone) IN
           /\ DOMAIN new = DOMAIN ui.calls
           /\ new \in Seq(ToSet(new))
           /\ \A i \in DOMAIN ui.calls :
                /\ new[i] = [model |-> new[i].model, what |-> new[i].what,
                             last |-> new[i].last, token |-> new[i].token]
                /\ new[i].token \in {"held", "expired"}
                /\ Key(new[i]) = Key(ui.calls[i])
                /\ new[i].last = ui.calls[i].last /\ new[i].model = ui.calls[i].model
                /\ new[i].token = "held" <=>
                        ui.calls[i].token = "held" /\ ui.calls[i].model \notin gone
<1> DEFINE old == ui.calls
           new == Expired(old, gone)
<1>1. /\ old \in Seq(ToSet(old))
      /\ \A i \in DOMAIN old :
           /\ old[i] = [model |-> old[i].model, what |-> old[i].what,
                        last |-> old[i].last, token |-> old[i].token]
           /\ old[i].token \in {"held", "expired"}
    BY DEF CallsFit
<1>2. new = [i \in DOMAIN old |->
                IF old[i].model \in gone THEN [old[i] EXCEPT !.token = "expired"] ELSE old[i]]
    BY DEF Expired
<1> HIDE DEF old, new
<1>3. DOMAIN new = DOMAIN old
    BY <1>2
<1>4. ASSUME NEW i \in DOMAIN old
      PROVE  /\ new[i] = [model |-> new[i].model, what |-> new[i].what,
                          last |-> new[i].last, token |-> new[i].token]
             /\ new[i].token \in {"held", "expired"}
             /\ Key(new[i]) = Key(old[i])
             /\ new[i].last = old[i].last /\ new[i].model = old[i].model
             /\ new[i].token = "held" <=> old[i].token = "held" /\ old[i].model \notin gone
    <2> DEFINE call == old[i]
    <2>1. new[i] = IF call.model \in gone THEN [call EXCEPT !.token = "expired"] ELSE call
        BY <1>2
    <2>2. /\ call = [model |-> call.model, what |-> call.what,
                     last |-> call.last, token |-> call.token]
          /\ call.token \in {"held", "expired"}
        BY <1>1
    <2> HIDE DEF call
    <2>3. CASE call.model \in gone
        <3>1. new[i] = [model |-> call.model, what |-> call.what,
                        last |-> call.last, token |-> "expired"]
            BY <2>1, <2>2, <2>3
        <3> QED
            BY <2>3, <3>1 DEF Key, call
    <2>4. CASE call.model \notin gone
        BY <2>1, <2>2, <2>4 DEF Key, call
    <2> QED
        BY <2>3, <2>4
<1>5. new \in Seq(ToSet(new))
    <2>1. DOMAIN old = 1 .. Len(old) /\ Len(old) \in Nat
        BY <1>1, ListOfItsOwn
    <2>2. new \in [1 .. Len(old) -> ToSet(new)]
        <3>1. new = [i \in DOMAIN new |-> new[i]]
            BY <1>2
        <3>2. \A i \in DOMAIN new : new[i] \in ToSet(new)
            BY DEF ToSet
        <3> QED
            BY <1>3, <2>1, <3>1, <3>2
    <2> QED
        BY <2>1, <2>2, FunctionIsList
<1> QED
    BY <1>3, <1>4, <1>5 DEF old, new

\* What is left are slots and calls of the models that are left.
LEMMA UnsubscribedFits ==
    ASSUME NEW ui, IsUi(ui), SlotsFit(ui), CallsFit(ui), NEW gone,
           NEW s, NEW key
    PROVE  LET new == Unsubscribed(ui, gone) IN
           /\ SlotsFit(new) /\ CallsFit(new)
           /\ SlotsFollowBut(ui, s, key) => SlotsFollowBut(new, s, key)
           /\ NoneHeld(ui, key) => NoneHeld(new, key)
<1> DEFINE new == Unsubscribed(ui, gone)
<1>1. /\ IsUi(new) /\ new.shown = ui.shown /\ new.rows = ui.rows
      /\ new.subscribed = ui.subscribed \ gone
      /\ new.slots = Kept(ui.slots, gone) /\ new.calls = Expired(ui.calls, gone)
    BY UnsubscribedIs
<1>2. KeepsOf(new.slots, ui.slots, gone, Len(ui.slots))
    BY <1>1, SlotIsSlot
<1> HIDE DEF new
<1>3. /\ DOMAIN new.calls = DOMAIN ui.calls
      /\ new.calls \in Seq(ToSet(new.calls))
      /\ \A i \in DOMAIN ui.calls :
            /\ new.calls[i] = [model |-> new.calls[i].model, what |-> new.calls[i].what,
                               last |-> new.calls[i].last, token |-> new.calls[i].token]
            /\ new.calls[i].token \in {"held", "expired"}
            /\ Key(new.calls[i]) = Key(ui.calls[i])
            /\ new.calls[i].last = ui.calls[i].last /\ new.calls[i].model = ui.calls[i].model
            /\ new.calls[i].token = "held" <=>
                    ui.calls[i].token = "held" /\ ui.calls[i].model \notin gone
    <2> DEFINE e == Expired(ui.calls, gone)
    <2>1. /\ DOMAIN e = DOMAIN ui.calls
          /\ e \in Seq(ToSet(e))
          /\ \A i \in DOMAIN ui.calls :
                /\ e[i] = [model |-> e[i].model, what |-> e[i].what,
                           last |-> e[i].last, token |-> e[i].token]
                /\ e[i].token \in {"held", "expired"}
                /\ Key(e[i]) = Key(ui.calls[i])
                /\ e[i].last = ui.calls[i].last /\ e[i].model = ui.calls[i].model
                /\ e[i].token = "held" <=>
                        ui.calls[i].token = "held" /\ ui.calls[i].model \notin gone
        BY ExpiredAre
    <2>2. e = new.calls
        BY <1>1
    <2> HIDE DEF e
    <2> QED
        BY <2>1, <2>2
<1>4. DOMAIN ui.slots = 1 .. Len(ui.slots)
    BY ListOfItsOwn DEF SlotsFit
<1>5. /\ new.slots \in Seq(ToSet(new.slots)) /\ DOMAIN new.slots = 1 .. Len(new.slots)
    BY <1>2, ListOfItsOwn DEF KeepsOf
<1>6. \A i \in DOMAIN new.slots : \E j \in DOMAIN ui.slots :
        new.slots[i] = ui.slots[j] /\ ui.slots[j].model \notin gone
    BY <1>2, <1>4, <1>5 DEF KeepsOf
<1>7. \A j \in DOMAIN ui.slots : ui.slots[j].model \notin gone =>
        \E i \in DOMAIN new.slots : new.slots[i] = ui.slots[j]
    BY <1>2, <1>4, <1>5 DEF KeepsOf
<1>8. \A i, k \in DOMAIN new.slots : Key(new.slots[i]) = Key(new.slots[k]) => i = k
    BY <1>2, <1>5 DEF KeepsOf
<1>9. SlotsFit(new)
    <2>1. new.subscribed \subseteq DOMAIN new.shown
        BY <1>1 DEF SlotsFit
    <2>2. ASSUME NEW i \in DOMAIN new.slots
          PROVE  /\ new.slots[i] = [model |-> new.slots[i].model, what |-> new.slots[i].what,
                                    last |-> new.slots[i].last]
                 /\ new.slots[i].model \in new.subscribed
                 /\ new.slots[i].what \in Whats(new.slots[i].model)
                 /\ new.shown[new.slots[i].model][new.slots[i].what]
                     = Showing(new.slots[i].model, new.slots[i].what, new.slots[i].last)
        <3>1. PICK j \in DOMAIN ui.slots :
                new.slots[i] = ui.slots[j] /\ ui.slots[j].model \notin gone
            BY <1>6
        <3> QED
            BY <1>1, <3>1 DEF SlotsFit
    <2>3. ASSUME NEW o \in new.subscribed, NEW what \in Whats(o)
          PROVE  \E i \in DOMAIN new.slots : Key(new.slots[i]) = <<o, what>>
        <3>1. o \in ui.subscribed /\ o \notin gone
            BY <1>1
        <3>2. PICK j \in DOMAIN ui.slots : Key(ui.slots[j]) = <<o, what>>
            BY <3>1 DEF SlotsFit
        <3>3. ui.slots[j].model = o
            BY <3>2 DEF Key
        <3>4. PICK i \in DOMAIN new.slots : new.slots[i] = ui.slots[j]
            BY <1>7, <3>1, <3>3
        <3> QED
            BY <3>2, <3>4
    <2> QED
        BY <1>5, <1>8, <2>1, <2>2, <2>3 DEF SlotsFit
<1>10. CallsFit(new)
    <2>1. ASSUME NEW i \in DOMAIN new.calls, new.calls[i].token = "held"
          PROVE  \E j \in DOMAIN new.slots :
                    Key(new.slots[j]) = Key(new.calls[i])
                    /\ new.slots[j].last = new.calls[i].last
        <3>1. ui.calls[i].token = "held" /\ ui.calls[i].model \notin gone
            BY <1>3, <2>1
        <3>2. PICK j \in DOMAIN ui.slots :
                Key(ui.slots[j]) = Key(ui.calls[i]) /\ ui.slots[j].last = ui.calls[i].last
            BY <1>3, <3>1 DEF CallsFit
        <3>3. ui.slots[j].model = ui.calls[i].model
            BY <3>2 DEF Key
        <3>4. PICK k \in DOMAIN new.slots : new.slots[k] = ui.slots[j]
            BY <1>7, <3>1, <3>3
        <3>5. Key(new.calls[i]) = Key(ui.calls[i]) /\ new.calls[i].last = ui.calls[i].last
            BY <1>3
        <3> QED
            BY <3>2, <3>4, <3>5
    <2>2. \A i, j \in DOMAIN new.calls : Key(new.calls[i]) = Key(new.calls[j]) => i = j
        <3>1. \A i, j \in DOMAIN ui.calls : Key(ui.calls[i]) = Key(ui.calls[j]) => i = j
            BY DEF CallsFit
        <3> QED
            BY <1>3, <3>1
    <2> QED
        BY <1>3, <2>1, <2>2 DEF CallsFit
<1>11. ASSUME SlotsFollowBut(ui, s, key) PROVE SlotsFollowBut(new, s, key)
    <2> SUFFICES ASSUME NEW i \in DOMAIN new.slots, Key(new.slots[i]) # key
                 PROVE  \/ new.slots[i].last
                            = Selected(s, new.slots[i].model, new.slots[i].what)
                        \/ \E j \in DOMAIN new.calls :
                               /\ Key(new.calls[j]) = Key(new.slots[i])
                               /\ new.calls[j].token = "held"
        BY DEF SlotsFollowBut
    <2>1. PICK j \in DOMAIN ui.slots :
            new.slots[i] = ui.slots[j] /\ ui.slots[j].model \notin gone
        BY <1>6
    <2>2. \/ ui.slots[j].last = Selected(s, ui.slots[j].model, ui.slots[j].what)
          \/ \E k \in DOMAIN ui.calls :
                 Key(ui.calls[k]) = Key(ui.slots[j]) /\ ui.calls[k].token = "held"
        BY <1>11, <2>1 DEF SlotsFollowBut
    <2>3. ASSUME NEW k \in DOMAIN ui.calls,
                 Key(ui.calls[k]) = Key(ui.slots[j]), ui.calls[k].token = "held"
          PROVE  Key(new.calls[k]) = Key(new.slots[i]) /\ new.calls[k].token = "held"
        <3>1. ui.calls[k].model = ui.slots[j].model
            BY <2>3 DEF Key
        <3> QED
            BY <1>3, <2>1, <2>3, <3>1
    <2> QED
        BY <1>3, <2>1, <2>2, <2>3
<1>12. ASSUME NoneHeld(ui, key) PROVE NoneHeld(new, key)
    BY <1>3, <1>12 DEF NoneHeld
<1> QED
    BY <1>9, <1>10, <1>11, <1>12 DEF new

-----------------------------------------------------------------------------
(* The tree of the models. *)

LEMMA Kinds ==
    ASSUME NEW o \in Models
    PROVE  /\ o.kind = "mixer" <=> o = mixer
           /\ o.kind = "strip" <=> o = main_strip \/ o \in Strips
           /\ o.kind = "entry" <=> o \in Entries
           /\ o \in Strips \cup Entries => o # mixer /\ o # main_strip
           /\ o \in Strips => o \notin Entries
           /\ o.kind \in {"mixer", "strip", "entry"}
<1>1. mixer.kind = "mixer" /\ main_strip.kind = "strip" /\ main_strip.id = Main
    BY DEF mixer, main_strip
<1>2. \A p \in Strips : p.kind = "strip" /\ p.id \in MixerChannel
    BY DEF Strips
<1>3. \A p \in Entries : p.kind = "entry"
    BY DEF Entries
<1>4. Main \notin MixerChannel
    BY ViewsAssumption
<1>5. o = mixer \/ o = main_strip \/ o \in Strips \/ o \in Entries
    BY DEF Models
<1> QED
    BY <1>1, <1>2, <1>3, <1>4, <1>5

\* A row is a model below the one that has it in its list.
LEMMA RowIsBelow ==
    ASSUME NEW ui, TreeFits(ui), NEW o \in DOMAIN ui.rows
    PROVE  /\ o \in DOMAIN ui.shown /\ o \in Models /\ o.kind # "entry"
           /\ DOMAIN ui.rows[o] = 1 .. Len(ui.rows[o]) /\ Len(ui.rows[o]) \in Nat
           /\ \A i \in DOMAIN ui.rows[o] :
                /\ ui.rows[o][i] \in DOMAIN ui.shown
                /\ ui.rows[o][i] \in RowsOf(o) /\ ui.rows[o][i] \in Models
                /\ ui.rows[o][i].kind = IF o = mixer THEN "strip" ELSE "entry"
                /\ ui.rows[o][i] # mixer /\ ui.rows[o][i] # main_strip
                /\ ui.rows[o][i] # o
<1>1. o \in DOMAIN ui.shown /\ o.kind # "entry" /\ DOMAIN ui.shown \subseteq Models
    BY DEF TreeFits
<1>2. ui.rows[o] \in Seq(DOMAIN ui.shown \cap RowsOf(o))
    BY DEF TreeFits
<1>3. /\ DOMAIN ui.rows[o] = 1 .. Len(ui.rows[o]) /\ Len(ui.rows[o]) \in Nat
      /\ \A i \in 1 .. Len(ui.rows[o]) : ui.rows[o][i] \in DOMAIN ui.shown \cap RowsOf(o)
    BY <1>2, ListOfItsOwn
<1>4. ASSUME NEW i \in DOMAIN ui.rows[o]
      PROVE  /\ ui.rows[o][i] \in DOMAIN ui.shown
             /\ ui.rows[o][i] \in RowsOf(o) /\ ui.rows[o][i] \in Models
             /\ ui.rows[o][i].kind = IF o = mixer THEN "strip" ELSE "entry"
             /\ ui.rows[o][i] # mixer /\ ui.rows[o][i] # main_strip
             /\ ui.rows[o][i] # o
    <2>1. PICK r \in Models : r = ui.rows[o][i] /\ r \in RowsOf(o) /\ r \in DOMAIN ui.shown
        BY <1>1, <1>3
    <2>2. CASE o = mixer
        <3>1. r \in Strips
            BY <1>1, <2>1, <2>2, Kinds DEF RowsOf
        <3> QED
            BY <2>1, <2>2, <3>1, Kinds
    <2>3. CASE o # mixer
        <3>1. r \in Entries
            BY <1>1, <2>1, <2>3, Kinds DEF RowsOf
        <3>2. r.kind = "entry"
            BY <2>1, <3>1, Kinds
        <3> QED
            BY <1>1, <2>1, <2>3, <3>1, <3>2, Kinds
    <2> QED
        BY <2>2, <2>3
<1> QED
    BY <1>1, <1>3, <1>4

\* A row that is removed takes those below it along, and no other.
Gone(ui, o, i) == WithRows(ui, ui.rows[o][i])

LEMMA GoneIs ==
    ASSUME NEW ui, TreeFits(ui), NEW o \in DOMAIN ui.rows, NEW i \in DOMAIN ui.rows[o]
    PROVE  /\ ui.rows[o][i] \in Gone(ui, o, i)
           /\ o \notin Gone(ui, o, i) /\ mixer \notin Gone(ui, o, i)
           /\ main_strip \notin Gone(ui, o, i)
           /\ \A r \in Gone(ui, o, i) : r # ui.rows[o][i] =>
                /\ ui.rows[o][i] \in DOMAIN ui.rows /\ r.kind = "entry"
                /\ \E j \in DOMAIN ui.rows[ui.rows[o][i]] : r = ui.rows[ui.rows[o][i]][j]
<1> DEFINE r == ui.rows[o][i]
<1>1. /\ r \in DOMAIN ui.shown /\ r \in Models /\ r # mixer /\ r # main_strip /\ r # o
    BY RowIsBelow
<1>2. o.kind # "entry" /\ o \in Models
    BY RowIsBelow
<1>3. Gone(ui, o, i) = {r} \cup (IF r \in DOMAIN ui.rows THEN ToSet(ui.rows[r]) ELSE {})
    BY DEF Gone, WithRows
<1> HIDE DEF r
<1>4. ASSUME NEW q \in Gone(ui, o, i), q # r
      PROVE  /\ r \in DOMAIN ui.rows /\ q.kind = "entry" /\ q \in Models
             /\ \E j \in DOMAIN ui.rows[r] : q = ui.rows[r][j]
             /\ q # mixer /\ q # main_strip
    <2>1. r \in DOMAIN ui.rows /\ \E j \in DOMAIN ui.rows[r] : q = ui.rows[r][j]
        BY <1>3, <1>4 DEF ToSet
    <2>2. PICK j \in DOMAIN ui.rows[r] : q = ui.rows[r][j]
        BY <2>1
    <2> QED
        BY <1>1, <2>1, <2>2, RowIsBelow
<1>5. r \in Gone(ui, o, i)
    BY <1>3
<1>6. o \notin Gone(ui, o, i) /\ mixer \notin Gone(ui, o, i) /\ main_strip \notin Gone(ui, o, i)
    BY <1>1, <1>2, <1>4
<1> QED
    BY <1>4, <1>5, <1>6 DEF r

LEMMA RowRemovedIs ==
    ASSUME NEW ui, IsUi(ui), TreeFits(ui), NEW o \in DOMAIN ui.rows, NEW pos \in Nat,
           pos + 1 \in DOMAIN ui.rows[o]
    PROVE  LET new == RowRemoved(ui, o, pos)
               gone == Gone(ui, o, pos + 1)
           IN  /\ IsUi(new)
               /\ new.shown = [p \in DOMAIN ui.shown \ gone |-> ui.shown[p]]
               /\ DOMAIN new.rows = DOMAIN ui.rows \ gone
               /\ new.rows[o] = RemoveAt(ui.rows[o], pos + 1)
               /\ \A p \in DOMAIN ui.rows \ gone : p # o => new.rows[p] = ui.rows[p]
               /\ new.subscribed = Unsubscribed(ui, gone).subscribed
               /\ new.slots = Unsubscribed(ui, gone).slots
               /\ new.calls = Unsubscribed(ui, gone).calls
<1> DEFINE new == RowRemoved(ui, o, pos)
           gone == Gone(ui, o, pos + 1)
           left == Unsubscribed(ui, gone)
           shown_left == [p \in DOMAIN ui.shown \ gone |-> ui.shown[p]]
           rows_left == [p \in DOMAIN ui.rows \ gone |-> ui.rows[p]]
           removed == RemoveAt(ui.rows[o], pos + 1)
           destroyed == Destroyed(ui, ui.rows[o][pos + 1])
<1>1. IsUi(left)
    BY UnsubscribedIs
<1>2. o \notin gone
    BY GoneIs
<1>3. destroyed = [left EXCEPT !.shown = shown_left, !.rows = rows_left]
    BY DEF Destroyed, Gone
<1>4. new = [destroyed EXCEPT !.rows[o] = removed]
    BY DEF RowRemoved
<1>5. /\ DOMAIN rows_left = DOMAIN ui.rows \ gone
      /\ \A p \in DOMAIN rows_left : rows_left[p] = ui.rows[p]
    OBVIOUS
<1>6. o \in DOMAIN rows_left
    BY <1>2, <1>5
<1> HIDE DEF new, left, shown_left, rows_left, removed, destroyed
<1>7. destroyed = [shown |-> shown_left, rows |-> rows_left, subscribed |-> left.subscribed,
                   slots |-> left.slots, calls |-> left.calls]
    BY <1>1, <1>3 DEF IsUi
<1> DEFINE rows_new == [rows_left EXCEPT ![o] = removed]
<1>8. new = [shown |-> shown_left, rows |-> rows_new, subscribed |-> left.subscribed,
             slots |-> left.slots, calls |-> left.calls]
    BY <1>4, <1>7
<1>9. /\ DOMAIN rows_new = DOMAIN rows_left /\ rows_new[o] = removed
      /\ \A p \in DOMAIN rows_left : p # o => rows_new[p] = rows_left[p]
    BY <1>6
<1> HIDE DEF rows_new
<1>10. /\ IsUi(new) /\ new.shown = shown_left /\ new.rows = rows_new
       /\ new.subscribed = left.subscribed /\ new.slots = left.slots /\ new.calls = left.calls
    BY <1>8 DEF IsUi
<1>11. DOMAIN new.rows = DOMAIN ui.rows \ gone /\ new.rows[o] = removed
    BY <1>5, <1>9, <1>10
<1>12. \A p \in DOMAIN ui.rows \ gone : p # o => new.rows[p] = ui.rows[p]
    BY <1>5, <1>9, <1>10
<1> QED
    BY <1>10, <1>11, <1>12 DEF new, left, shown_left, removed

\* What holds of the views while a list is edited: all but one slot follow.
Sound(ui, s, key) ==
    /\ IsUi(ui) /\ TreeFits(ui) /\ SlotsFit(ui) /\ CallsFit(ui)
    /\ SlotsFollowBut(ui, s, key) /\ NoneHeld(ui, key)

LEMMA SlotsFitKept ==
    ASSUME NEW ui, SlotsFit(ui), NEW new,
           new.slots = ui.slots, new.subscribed = ui.subscribed,
           \A p \in ui.subscribed : p \in DOMAIN new.shown /\ new.shown[p] = ui.shown[p]
    PROVE  SlotsFit(new)
<1>1. ASSUME NEW i \in DOMAIN new.slots
      PROVE  new.shown[new.slots[i].model][new.slots[i].what]
                = Showing(new.slots[i].model, new.slots[i].what, new.slots[i].last)
    <2>1. PICK o : o = ui.slots[i].model /\ o = new.slots[i].model /\ o \in ui.subscribed
        BY DEF SlotsFit
    <2>2. ui.shown[o][ui.slots[i].what] = Showing(o, ui.slots[i].what, ui.slots[i].last)
        BY <2>1 DEF SlotsFit
    <2>3. new.shown[o] = ui.shown[o]
        BY <2>1
    <2> QED
        BY <2>1, <2>2, <2>3
<1>2. new.subscribed \subseteq DOMAIN new.shown
    OBVIOUS
<1> QED
    BY <1>1, <1>2 DEF SlotsFit

LEMMA CallsFitKept ==
    ASSUME NEW ui, NEW new, new.slots = ui.slots, new.calls = ui.calls, NEW s, NEW key
    PROVE  /\ CallsFit(ui) => CallsFit(new)
           /\ SlotsFollowBut(ui, s, key) => SlotsFollowBut(new, s, key)
           /\ NoneHeld(ui, key) => NoneHeld(new, key)
<1>1. CallsFit(ui) => CallsFit(new)
    BY DEF CallsFit
<1>2. SlotsFollowBut(ui, s, key) => SlotsFollowBut(new, s, key)
    BY DEF SlotsFollowBut
<1>3. NoneHeld(ui, key) => NoneHeld(new, key)
    BY DEF NoneHeld
<1> QED
    BY <1>1, <1>2, <1>3

\* The rows that are left when one is removed.
FewerRows(new, list, S, i) ==
    /\ DOMAIN new = 1 .. Len(new) /\ Len(new) \in Nat
    /\ Len(new) = Len(list) - 1
    /\ new \in Seq(S)
    /\ \A k \in DOMAIN new : new[k] = list[IF k < i THEN k ELSE k + 1]
    /\ \A k \in DOMAIN new : (IF k < i THEN k ELSE k + 1) \in DOMAIN list \ {i}
    /\ \A j \in DOMAIN list \ {i} : \E k \in DOMAIN new : new[k] = list[j]

LEMMA RowsLeft ==
    ASSUME NEW ui, TreeFits(ui), NEW o \in DOMAIN ui.rows, NEW i \in DOMAIN ui.rows[o]
    PROVE  FewerRows(RemoveAt(ui.rows[o], i), ui.rows[o], DOMAIN ui.shown \cap RowsOf(o), i)
<1> DEFINE list == ui.rows[o]
           new == RemoveAt(list, i)
           S == DOMAIN ui.shown \cap RowsOf(o)
<1>1. list \in Seq(S)
    BY DEF TreeFits
<1>2. DOMAIN list = 1 .. Len(list) /\ Len(list) \in Nat
    BY <1>1, ListOfItsOwn
<1> HIDE DEF list, S
<1>3. i \in 1 .. Len(list)
    BY <1>2 DEF list
<1>4. /\ new \in Seq(S) /\ Len(new) = Len(list) - 1
      /\ \A k \in 1 .. Len(list) - 1 : new[k] = IF k < i THEN list[k] ELSE list[k + 1]
    BY <1>1, <1>3, Removed
<1> HIDE DEF new
<1>5. DOMAIN new = 1 .. Len(new) /\ Len(new) \in Nat
    BY <1>4, ListOfItsOwn
<1>6. \A k \in DOMAIN new : new[k] = list[IF k < i THEN k ELSE k + 1]
    BY <1>4, <1>5
<1>7. \A k \in DOMAIN new : (IF k < i THEN k ELSE k + 1) \in DOMAIN list \ {i}
    BY <1>2, <1>3, <1>4, <1>5
<1>8. ASSUME NEW j \in DOMAIN list \ {i} PROVE \E k \in DOMAIN new : new[k] = list[j]
    <2>1. CASE j < i
        <3>1. j \in 1 .. Len(list) - 1
            BY <1>2, <1>3, <2>1
        <3> QED
            BY <1>4, <1>5, <2>1, <3>1
    <2>2. CASE ~(j < i)
        <3>1. PICK k \in Nat : k = j - 1
            BY <1>2, <1>3, <2>2
        <3>2. k \in 1 .. Len(list) - 1 /\ ~(k < i) /\ k + 1 = j
            BY <1>2, <1>3, <2>2, <3>1
        <3> QED
            BY <1>4, <1>5, <3>2
    <2> QED
        BY <2>1, <2>2
<1>9. FewerRows(new, list, S, i)
    BY <1>4, <1>5, <1>6, <1>7, <1>8 DEF FewerRows
<1> QED
    BY <1>9 DEF new, list, S

LEMMA TreeWithout ==
    ASSUME NEW ui, IsUi(ui), TreeFits(ui), NEW o \in DOMAIN ui.rows, NEW pos \in Nat,
           pos + 1 \in DOMAIN ui.rows[o]
    PROVE  TreeFits(RowRemoved(ui, o, pos))
<1> DEFINE new == RowRemoved(ui, o, pos)
<1>0. PICK i \in Nat : i = pos + 1
    OBVIOUS
<1>1. PICK gone, r, left :
        /\ i = pos + 1 /\ gone = Gone(ui, o, i)
        /\ r = ui.rows[o][i] /\ left = RemoveAt(ui.rows[o], i)
    BY <1>0
<1>2. /\ new.shown = [p \in DOMAIN ui.shown \ gone |-> ui.shown[p]]
      /\ DOMAIN new.rows = DOMAIN ui.rows \ gone
      /\ new.rows[o] = left
      /\ \A p \in DOMAIN ui.rows \ gone : p # o => new.rows[p] = ui.rows[p]
    BY <1>1, RowRemovedIs
<1> HIDE DEF new
<1>3. i \in DOMAIN ui.rows[o]
    BY <1>1
<1>4. /\ r \in gone /\ o \notin gone /\ mixer \notin gone /\ main_strip \notin gone
      /\ \A q \in gone : q # r =>
            /\ r \in DOMAIN ui.rows /\ q.kind = "entry"
            /\ \E j \in DOMAIN ui.rows[r] : q = ui.rows[r][j]
    BY <1>1, <1>3, GoneIs
<1>5. /\ DOMAIN left = 1 .. Len(left) /\ Len(left) \in Nat
      /\ left \in Seq(DOMAIN ui.shown \cap RowsOf(o))
      /\ \A k \in DOMAIN left : left[k] = ui.rows[o][IF k < i THEN k ELSE k + 1]
      /\ \A k \in DOMAIN left : (IF k < i THEN k ELSE k + 1) \in DOMAIN ui.rows[o] \ {i}
      /\ \A j \in DOMAIN ui.rows[o] \ {i} : \E k \in DOMAIN left : left[k] = ui.rows[o][j]
    <2>1. FewerRows(RemoveAt(ui.rows[o], i), ui.rows[o], DOMAIN ui.shown \cap RowsOf(o), i)
        BY <1>3, RowsLeft
    <2>2. FewerRows(left, ui.rows[o], DOMAIN ui.shown \cap RowsOf(o), i)
        BY <1>1, <2>1
    <2> QED
        BY <2>2 DEF FewerRows
<1>6. \A p, q \in DOMAIN ui.rows : \A k \in DOMAIN ui.rows[p], j \in DOMAIN ui.rows[q] :
            ui.rows[p][k] = ui.rows[q][j] => p = q /\ k = j
    BY DEF TreeFits
<1>7. DOMAIN new.shown = DOMAIN ui.shown \ gone
    BY <1>2
<1>8. ASSUME NEW p \in DOMAIN ui.rows \ gone, NEW k \in DOMAIN ui.rows[p],
             p # o \/ k # i
      PROVE  ui.rows[p][k] \notin gone
    <2>1. ui.rows[p][k] # r
        BY <1>1, <1>3, <1>6, <1>8
    <2>2. ASSUME r \in DOMAIN ui.rows, NEW j \in DOMAIN ui.rows[r]
          PROVE  ui.rows[p][k] # ui.rows[r][j]
        BY <1>4, <1>6, <1>8, <2>2
    <2> QED
        BY <1>4, <2>1, <2>2
<1>9. ASSUME NEW p \in DOMAIN new.rows, NEW k \in DOMAIN new.rows[p]
      PROVE  \E j \in DOMAIN ui.rows[p] :
                /\ new.rows[p][k] = ui.rows[p][j] /\ p \in DOMAIN ui.rows \ gone
                /\ p # o \/ j # i
                /\ j = IF p = o /\ ~(k < i) THEN k + 1 ELSE k
    <2>1. CASE p = o
        <3>1. left[k] = ui.rows[o][IF k < i THEN k ELSE k + 1]
              /\ (IF k < i THEN k ELSE k + 1) \in DOMAIN ui.rows[o] \ {i}
            BY <1>2, <1>5, <1>9, <2>1
        <3> QED
            BY <1>2, <2>1, <3>1
    <2>2. CASE p # o
        BY <1>2, <1>9, <2>2
    <2> QED
        BY <2>1, <2>2
<1>10. DOMAIN new.rows = {p \in DOMAIN new.shown : p.kind # "entry"}
    <2>1. DOMAIN ui.rows = {p \in DOMAIN ui.shown : p.kind # "entry"}
        BY DEF TreeFits
    <2> QED
        BY <1>2, <1>7, <2>1
<1>11. ASSUME NEW p \in DOMAIN new.rows
       PROVE  new.rows[p] \in Seq(DOMAIN new.shown \cap RowsOf(p))
    <2>1. new.rows[p] \in Seq(DOMAIN ui.shown \cap RowsOf(p))
        BY <1>2, <1>5 DEF TreeFits
    <2>2. DOMAIN new.rows[p] = 1 .. Len(new.rows[p])
        BY <2>1, ListOfItsOwn
    <2>3. ASSUME NEW k \in 1 .. Len(new.rows[p])
          PROVE  new.rows[p][k] \in DOMAIN new.shown \cap RowsOf(p)
        <3>1. new.rows[p][k] \in DOMAIN ui.shown \cap RowsOf(p)
            BY <2>1, ListOfItsOwn
        <3>2. new.rows[p][k] \notin gone
            BY <1>8, <1>9, <2>2
        <3> QED
            BY <1>7, <3>1, <3>2
    <2> QED
        BY <2>1, <2>3, ListOver
<1>12. ASSUME NEW p \in DOMAIN new.rows, NEW q \in DOMAIN new.rows,
              NEW k \in DOMAIN new.rows[p], NEW j \in DOMAIN new.rows[q],
              new.rows[p][k] = new.rows[q][j]
       PROVE  p = q /\ k = j
    <2>1. PICK k1 \in DOMAIN ui.rows[p] :
            /\ new.rows[p][k] = ui.rows[p][k1] /\ p \in DOMAIN ui.rows
            /\ k1 = IF p = o /\ ~(k < i) THEN k + 1 ELSE k
        BY <1>9
    <2>2. PICK j1 \in DOMAIN ui.rows[q] :
            /\ new.rows[q][j] = ui.rows[q][j1] /\ q \in DOMAIN ui.rows
            /\ j1 = IF q = o /\ ~(j < i) THEN j + 1 ELSE j
        BY <1>9
    <2>3. p = q /\ k1 = j1
        <3>1. ui.rows[p][k1] = ui.rows[q][j1]
            BY <1>12, <2>1, <2>2
        <3>2. p \in DOMAIN ui.rows /\ q \in DOMAIN ui.rows
            BY <2>1, <2>2
        <3> QED
            BY <1>6, <3>1, <3>2
    <2>4. CASE p = o
        <3>1. k \in Nat /\ j \in Nat
            BY <1>2, <1>5, <2>3, <2>4
        <3> QED
            BY <2>1, <2>2, <2>3, <2>4, <3>1
    <2> QED
        BY <2>1, <2>2, <2>3, <2>4
<1>13. ASSUME NEW q \in DOMAIN new.shown \ {mixer, main_strip}
       PROVE  \E p \in DOMAIN new.rows : \E k \in DOMAIN new.rows[p] : new.rows[p][k] = q
    <2>1. q \in DOMAIN ui.shown \ {mixer, main_strip} /\ q \notin gone
        BY <1>7
    <2>2. PICK p \in DOMAIN ui.rows : \E k \in DOMAIN ui.rows[p] : ui.rows[p][k] = q
        BY <2>1 DEF TreeFits
    <2>3. PICK k \in DOMAIN ui.rows[p] : ui.rows[p][k] = q
        BY <2>2
    <2>4. p \notin gone
        <3>1. CASE p = r
            <4>1. q \in ToSet(ui.rows[r])
                BY <2>3, <3>1 DEF ToSet
            <4>2. gone = {r} \cup ToSet(ui.rows[r])
                BY <1>1, <2>2, <3>1 DEF Gone, WithRows
            <4> QED
                BY <2>1, <4>1, <4>2
        <3>2. CASE p # r
            <4>1. p.kind # "entry"
                BY RowIsBelow
            <4> QED
                BY <1>4, <3>2, <4>1
        <3> QED
            BY <3>1, <3>2
    <2>5. p \in DOMAIN new.rows
        BY <1>2, <2>4
    <2>6. CASE p = o
        <3>1. k # i
            BY <1>1, <1>4, <2>1, <2>3, <2>6
        <3>2. \E j \in DOMAIN left : left[j] = ui.rows[o][k]
            BY <1>5, <2>6, <3>1
        <3> QED
            BY <1>2, <2>3, <2>5, <2>6, <3>2
    <2>7. CASE p # o
        BY <1>2, <2>3, <2>4, <2>5, <2>7
    <2> QED
        BY <2>6, <2>7
<1>14. /\ DOMAIN new.shown \subseteq Models /\ mixer \in DOMAIN new.shown
       /\ main_strip \in DOMAIN new.shown
    BY <1>4, <1>7 DEF TreeFits
<1>15. TreeFits(new)
    BY <1>10, <1>11, <1>12, <1>13, <1>14 DEF TreeFits
<1> QED
    BY <1>15 DEF new

LEMMA RowRemovedFits ==
    ASSUME NEW ui, NEW s, NEW key, Sound(ui, s, key), NEW o \in DOMAIN ui.rows,
           NEW pos \in Nat, pos + 1 \in DOMAIN ui.rows[o]
    PROVE  LET new == RowRemoved(ui, o, pos) IN
           /\ Sound(new, s, key)
           /\ o \in DOMAIN new.rows /\ new.rows[o] = RemoveAt(ui.rows[o], pos + 1)
           /\ o \in new.subscribed <=> o \in ui.subscribed
           /\ \A p \in DOMAIN new.shown :
                p \in DOMAIN ui.shown /\ new.shown[p] = ui.shown[p]
           /\ \A p \in DOMAIN new.rows : p # o =>
                p \in DOMAIN ui.rows /\ new.rows[p] = ui.rows[p]
<1> DEFINE new == RowRemoved(ui, o, pos)
           gone == Gone(ui, o, pos + 1)
           left == Unsubscribed(ui, gone)
<1>1. /\ IsUi(ui) /\ TreeFits(ui) /\ SlotsFit(ui) /\ CallsFit(ui)
      /\ SlotsFollowBut(ui, s, key) /\ NoneHeld(ui, key)
    BY DEF Sound
<1>2. /\ IsUi(new)
      /\ new.shown = [p \in DOMAIN ui.shown \ gone |-> ui.shown[p]]
      /\ DOMAIN new.rows = DOMAIN ui.rows \ gone
      /\ new.rows[o] = RemoveAt(ui.rows[o], pos + 1)
      /\ \A p \in DOMAIN ui.rows \ gone : p # o => new.rows[p] = ui.rows[p]
      /\ new.subscribed = left.subscribed /\ new.slots = left.slots /\ new.calls = left.calls
    BY <1>1, RowRemovedIs
<1>3. TreeFits(new)
    BY <1>1, TreeWithout
<1>4. o \notin gone
    BY <1>1, GoneIs
<1>5. /\ left.shown = ui.shown /\ left.subscribed = ui.subscribed \ gone
    BY <1>1, UnsubscribedIs
<1>6. /\ SlotsFit(left) /\ CallsFit(left)
      /\ SlotsFollowBut(left, s, key) /\ NoneHeld(left, key)
    BY <1>1, UnsubscribedFits
<1> HIDE DEF new, gone, left
<1>7. \A p \in left.subscribed : p \in DOMAIN new.shown /\ new.shown[p] = left.shown[p]
    <2>1. ui.subscribed \subseteq DOMAIN ui.shown
        BY <1>1 DEF SlotsFit
    <2> QED
        BY <1>2, <1>5, <2>1
<1>8. SlotsFit(new)
    BY <1>2, <1>6, <1>7, SlotsFitKept
<1>9. CallsFit(new) /\ SlotsFollowBut(new, s, key) /\ NoneHeld(new, key)
    BY <1>2, <1>6, CallsFitKept
<1>10. Sound(new, s, key)
    BY <1>2, <1>3, <1>8, <1>9 DEF Sound
<1>11. o \in DOMAIN new.rows /\ (o \in new.subscribed <=> o \in ui.subscribed)
    BY <1>2, <1>4, <1>5
<1>12. \A p \in DOMAIN new.shown : p \in DOMAIN ui.shown /\ new.shown[p] = ui.shown[p]
    BY <1>2
<1>13. \A p \in DOMAIN new.rows : p # o => p \in DOMAIN ui.rows /\ new.rows[p] = ui.rows[p]
    BY <1>2
<1> QED
    BY <1>2, <1>10, <1>11, <1>12, <1>13 DEF new

-----------------------------------------------------------------------------
(* A row that is added. *)

LEMMA CopyIsFree ==
    ASSUME NEW ui, TreeFits(ui), NEW o \in DOMAIN ui.rows, NEW id \in IdsOf(o),
           \A i, j \in DOMAIN ui.rows[o] :
                ui.rows[o][i].id = id /\ ui.rows[o][j].id = id => i = j,
           \A p \in DOMAIN ui.rows : p # o /\ p # mixer /\ o # mixer =>
                \A i \in DOMAIN ui.rows[p] : ui.rows[p][i].id # id
    PROVE  /\ NewRow(ui, o, id) \in RowsOf(o) /\ NewRow(ui, o, id) \notin DOMAIN ui.shown
           /\ NewRow(ui, o, id).id = id
           /\ NewRow(ui, o, id).kind = IF o = mixer THEN "strip" ELSE "entry"
<1> DEFINE kind == IF o.kind = "mixer" THEN "strip" ELSE "entry"
           row(copy) == [kind |-> kind, id |-> id, copy |-> copy]
           free == {copy \in 1 .. 2 : row(copy) \notin DOMAIN ui.shown}
<1>1. o \in Models /\ o.kind # "entry" /\ (o.kind = "mixer" <=> o = mixer)
    BY RowIsBelow, Kinds
<1>2. ASSUME NEW c \in 1 .. 2
      PROVE  /\ row(c) \in RowsOf(o) /\ row(c) \in Models
             /\ row(c) # mixer /\ row(c) # main_strip
             /\ row(c).id = id /\ row(c).copy = c /\ row(c).kind = kind
    <2>1. row(c) \in RowsOf(o)
        BY DEF RowsOf, IdsOf, Strips, Entries
    <2>2. row(c) \in Strips \cup Entries /\ row(c) \in Models
        BY <2>1 DEF RowsOf, Models
    <2>3. row(c) # mixer /\ row(c) # main_strip
        BY <2>2, Kinds
    <2> QED
        BY <2>1, <2>2, <2>3
<1>3. NewRow(ui, o, id) = row(CHOOSE copy \in 1 .. 2 : row(copy) \notin DOMAIN ui.shown)
    BY DEF NewRow
<1>4. kind = IF o = mixer THEN "strip" ELSE "entry"
    BY <1>1
<1> HIDE DEF row, kind
<1>5. ASSUME NEW c \in 1 .. 2, row(c) \in DOMAIN ui.shown
      PROVE  \E i \in DOMAIN ui.rows[o] : ui.rows[o][i] = row(c)
    <2>1. row(c) \in DOMAIN ui.shown \ {mixer, main_strip}
        BY <1>2, <1>5
    <2>2. PICK p \in DOMAIN ui.rows : \E i \in DOMAIN ui.rows[p] : ui.rows[p][i] = row(c)
        BY <2>1 DEF TreeFits
    <2>3. PICK i \in DOMAIN ui.rows[p] : ui.rows[p][i] = row(c)
        BY <2>2
    <2>4. row(c).kind = IF p = mixer THEN "strip" ELSE "entry"
        BY <2>3, RowIsBelow
    <2>5. p = mixer <=> o = mixer
        BY <1>2, <1>4, <2>4
    <2>6. p = o
        BY <1>2, <2>3, <2>5
    <2> QED
        BY <2>3, <2>6
<1>6. \E copy \in 1 .. 2 : row(copy) \notin DOMAIN ui.shown
    <2> SUFFICES ASSUME row(1) \in DOMAIN ui.shown, row(2) \in DOMAIN ui.shown PROVE FALSE
        OBVIOUS
    <2>0. 1 \in 1 .. 2 /\ 2 \in 1 .. 2
        OBVIOUS
    <2>1. PICK i \in DOMAIN ui.rows[o] : ui.rows[o][i] = row(1)
        BY <1>5, <2>0
    <2>2. PICK j \in DOMAIN ui.rows[o] : ui.rows[o][j] = row(2)
        BY <1>5, <2>0
    <2>3. ui.rows[o][i].id = id /\ ui.rows[o][j].id = id
        BY <1>2, <2>0, <2>1, <2>2
    <2>4. row(1) = row(2)
        BY <2>1, <2>2, <2>3
    <2>5. row(1).copy = 1 /\ row(2).copy = 2
        BY <1>2, <2>0
    <2> QED
        BY <2>4, <2>5
<1>7. PICK c \in 1 .. 2 : NewRow(ui, o, id) = row(c) /\ row(c) \notin DOMAIN ui.shown
    BY <1>3, <1>6
<1> QED
    BY <1>2, <1>4, <1>7

LEMMA RowAddedIs ==
    ASSUME NEW ui, IsUi(ui), TreeFits(ui), NEW o \in DOMAIN ui.rows, NEW pos \in Nat, NEW id,
           NewRow(ui, o, id) \notin DOMAIN ui.shown
    PROVE  LET new == RowAdded(ui, o, pos, id)
               row == NewRow(ui, o, id)
           IN  /\ IsUi(new)
               /\ DOMAIN new.shown = DOMAIN ui.shown \cup {row}
               /\ new.shown[row] = Fresh(row)
               /\ \A p \in DOMAIN ui.shown : new.shown[p] = ui.shown[p]
               /\ DOMAIN new.rows = DOMAIN ui.rows \cup IF row.kind = "strip" THEN {row} ELSE {}
               /\ row.kind = "strip" => new.rows[row] = <<>>
               /\ new.rows[o] = InsertAt(ui.rows[o], pos + 1, row)
               /\ \A p \in DOMAIN ui.rows : p # o => new.rows[p] = ui.rows[p]
               /\ new.subscribed = ui.subscribed /\ new.slots = ui.slots
               /\ new.calls = ui.calls
<1> DEFINE new == RowAdded(ui, o, pos, id)
           row == NewRow(ui, o, id)
           lists == DOMAIN ui.rows \cup IF row.kind = "strip" THEN {row} ELSE {}
           inserted == InsertAt(ui.rows[o], pos + 1, row)
           shown_new == [p \in DOMAIN ui.shown \cup {row} |->
                            IF p = row THEN Fresh(row) ELSE ui.shown[p]]
           rows_new == [p \in lists |-> CASE p = row -> <<>>
                                          [] p = o -> inserted
                                          [] OTHER -> ui.rows[p]]
<1>1. new = [ui EXCEPT !.shown = shown_new, !.rows = rows_new]
    BY DEF RowAdded
<1>2. DOMAIN ui.rows \subseteq DOMAIN ui.shown /\ row \notin DOMAIN ui.shown
    BY DEF TreeFits
<1> HIDE DEF new, row, inserted
<1>3. /\ DOMAIN shown_new = DOMAIN ui.shown \cup {row}
      /\ shown_new[row] = Fresh(row)
      /\ \A p \in DOMAIN ui.shown : shown_new[p] = ui.shown[p]
    BY <1>2
<1>4. /\ DOMAIN rows_new = lists
      /\ row.kind = "strip" => rows_new[row] = <<>>
      /\ rows_new[o] = inserted
      /\ \A p \in DOMAIN ui.rows : p # o => rows_new[p] = ui.rows[p]
    <2>1. DOMAIN rows_new = lists
        OBVIOUS
    <2>3. o # row /\ o \in lists
        BY <1>2
    <2>2. ASSUME row.kind = "strip" PROVE rows_new[row] = <<>>
        <3>1. row \in lists
            BY <2>2
        <3> QED
            BY <2>3, <3>1
    <2>4. rows_new[o] = inserted
        BY <2>3
    <2>5. ASSUME NEW p \in DOMAIN ui.rows, p # o PROVE rows_new[p] = ui.rows[p]
        <3>1. p # row /\ p \in lists
            BY <1>2
        <3> QED
            BY <2>5, <3>1
    <2> QED
        BY <2>1, <2>2, <2>4, <2>5
<1> HIDE DEF shown_new, rows_new, lists
<1>5. new = [shown |-> shown_new, rows |-> rows_new, subscribed |-> ui.subscribed,
             slots |-> ui.slots, calls |-> ui.calls]
    BY <1>1 DEF IsUi
<1>6. /\ IsUi(new) /\ new.shown = shown_new /\ new.rows = rows_new
      /\ new.subscribed = ui.subscribed /\ new.slots = ui.slots /\ new.calls = ui.calls
    BY <1>5 DEF IsUi
<1> QED
    BY <1>3, <1>4, <1>6 DEF new, row, inserted, lists

\* The rows that are there when one is added.
MoreRows(new, list, S, i, row) ==
    /\ DOMAIN new = 1 .. Len(new) /\ Len(new) \in Nat
    /\ Len(new) = Len(list) + 1
    /\ new \in Seq(S)
    /\ i \in DOMAIN new /\ new[i] = row
    /\ \A k \in DOMAIN new : k # i =>
         /\ (IF k < i THEN k ELSE k - 1) \in DOMAIN list
         /\ new[k] = list[IF k < i THEN k ELSE k - 1]
    /\ \A j \in DOMAIN list : \E k \in DOMAIN new : new[k] = list[j]

LEMMA RowsMore ==
    ASSUME NEW ui, TreeFits(ui), NEW o \in DOMAIN ui.rows, NEW i \in Nat,
           i \in 1 .. Len(ui.rows[o]) + 1, NEW row \in RowsOf(o)
    PROVE  MoreRows(InsertAt(ui.rows[o], i, row), ui.rows[o],
                    (DOMAIN ui.shown \cup {row}) \cap RowsOf(o), i, row)
<1> DEFINE list == ui.rows[o]
           new == InsertAt(list, i, row)
           S == (DOMAIN ui.shown \cup {row}) \cap RowsOf(o)
<1>1. list \in Seq(S) /\ row \in S
    <2>1. list \in Seq(DOMAIN ui.shown \cap RowsOf(o))
        BY DEF TreeFits
    <2>2. \A k \in 1 .. Len(list) : list[k] \in S
        BY <2>1, ListOfItsOwn
    <2> HIDE DEF list, S
    <2>3. list \in Seq(S)
        BY <2>1, <2>2, ListOver
    <2> QED
        BY <2>3 DEF S
<1>2. DOMAIN list = 1 .. Len(list) /\ Len(list) \in Nat
    BY <1>1, ListOfItsOwn
<1> HIDE DEF list, S
<1>3. i \in 1 .. Len(list) + 1
    BY <1>2 DEF list
<1>4. /\ new \in Seq(S) /\ Len(new) = Len(list) + 1 /\ new[i] = row
      /\ \A k \in 1 .. i - 1 : new[k] = list[k]
      /\ \A k \in i + 1 .. Len(list) + 1 : new[k] = list[k - 1]
    <2>1. new \in Seq(S)
        BY <1>1, <1>3, Inserted
    <2>2. Len(new) = Len(list) + 1
        BY <1>1, <1>3, Inserted
    <2>3. new[i] = row
        BY <1>1, <1>3, Inserted
    <2>4. \A k \in 1 .. i - 1 : new[k] = list[k]
        BY <1>1, <1>3, Inserted
    <2>5. \A k \in i + 1 .. Len(list) + 1 : new[k] = list[k - 1]
        BY <1>1, <1>3, Inserted
    <2> HIDE DEF new
    <2> QED
        BY <2>1, <2>2, <2>3, <2>4, <2>5
<1> HIDE DEF new
<1>5. DOMAIN new = 1 .. Len(new) /\ Len(new) \in Nat
    BY <1>4, ListOfItsOwn
<1>6. ASSUME NEW k \in DOMAIN new, k # i
      PROVE  /\ (IF k < i THEN k ELSE k - 1) \in DOMAIN list
             /\ new[k] = list[IF k < i THEN k ELSE k - 1]
    <2>1. CASE k < i
        <3>1. k \in 1 .. i - 1 /\ k \in 1 .. Len(list)
            BY <1>3, <1>4, <1>5, <2>1
        <3> QED
            BY <1>2, <1>4, <2>1, <3>1
    <2>2. CASE ~(k < i)
        <3>1. k \in i + 1 .. Len(list) + 1 /\ k - 1 \in 1 .. Len(list)
            BY <1>2, <1>3, <1>4, <1>5, <1>6, <2>2
        <3> QED
            BY <1>2, <1>4, <2>2, <3>1
    <2> QED
        BY <2>1, <2>2
<1>7. ASSUME NEW j \in DOMAIN list PROVE \E k \in DOMAIN new : new[k] = list[j]
    <2>1. CASE j < i
        <3>1. j \in 1 .. i - 1 /\ j \in DOMAIN new
            BY <1>2, <1>3, <1>4, <1>5, <2>1
        <3> QED
            BY <1>4, <3>1
    <2>2. CASE ~(j < i)
        <3>1. PICK k \in Nat : k = j + 1
            BY <1>2
        <3>2. k \in i + 1 .. Len(list) + 1 /\ k - 1 = j
            BY <1>2, <1>3, <2>2, <3>1
        <3>3. k \in DOMAIN new
            BY <1>2, <1>4, <1>5, <3>1
        <3>4. new[k] = list[k - 1]
            BY <1>4, <3>2
        <3> QED
            BY <3>2, <3>3, <3>4
    <2> QED
        BY <2>1, <2>2
<1>8. i \in DOMAIN new
    BY <1>2, <1>3, <1>4, <1>5
<1>9. MoreRows(new, list, S, i, row)
    BY <1>4, <1>5, <1>6, <1>7, <1>8 DEF MoreRows
<1> QED
    BY <1>9 DEF new, list, S

LEMMA TreeWith ==
    ASSUME NEW ui, IsUi(ui), TreeFits(ui), NEW o \in DOMAIN ui.rows, NEW pos \in Nat, NEW id,
           pos + 1 \in 1 .. Len(ui.rows[o]) + 1,
           NewRow(ui, o, id) \notin DOMAIN ui.shown, NewRow(ui, o, id) \in RowsOf(o)
    PROVE  TreeFits(RowAdded(ui, o, pos, id))
<1> DEFINE new == RowAdded(ui, o, pos, id)
<1>0. PICK i \in Nat : i = pos + 1
    OBVIOUS
<1>1. PICK row, list :
        i = pos + 1 /\ row = NewRow(ui, o, id) /\ list = InsertAt(ui.rows[o], i, row)
    BY <1>0
<1>2. /\ DOMAIN new.shown = DOMAIN ui.shown \cup {row}
      /\ DOMAIN new.rows = DOMAIN ui.rows \cup IF row.kind = "strip" THEN {row} ELSE {}
      /\ row.kind = "strip" => new.rows[row] = <<>>
      /\ new.rows[o] = list
      /\ \A p \in DOMAIN ui.rows : p # o => new.rows[p] = ui.rows[p]
    BY <1>1, RowAddedIs
<1> HIDE DEF new
<1>3. /\ i \in 1 .. Len(ui.rows[o]) + 1 /\ row \in RowsOf(o) /\ row \notin DOMAIN ui.shown
    BY <1>1
<1>4. /\ DOMAIN list = 1 .. Len(list) /\ Len(list) \in Nat
      /\ list \in Seq((DOMAIN ui.shown \cup {row}) \cap RowsOf(o))
      /\ i \in DOMAIN list /\ list[i] = row
      /\ \A k \in DOMAIN list : k # i =>
            /\ (IF k < i THEN k ELSE k - 1) \in DOMAIN ui.rows[o]
            /\ list[k] = ui.rows[o][IF k < i THEN k ELSE k - 1]
      /\ \A j \in DOMAIN ui.rows[o] : \E k \in DOMAIN list : list[k] = ui.rows[o][j]
    <2>1. MoreRows(InsertAt(ui.rows[o], i, row), ui.rows[o],
                   (DOMAIN ui.shown \cup {row}) \cap RowsOf(o), i, row)
        BY <1>3, RowsMore
    <2>2. MoreRows(list, ui.rows[o], (DOMAIN ui.shown \cup {row}) \cap RowsOf(o), i, row)
        BY <1>1, <2>1
    <2> QED
        BY <2>2 DEF MoreRows
<1>5. row \in Models /\ (row.kind = "strip" <=> row.kind # "entry")
    <2>1. row \in Models
        BY <1>3 DEF RowsOf, Models
    <2> QED
        BY <2>1, <1>3, Kinds DEF RowsOf
<1>6. \A p \in DOMAIN ui.rows : \A k \in DOMAIN ui.rows[p] : ui.rows[p][k] # row
    BY <1>3, RowIsBelow
<1>7. \A p, q \in DOMAIN ui.rows : \A k \in DOMAIN ui.rows[p], j \in DOMAIN ui.rows[q] :
            ui.rows[p][k] = ui.rows[q][j] => p = q /\ k = j
    BY DEF TreeFits
<1>8. DOMAIN ui.rows = {p \in DOMAIN ui.shown : p.kind # "entry"}
      /\ DOMAIN ui.shown \subseteq Models
      /\ mixer \in DOMAIN ui.shown /\ main_strip \in DOMAIN ui.shown
    BY DEF TreeFits
<1>9. DOMAIN new.rows = {p \in DOMAIN new.shown : p.kind # "entry"}
    <2>1. CASE row.kind = "strip"
        BY <1>2, <1>5, <1>8, <2>1
    <2>2. CASE row.kind # "strip"
        BY <1>2, <1>5, <1>8, <2>2
    <2> QED
        BY <2>1, <2>2
<1>10. \A p \in DOMAIN new.rows : p = row \/ p \in DOMAIN ui.rows
    BY <1>2
<1>11. \A p \in DOMAIN new.rows : p = row => new.rows[p] = <<>> /\ DOMAIN new.rows[p] = {}
    <2>1. row \in DOMAIN new.rows => row.kind = "strip"
        BY <1>3, <1>5, <1>9
    <2>2. DOMAIN <<>> = {}
        OBVIOUS
    <2> QED
        BY <1>2, <2>1, <2>2
<1>12. ASSUME NEW p \in DOMAIN new.rows
       PROVE  new.rows[p] \in Seq(DOMAIN new.shown \cap RowsOf(p))
    <2>1. CASE p = row
        <3>1. \A S : <<>> \in Seq(S)
            OBVIOUS
        <3> QED
            BY <1>11, <2>1, <3>1
    <2>2. CASE p = o /\ p # row
        BY <1>2, <1>4, <2>2
    <2>3. CASE p # o /\ p # row
        <3>1. p \in DOMAIN ui.rows /\ new.rows[p] = ui.rows[p]
            BY <1>2, <1>10, <2>3
        <3>2. ui.rows[p] \in Seq(DOMAIN ui.shown \cap RowsOf(p))
            BY <3>1 DEF TreeFits
        <3>3. \A k \in 1 .. Len(ui.rows[p]) : ui.rows[p][k] \in DOMAIN new.shown \cap RowsOf(p)
            BY <1>2, <3>2, ListOfItsOwn
        <3> QED
            BY <3>1, <3>2, <3>3, ListOver
    <2> QED
        BY <2>1, <2>2, <2>3
<1>13. ASSUME NEW p \in DOMAIN new.rows, NEW k \in DOMAIN new.rows[p]
       PROVE  \/ p = o /\ k = i /\ new.rows[p][k] = row
              \/ \E j \in DOMAIN ui.rows[p] :
                    /\ p \in DOMAIN ui.rows /\ new.rows[p][k] = ui.rows[p][j]
                    /\ p = o => k # i
                    /\ j = IF p = o /\ ~(k < i) THEN k - 1 ELSE k
    <2>1. p # row /\ p \in DOMAIN ui.rows
        BY <1>10, <1>11
    <2>2. CASE p = o /\ k = i
        BY <1>2, <1>4, <2>2
    <2>3. CASE p = o /\ k # i
        <3>1. /\ (IF k < i THEN k ELSE k - 1) \in DOMAIN ui.rows[o]
              /\ list[k] = ui.rows[o][IF k < i THEN k ELSE k - 1]
            BY <1>2, <1>4, <1>13, <2>3
        <3> QED
            BY <1>2, <2>1, <2>3, <3>1
    <2>4. CASE p # o
        BY <1>2, <1>13, <2>1, <2>4
    <2> QED
        BY <2>2, <2>3, <2>4
<1>14. ASSUME NEW p \in DOMAIN new.rows, NEW q \in DOMAIN new.rows,
              NEW k \in DOMAIN new.rows[p], NEW j \in DOMAIN new.rows[q],
              new.rows[p][k] = new.rows[q][j]
       PROVE  p = q /\ k = j
    <2>1. CASE new.rows[p][k] = row
        <3>1. p = o /\ k = i
            BY <1>6, <1>13, <2>1
        <3>2. q = o /\ j = i
            <4>1. new.rows[q][j] = row
                BY <1>14, <2>1
            <4> QED
                BY <1>6, <1>13, <4>1
        <3> QED
            BY <3>1, <3>2
    <2>2. CASE new.rows[p][k] # row
        <3>1. PICK k1 \in DOMAIN ui.rows[p] :
                /\ p \in DOMAIN ui.rows /\ new.rows[p][k] = ui.rows[p][k1]
                /\ p = o => k # i
                /\ k1 = IF p = o /\ ~(k < i) THEN k - 1 ELSE k
            BY <1>13, <2>2
        <3>2. PICK j1 \in DOMAIN ui.rows[q] :
                /\ q \in DOMAIN ui.rows /\ new.rows[q][j] = ui.rows[q][j1]
                /\ q = o => j # i
                /\ j1 = IF q = o /\ ~(j < i) THEN j - 1 ELSE j
            BY <1>13, <1>14, <2>2
        <3>3. ui.rows[p][k1] = ui.rows[q][j1]
            BY <1>14, <3>1, <3>2
        <3>4. p = q /\ k1 = j1
            BY <1>7, <3>1, <3>2, <3>3
        <3>5. CASE p = o
            <4>1. k \in Nat /\ j \in Nat
                BY <1>2, <1>4, <3>4, <3>5
            <4> QED
                BY <3>1, <3>2, <3>4, <3>5, <4>1
        <3> QED
            BY <3>1, <3>2, <3>4, <3>5
    <2> QED
        BY <2>1, <2>2
<1>15. ASSUME NEW q \in DOMAIN new.shown \ {mixer, main_strip}
       PROVE  \E p \in DOMAIN new.rows : \E k \in DOMAIN new.rows[p] : new.rows[p][k] = q
    <2>1. o \in DOMAIN new.rows
        BY <1>2
    <2>2. CASE q = row
        BY <1>2, <1>4, <2>1, <2>2
    <2>3. CASE q # row
        <3>1. q \in DOMAIN ui.shown \ {mixer, main_strip}
            BY <1>2, <2>3
        <3>2. PICK p \in DOMAIN ui.rows : \E k \in DOMAIN ui.rows[p] : ui.rows[p][k] = q
            BY <3>1 DEF TreeFits
        <3>3. PICK k \in DOMAIN ui.rows[p] : ui.rows[p][k] = q
            BY <3>2
        <3>4. p \in DOMAIN new.rows
            BY <1>2
        <3>5. CASE p = o
            <4>1. PICK j \in DOMAIN list : list[j] = ui.rows[o][k]
                BY <1>4, <3>5
            <4> QED
                BY <1>2, <2>1, <3>3, <3>5, <4>1
        <3>6. CASE p # o
            BY <1>2, <3>3, <3>4, <3>6
        <3> QED
            BY <3>5, <3>6
    <2> QED
        BY <2>2, <2>3
<1>16. /\ DOMAIN new.shown \subseteq Models /\ mixer \in DOMAIN new.shown
       /\ main_strip \in DOMAIN new.shown
    BY <1>2, <1>5, <1>8
<1>17. TreeFits(new)
    BY <1>9, <1>12, <1>14, <1>15, <1>16 DEF TreeFits
<1> QED
    BY <1>17 DEF new

LEMMA RowAddedFits ==
    ASSUME NEW ui, NEW s, NEW key, Sound(ui, s, key), NEW o \in DOMAIN ui.rows,
           NEW pos \in Nat, NEW id, pos + 1 \in 1 .. Len(ui.rows[o]) + 1,
           NewRow(ui, o, id) \notin DOMAIN ui.shown, NewRow(ui, o, id) \in RowsOf(o)
    PROVE  LET new == RowAdded(ui, o, pos, id) IN
           /\ Sound(new, s, key)
           /\ o \in DOMAIN new.rows
           /\ new.rows[o] = InsertAt(ui.rows[o], pos + 1, NewRow(ui, o, id))
           /\ new.subscribed = ui.subscribed
           /\ \A p \in DOMAIN new.shown :
                p = NewRow(ui, o, id) \/ p \in DOMAIN ui.shown
           /\ new.shown[NewRow(ui, o, id)] = Fresh(NewRow(ui, o, id))
           /\ \A p \in DOMAIN ui.shown : new.shown[p] = ui.shown[p]
           /\ \A p \in DOMAIN new.rows : p # o =>
                \/ p = NewRow(ui, o, id) /\ p.kind = "strip" /\ new.rows[p] = <<>>
                \/ p \in DOMAIN ui.rows /\ new.rows[p] = ui.rows[p]
<1> DEFINE new == RowAdded(ui, o, pos, id)
           row == NewRow(ui, o, id)
<1>1. /\ IsUi(ui) /\ TreeFits(ui) /\ SlotsFit(ui) /\ CallsFit(ui)
      /\ SlotsFollowBut(ui, s, key) /\ NoneHeld(ui, key)
    BY DEF Sound
<1>2. /\ IsUi(new)
      /\ DOMAIN new.shown = DOMAIN ui.shown \cup {row}
      /\ new.shown[row] = Fresh(row)
      /\ \A p \in DOMAIN ui.shown : new.shown[p] = ui.shown[p]
      /\ DOMAIN new.rows = DOMAIN ui.rows \cup IF row.kind = "strip" THEN {row} ELSE {}
      /\ row.kind = "strip" => new.rows[row] = <<>>
      /\ new.rows[o] = InsertAt(ui.rows[o], pos + 1, row)
      /\ \A p \in DOMAIN ui.rows : p # o => new.rows[p] = ui.rows[p]
      /\ new.subscribed = ui.subscribed /\ new.slots = ui.slots /\ new.calls = ui.calls
    BY <1>1, RowAddedIs
<1>3. TreeFits(new)
    BY <1>1, TreeWith
<1> HIDE DEF new, row
<1>4. \A p \in ui.subscribed : p \in DOMAIN new.shown /\ new.shown[p] = ui.shown[p]
    <2>1. ui.subscribed \subseteq DOMAIN ui.shown
        BY <1>1 DEF SlotsFit
    <2> QED
        BY <1>2, <2>1
<1>5. SlotsFit(new)
    BY <1>1, <1>2, <1>4, SlotsFitKept
<1>6. CallsFit(new) /\ SlotsFollowBut(new, s, key) /\ NoneHeld(new, key)
    BY <1>1, <1>2, CallsFitKept
<1>7. Sound(new, s, key)
    BY <1>2, <1>3, <1>5, <1>6 DEF Sound
<1>8. \A p \in DOMAIN new.rows : p # o =>
        \/ p = row /\ p.kind = "strip" /\ new.rows[p] = <<>>
        \/ p \in DOMAIN ui.rows /\ new.rows[p] = ui.rows[p]
    BY <1>2
<1> QED
    BY <1>2, <1>7, <1>8 DEF new, row

-----------------------------------------------------------------------------
(* What is observed, and what is shown at first. *)

LEMMA ObservedAre ==
    /\ Observed["mixer"] = <<"inputs">>
    /\ Observed["strip"] = <<"name", "focused_chain", "can_move_up", "can_move_down", "chain">>
    /\ Observed["entry"] = <<"module_name", "focused_module">>
BY DEF Observed

LEMMA WhatsAre ==
    ASSUME NEW o
    PROVE  /\ o.kind = "mixer" => Whats(o) = {"inputs"}
           /\ o.kind = "strip" =>
                Whats(o) = {"name", "focused_chain", "can_move_up", "can_move_down", "chain"}
           /\ o.kind = "entry" => Whats(o) = {"module_name", "focused_module"}
<1>1. ToSet(<<"inputs">>) = {"inputs"}
    BY DEF ToSet
<1>2. ToSet(<<"name", "focused_chain", "can_move_up", "can_move_down", "chain">>)
        = {"name", "focused_chain", "can_move_up", "can_move_down", "chain"}
    BY DEF ToSet
<1>3. ToSet(<<"module_name", "focused_module">>) = {"module_name", "focused_module"}
    BY DEF ToSet
<1> QED
    BY <1>1, <1>2, <1>3, ObservedAre DEF Whats

LEMMA FreshIs ==
    ASSUME NEW o
    PROVE  /\ DOMAIN Fresh(o) = Whats(o)
           /\ o.kind \in {"mixer", "strip"} => Fresh(o)[ListOf(o)] = <<>>
           /\ o.kind = "strip" => Fresh(o)["chain"] = <<>>
<1>1. Fresh(o) = [what \in Whats(o) |->
        CASE what \in {"inputs", "chain"} -> <<>>
          [] what \in {"name", "module_name"} -> Nothing
          [] OTHER -> FALSE]
    BY DEF Fresh, Whats
<1>2. \A what \in Whats(o) \cap {"inputs", "chain"} : Fresh(o)[what] = <<>>
    BY <1>1
<1>3. o.kind \in {"mixer", "strip"} => ListOf(o) \in Whats(o) \cap {"inputs", "chain"}
    BY WhatsAre DEF ListOf
<1>4. o.kind = "strip" => "chain" \in Whats(o)
    BY WhatsAre
<1> QED
    BY <1>1, <1>2, <1>3, <1>4

LEMMA NoIds ==
    Ids(<<>>) = <<>>
<1>1. DOMAIN <<>> = {}
    OBVIOUS
<1> QED
    BY <1>1 DEF Ids

LEMMA IdsAre ==
    ASSUME NEW list
    PROVE  /\ DOMAIN Ids(list) = DOMAIN list
           /\ \A i \in DOMAIN list : Ids(list)[i] = list[i].id
BY DEF Ids

-----------------------------------------------------------------------------
(* The middle of an edit. *)

\* The rows are the first y of the new list, and those after x of the old.
EditedTo(list, src, dst, x, y) ==
    /\ Len(list) = y + (Len(src) - x)
    /\ \A i \in 1 .. y : list[i].id = dst[i]
    /\ \A i \in 1 .. Len(src) - x : list[y + i].id = src[x + i]

\* What is shown is as it was, or there is a new model.
During(start, ui, s, key, o) ==
    /\ Sound(ui, s, key)
    /\ o \in DOMAIN ui.rows /\ ui.shown[o] = start.shown[o]
    /\ o \in ui.subscribed <=> o \in start.subscribed
    /\ \A p \in DOMAIN ui.shown :
            \/ ui.shown[p] = Fresh(p)
            \/ p \in DOMAIN start.shown /\ ui.shown[p] = start.shown[p]
    /\ \A p \in DOMAIN ui.rows : p # o => Ids(ui.rows[p]) = ui.shown[p][ListOf(p)]

\* A chain shares no module with those of the other strips.
Apart(ui, o, list) ==
    o # mixer => \A p \in DOMAIN ui.rows : p # mixer /\ p # o =>
                    ToSet(ui.shown[p]["chain"]) \cap ToSet(list) = {}

LEMMA Deletes ==
    ASSUME NEW start, NEW ui, NEW s, NEW key, NEW o, During(start, ui, s, key, o),
           NEW src, Len(src) \in Nat, NEW dst, NEW x \in Nat, NEW y \in Nat, x < Len(src),
           EditedTo(ui.rows[o], src, dst, x, y)
    PROVE  /\ During(start, RowRemoved(ui, o, y), s, key, o)
           /\ EditedTo(RowRemoved(ui, o, y).rows[o], src, dst, x + 1, y)
<1> DEFINE new == RowRemoved(ui, o, y)
<1>1. /\ Sound(ui, s, key) /\ TreeFits(ui)
      /\ o \in DOMAIN ui.rows /\ ui.shown[o] = start.shown[o]
      /\ o \in ui.subscribed <=> o \in start.subscribed
      /\ \A p \in DOMAIN ui.shown :
            \/ ui.shown[p] = Fresh(p)
            \/ p \in DOMAIN start.shown /\ ui.shown[p] = start.shown[p]
      /\ \A p \in DOMAIN ui.rows : p # o => Ids(ui.rows[p]) = ui.shown[p][ListOf(p)]
    BY DEF During, Sound
<1>0. PICK i \in Nat, n \in Nat : i = y + 1 /\ n = Len(src) - x
    <2>1. Len(src) - x \in Nat /\ y + 1 \in Nat
        OBVIOUS
    <2> QED
        BY <2>1
<1>2. PICK list : list = ui.rows[o] /\ i = y + 1 /\ n = Len(src) - x
    BY <1>0
<1>3. /\ DOMAIN list = 1 .. Len(list) /\ Len(list) \in Nat
    BY <1>1, <1>2, RowIsBelow
<1>4. /\ Len(list) = y + n
      /\ \A k \in 1 .. y : list[k].id = dst[k]
      /\ \A k \in 1 .. n : list[y + k].id = src[x + k]
    BY <1>2 DEF EditedTo
<1>5. i \in DOMAIN list /\ n >= 1
    BY <1>2, <1>3, <1>4
<1>6. y + 1 \in DOMAIN ui.rows[o]
    BY <1>2, <1>5
<1>7. /\ Sound(new, s, key)
      /\ o \in DOMAIN new.rows /\ new.rows[o] = RemoveAt(ui.rows[o], y + 1)
      /\ o \in new.subscribed <=> o \in ui.subscribed
      /\ \A p \in DOMAIN new.shown :
            p \in DOMAIN ui.shown /\ new.shown[p] = ui.shown[p]
      /\ \A p \in DOMAIN new.rows : p # o =>
            p \in DOMAIN ui.rows /\ new.rows[p] = ui.rows[p]
    BY <1>1, <1>6, RowRemovedFits
<1> HIDE DEF new
<1>8. DOMAIN new.rows \subseteq DOMAIN new.shown
    BY <1>7 DEF Sound, TreeFits
<1>9. During(start, new, s, key, o)
    BY <1>1, <1>7, <1>8 DEF During
<1>10. PICK left : left = RemoveAt(ui.rows[o], i) /\ left = new.rows[o]
    BY <1>2, <1>7
<1>11. /\ Len(left) = Len(list) - 1
       /\ \A k \in DOMAIN left : left[k] = list[IF k < i THEN k ELSE k + 1]
       /\ DOMAIN left = 1 .. Len(left)
    <2>1. FewerRows(RemoveAt(ui.rows[o], i), ui.rows[o], DOMAIN ui.shown \cap RowsOf(o), i)
        BY <1>1, <1>2, <1>5, RowsLeft
    <2>2. FewerRows(left, list, DOMAIN ui.shown \cap RowsOf(o), i)
        BY <1>2, <1>10, <2>1
    <2> QED
        BY <2>2 DEF FewerRows
<1>12. Len(left) = y + (Len(src) - (x + 1))
    BY <1>2, <1>4, <1>11
<1>13. ASSUME NEW k \in 1 .. y PROVE left[k].id = dst[k]
    <2>1. k \in DOMAIN left /\ k < i
        BY <1>2, <1>4, <1>5, <1>11
    <2> QED
        BY <1>4, <1>11, <2>1
<1>14. ASSUME NEW k \in 1 .. Len(src) - (x + 1) PROVE left[y + k].id = src[(x + 1) + k]
    <2>1. PICK j \in Nat, l \in Nat : j = k + 1 /\ l = y + k
        OBVIOUS
    <2>2. l \in DOMAIN left /\ ~(l < i) /\ l + 1 = y + j /\ j \in 1 .. n
        BY <1>2, <1>4, <1>5, <1>11, <2>1
    <2>3. left[l] = list[y + j]
        BY <1>11, <2>2
    <2>4. list[y + j].id = src[x + j]
        BY <1>4, <2>2
    <2>5. x + j = (x + 1) + k
        BY <2>1
    <2> QED
        BY <2>1, <2>3, <2>4, <2>5
<1>15. EditedTo(left, src, dst, x + 1, y)
    BY <1>12, <1>13, <1>14 DEF EditedTo
<1> QED
    BY <1>9, <1>10, <1>15 DEF new

\* A module or a channel that is inserted is not there twice after that.
LEMMA NotElsewhere ==
    ASSUME NEW start, TreeFits(start), NEW ui, NEW s, NEW key, NEW o,
           During(start, ui, s, key, o), NEW dst, Apart(start, o, dst),
           NEW id \in ToSet(dst), NEW p \in DOMAIN ui.rows, p # o, p # mixer, o # mixer,
           NEW i \in DOMAIN ui.rows[p]
    PROVE  ui.rows[p][i].id # id
<1>1. TreeFits(ui) /\ o \in DOMAIN ui.rows
    BY DEF During, Sound
<1>2. p \in DOMAIN ui.shown /\ p \in Models /\ p.kind # "entry"
    BY <1>1, RowIsBelow
<1>3. p.kind = "strip" /\ ListOf(p) = "chain"
    BY <1>2, Kinds DEF ListOf
<1>4. Ids(ui.rows[p]) = ui.shown[p]["chain"]
    BY <1>3 DEF During
<1>5. i \in DOMAIN ui.shown[p]["chain"] /\ ui.shown[p]["chain"][i] = ui.rows[p][i].id
    BY <1>4, IdsAre
<1>6. ui.shown[p] # Fresh(p)
    <2>1. DOMAIN <<>> = {}
        OBVIOUS
    <2> QED
        BY <1>3, <1>5, <2>1, FreshIs
<1>7. p \in DOMAIN start.shown /\ ui.shown[p] = start.shown[p]
    BY <1>2, <1>6 DEF During
<1>8. p \in DOMAIN start.rows
    BY <1>2, <1>7 DEF TreeFits
<1>9. ToSet(start.shown[p]["chain"]) \cap ToSet(dst) = {}
    BY <1>8 DEF Apart
<1>10. ui.rows[p][i].id \in ToSet(start.shown[p]["chain"])
    BY <1>5, <1>7 DEF ToSet
<1> QED
    BY <1>9, <1>10

LEMMA Inserts ==
    ASSUME NEW start, TreeFits(start), NEW ui, NEW s, NEW key, NEW o,
           During(start, ui, s, key, o),
           NEW src, NEW dst, src \in Seq(IdsOf(o)), dst \in Seq(IdsOf(o)),
           IsInjective(src), IsInjective(dst), Apart(start, o, dst),
           NEW x \in Nat, NEW y \in Nat, x <= Len(src), y < Len(dst),
           EditedTo(ui.rows[o], src, dst, x, y)
    PROVE  /\ During(start, RowAdded(ui, o, y, dst[y + 1]), s, key, o)
           /\ EditedTo(RowAdded(ui, o, y, dst[y + 1]).rows[o], src, dst, x, y + 1)
<1>0. PICK i \in Nat, n \in Nat : i = y + 1 /\ n = Len(src) - x
    <2>1. Len(src) - x \in Nat /\ y + 1 \in Nat
        OBVIOUS
    <2> QED
        BY <2>1
<1>1. /\ Sound(ui, s, key) /\ IsUi(ui) /\ TreeFits(ui)
      /\ o \in DOMAIN ui.rows /\ ui.shown[o] = start.shown[o]
      /\ o \in ui.subscribed <=> o \in start.subscribed
      /\ \A p \in DOMAIN ui.shown :
            \/ ui.shown[p] = Fresh(p)
            \/ p \in DOMAIN start.shown /\ ui.shown[p] = start.shown[p]
      /\ \A p \in DOMAIN ui.rows : p # o => Ids(ui.rows[p]) = ui.shown[p][ListOf(p)]
    BY DEF During, Sound
<1>2. PICK list, id : list = ui.rows[o] /\ id = dst[i]
    OBVIOUS
<1>3. /\ DOMAIN list = 1 .. Len(list) /\ Len(list) \in Nat
    BY <1>1, <1>2, RowIsBelow
<1>4. /\ Len(list) = y + n
      /\ \A k \in 1 .. y : list[k].id = dst[k]
      /\ \A k \in 1 .. n : list[y + k].id = src[x + k]
    BY <1>0, <1>2 DEF EditedTo
<1>5. /\ DOMAIN src = 1 .. Len(src) /\ Len(src) \in Nat
      /\ DOMAIN dst = 1 .. Len(dst) /\ Len(dst) \in Nat
      /\ \A k \in 1 .. Len(dst) : dst[k] \in IdsOf(o)
    BY ListOfItsOwn
<1>6. i \in DOMAIN dst /\ id \in IdsOf(o) /\ id \in ToSet(dst)
    <2>1. i \in DOMAIN dst
        BY <1>0, <1>5
    <2> QED
        BY <1>2, <1>5, <2>1 DEF ToSet
<1>7. ASSUME NEW k \in DOMAIN list, list[k].id = id
      PROVE  \E l \in 1 .. n : k = y + l /\ src[x + l] = id /\ x + l \in DOMAIN src
    <2>1. k \notin 1 .. y
        <3>1. ASSUME k \in 1 .. y PROVE FALSE
            <4>1. dst[k] = dst[i] /\ k \in DOMAIN dst /\ k # i
                BY <1>0, <1>2, <1>4, <1>5, <1>7, <3>1
            <4> QED
                BY <1>6, <4>1 DEF IsInjective
        <3> QED
            BY <3>1
    <2>2. k \in 1 .. y + n /\ k \in Nat
        BY <1>3, <1>4
    <2>3. PICK l \in 1 .. n : k = y + l
        <3>1. k - y \in 1 .. n /\ k = y + (k - y)
            BY <2>1, <2>2
        <3> QED
            BY <3>1
    <2>4. src[x + l] = id
        BY <1>4, <1>7, <2>3
    <2>5. x + l \in DOMAIN src
        BY <1>0, <1>5
    <2> QED
        BY <2>3, <2>4, <2>5
<1>8. ASSUME NEW k \in DOMAIN ui.rows[o], NEW j \in DOMAIN ui.rows[o],
             ui.rows[o][k].id = id, ui.rows[o][j].id = id
      PROVE  k = j
    <2>1. PICK l \in 1 .. n : k = y + l /\ src[x + l] = id /\ x + l \in DOMAIN src
        BY <1>2, <1>7, <1>8
    <2>2. PICK m \in 1 .. n : j = y + m /\ src[x + m] = id /\ x + m \in DOMAIN src
        BY <1>2, <1>7, <1>8
    <2>3. PICK a, b : a = x + l /\ b = x + m
        OBVIOUS
    <2>4. a = b
        BY <2>1, <2>2, <2>3 DEF IsInjective
    <2> QED
        BY <2>1, <2>2, <2>3, <2>4
<1>9. ASSUME NEW p \in DOMAIN ui.rows, p # o, p # mixer, o # mixer,
             NEW k \in DOMAIN ui.rows[p]
      PROVE  ui.rows[p][k].id # id
    BY <1>6, <1>9, NotElsewhere
<1>10. PICK row : row = NewRow(ui, o, id)
    OBVIOUS
<1>11. /\ row \in RowsOf(o) /\ row \notin DOMAIN ui.shown
       /\ row.id = id /\ row.kind = IF o = mixer THEN "strip" ELSE "entry"
    BY <1>1, <1>6, <1>8, <1>9, <1>10, CopyIsFree
<1>12. y + 1 \in 1 .. Len(ui.rows[o]) + 1 /\ i \in 1 .. Len(list) + 1
    BY <1>0, <1>2, <1>3, <1>4
<1> DEFINE new == RowAdded(ui, o, y, id)
<1>13. /\ Sound(new, s, key)
       /\ o \in DOMAIN new.rows
       /\ new.rows[o] = InsertAt(ui.rows[o], y + 1, row)
       /\ new.subscribed = ui.subscribed
       /\ \A p \in DOMAIN new.shown : p = row \/ p \in DOMAIN ui.shown
       /\ new.shown[row] = Fresh(row)
       /\ \A p \in DOMAIN ui.shown : new.shown[p] = ui.shown[p]
       /\ \A p \in DOMAIN new.rows : p # o =>
            \/ p = row /\ p.kind = "strip" /\ new.rows[p] = <<>>
            \/ p \in DOMAIN ui.rows /\ new.rows[p] = ui.rows[p]
    BY <1>1, <1>10, <1>11, <1>12, RowAddedFits
<1> HIDE DEF new
<1>14. During(start, new, s, key, o)
    <2>1. new.shown[o] = start.shown[o]
        BY <1>1, <1>13, RowIsBelow
    <2>2. ASSUME NEW p \in DOMAIN new.shown
          PROVE  \/ new.shown[p] = Fresh(p)
                 \/ p \in DOMAIN start.shown /\ new.shown[p] = start.shown[p]
        BY <1>1, <1>13
    <2>3. ASSUME NEW p \in DOMAIN new.rows, p # o
          PROVE  Ids(new.rows[p]) = new.shown[p][ListOf(p)]
        <3>1. CASE p = row /\ p.kind = "strip" /\ new.rows[p] = <<>>
            BY <1>13, <3>1, FreshIs, NoIds
        <3>2. CASE p \in DOMAIN ui.rows /\ new.rows[p] = ui.rows[p]
            <4>1. p \in DOMAIN ui.shown
                BY <1>1, <3>2, RowIsBelow
            <4> QED
                BY <1>1, <1>13, <2>3, <3>2, <4>1
        <3> QED
            BY <1>13, <2>3, <3>1, <3>2
    <2> QED
        BY <1>1, <1>13, <2>1, <2>2, <2>3 DEF During
<1>15. PICK more : more = InsertAt(ui.rows[o], i, row) /\ more = new.rows[o]
    BY <1>0, <1>13
<1>16. /\ DOMAIN more = 1 .. Len(more)
       /\ Len(more) = Len(list) + 1 /\ more[i] = row
       /\ \A k \in DOMAIN more : k # i =>
            more[k] = list[IF k < i THEN k ELSE k - 1]
    <2> DEFINE S == (DOMAIN ui.shown \cup {row}) \cap RowsOf(o)
    <2>1. i \in 1 .. Len(ui.rows[o]) + 1
        BY <1>2, <1>12
    <2>2. MoreRows(InsertAt(ui.rows[o], i, row), ui.rows[o], S, i, row)
        BY <1>1, <1>11, <2>1, RowsMore
    <2>3. MoreRows(more, list, S, i, row)
        BY <1>2, <1>15, <2>2
    <2> QED
        BY <2>3 DEF MoreRows
<1>17. Len(more) = i + (Len(src) - x)
    BY <1>0, <1>4, <1>16
<1>18. ASSUME NEW k \in 1 .. i PROVE more[k].id = dst[k]
    <2>1. CASE k = i
        BY <1>2, <1>11, <1>16, <2>1
    <2>2. CASE k # i
        <3>1. k \in 1 .. y /\ k < i /\ k \in DOMAIN more
            BY <1>0, <1>4, <1>16, <2>2
        <3>2. more[k] = list[k]
            BY <1>16, <2>2, <3>1
        <3> QED
            BY <1>4, <3>1, <3>2
    <2> QED
        BY <2>1, <2>2
<1>19. ASSUME NEW k \in 1 .. Len(src) - x PROVE more[i + k].id = src[x + k]
    <2>1. PICK l \in Nat : l = i + k
        BY <1>0
    <2>2. l \in DOMAIN more /\ ~(l < i) /\ l # i /\ l - 1 = y + k /\ k \in 1 .. n
        BY <1>0, <1>4, <1>16, <2>1
    <2>3. more[l] = list[y + k]
        BY <1>16, <2>2
    <2> QED
        BY <1>4, <2>1, <2>2, <2>3
<1>20. EditedTo(more, src, dst, x, i)
    BY <1>17, <1>18, <1>19 DEF EditedTo
<1>21. new = RowAdded(ui, o, y, dst[y + 1])
    BY <1>0, <1>2 DEF new
<1> QED
    BY <1>0, <1>14, <1>15, <1>20, <1>21

\* What is in both lists stays where it is.
LEMMA Skips ==
    ASSUME NEW list, NEW src, NEW dst, Len(src) \in Nat, NEW x \in Nat, NEW y \in Nat,
           x < Len(src), src[x + 1] = dst[y + 1], EditedTo(list, src, dst, x, y)
    PROVE  EditedTo(list, src, dst, x + 1, y + 1)
<1>1. /\ Len(list) = y + (Len(src) - x)
      /\ \A i \in 1 .. y : list[i].id = dst[i]
      /\ \A i \in 1 .. Len(src) - x : list[y + i].id = src[x + i]
    BY DEF EditedTo
<1>2. Len(list) = (y + 1) + (Len(src) - (x + 1))
    BY <1>1
<1>3. ASSUME NEW i \in 1 .. y + 1 PROVE list[i].id = dst[i]
    <2>1. 1 \in 1 .. Len(src) - x
        OBVIOUS
    <2>2. list[y + 1].id = src[x + 1]
        BY <1>1, <2>1
    <2>3. i = y + 1 \/ i \in 1 .. y
        OBVIOUS
    <2> QED
        BY <1>1, <2>2, <2>3
<1>4. ASSUME NEW i \in 1 .. Len(src) - (x + 1)
      PROVE  list[(y + 1) + i].id = src[(x + 1) + i]
    <2>1. PICK j \in 1 .. Len(src) - x : j = i + 1
        OBVIOUS
    <2>2. list[y + j].id = src[x + j]
        BY <1>1
    <2>3. y + j = (y + 1) + i /\ x + j = (x + 1) + i
        BY <2>1
    <2> QED
        BY <2>2, <2>3
<1> QED
    BY <1>2, <1>3, <1>4 DEF EditedTo

-----------------------------------------------------------------------------
(* What an edit script makes of the rows. *)

\* A step of the edit has made the first y of the new list of the first x.
HasMade(step, start, s, key, o, src, dst, x, y) ==
    /\ step.deletion_offset = x - y
    /\ During(start, step.ui, s, key, o)
    /\ EditedTo(step.ui.rows[o], src, dst, x, y)

LEMMA DeletionIs ==
    ASSUME NEW step, NEW o, NEW x \in Int, NEW y \in Int, step.deletion_offset = x - y
    PROVE  /\ RowEdited(step, o, Deletion(x)).ui = RowRemoved(step.ui, o, y)
           /\ RowEdited(step, o, Deletion(x)).deletion_offset = (x + 1) - y
<1>1. Deletion(x).op = "deletion" /\ Deletion(x).pos = x
    BY DEF Deletion
<1>2. x - step.deletion_offset = y /\ step.deletion_offset + 1 = (x + 1) - y
    OBVIOUS
<1>3. RowEdited(step, o, Deletion(x))
        = [ui |-> RowRemoved(step.ui, o, y), deletion_offset |-> (x + 1) - y]
    BY <1>1, <1>2 DEF RowEdited
<1> QED
    BY <1>3

LEMMA InsertionIs ==
    ASSUME NEW step, NEW o, NEW x \in Int, NEW y \in Int, step.deletion_offset = x - y, NEW id
    PROVE  /\ RowEdited(step, o, Insertion(y, id)).ui = RowAdded(step.ui, o, y, id)
           /\ RowEdited(step, o, Insertion(y, id)).deletion_offset = x - (y + 1)
<1>1. /\ Insertion(y, id).op = "insertion" /\ Insertion(y, id).pos = y
      /\ Insertion(y, id).value = id
    BY DEF Insertion
<1>2. step.deletion_offset - 1 = x - (y + 1)
    OBVIOUS
<1>3. RowEdited(step, o, Insertion(y, id))
        = [ui |-> RowAdded(step.ui, o, y, id), deletion_offset |-> x - (y + 1)]
    BY <1>1, <1>2 DEF RowEdited
<1> QED
    BY <1>3

\* The script of each corner is that of one before, or one edit longer.
Goes(f, src, dst, x, y) ==
    \/ x = 0 /\ y = 0 /\ f[<<x, y>>] = <<>>
    \/ y > 0 /\ f[<<x, y>>] = Append(f[<<x, y - 1>>], Insertion(y - 1, dst[y]))
    \/ x > 0 /\ f[<<x, y>>] = Append(f[<<x - 1, y>>], Deletion(x - 1))
    \/ /\ x > 0 /\ y > 0 /\ src[x] = dst[y]
       /\ f[<<x, y>>] = f[<<x - 1, y - 1>>]

LEMMA ScriptSteps ==
    ASSUME NEW src, NEW dst, NEW cost, NEW f, IsScript(f, src, dst, cost),
           Len(src) \in Nat, Len(dst) \in Nat,
           NEW x \in 0 .. Len(src), NEW y \in 0 .. Len(dst)
    PROVE  Goes(f, src, dst, x, y)
<1>1. <<x, y>> \in (0 .. Len(src)) \X (0 .. Len(dst)) /\ <<x, y>>[1] = x /\ <<x, y>>[2] = y
    OBVIOUS
<1>2. f[<<x, y>>] = NextScript(f, src, dst, cost, <<x, y>>)
    BY <1>1 DEF IsScript
<1>3. CASE x = 0 /\ y = 0
    BY <1>1, <1>2, <1>3 DEF NextScript, Goes
<1>4. CASE x = 0 /\ y > 0
    BY <1>1, <1>2, <1>4 DEF NextScript, Goes
<1>5. CASE x > 0 /\ y = 0
    BY <1>1, <1>2, <1>5 DEF NextScript, Goes
<1>6. CASE x > 0 /\ y > 0
    <2>1. CASE src[x] = dst[y]
        BY <1>1, <1>2, <1>6, <2>1 DEF NextScript, Goes
    <2>2. CASE src[x] # dst[y]
        <3>1. \/ f[<<x, y>>] = Append(f[<<x, y - 1>>], Insertion(y - 1, dst[y]))
              \/ f[<<x, y>>] = Append(f[<<x - 1, y>>], Deletion(x - 1))
            <4>1. CASE cost[<<x, y - 1>>] <= cost[<<x - 1, y>>]
                BY <1>1, <1>2, <1>6, <2>2, <4>1 DEF NextScript
            <4>2. CASE ~(cost[<<x, y - 1>>] <= cost[<<x - 1, y>>])
                BY <1>1, <1>2, <1>6, <2>2, <4>2 DEF NextScript
            <4> QED
                BY <4>1, <4>2
        <3> QED
            BY <1>6, <3>1 DEF Goes
    <2> QED
        BY <2>1, <2>2
<1>7. \/ x = 0 /\ y = 0
      \/ x = 0 /\ y > 0
      \/ x > 0 /\ y = 0
      \/ x > 0 /\ y > 0
    OBVIOUS
<1> QED
    BY <1>3, <1>4, <1>5, <1>6, <1>7

LEMMA StepDeletes ==
    ASSUME NEW step, NEW start, NEW s, NEW key, NEW o, NEW src, NEW dst, Len(src) \in Nat,
           NEW x \in Nat, NEW y \in Nat, x < Len(src),
           HasMade(step, start, s, key, o, src, dst, x, y)
    PROVE  HasMade(RowEdited(step, o, Deletion(x)), start, s, key, o, src, dst, x + 1, y)
<1>1. /\ step.deletion_offset = x - y /\ During(start, step.ui, s, key, o)
      /\ EditedTo(step.ui.rows[o], src, dst, x, y)
    BY DEF HasMade
<1>2. /\ RowEdited(step, o, Deletion(x)).ui = RowRemoved(step.ui, o, y)
      /\ RowEdited(step, o, Deletion(x)).deletion_offset = (x + 1) - y
    BY <1>1, DeletionIs
<1>3. During(start, RowRemoved(step.ui, o, y), s, key, o)
    BY <1>1, Deletes
<1>4. EditedTo(RowRemoved(step.ui, o, y).rows[o], src, dst, x + 1, y)
    BY <1>1, Deletes
<1> QED
    BY <1>2, <1>3, <1>4 DEF HasMade

LEMMA StepInserts ==
    ASSUME NEW step, NEW start, TreeFits(start), NEW s, NEW key, NEW o,
           NEW src, NEW dst, src \in Seq(IdsOf(o)), dst \in Seq(IdsOf(o)),
           IsInjective(src), IsInjective(dst), Apart(start, o, dst),
           NEW x \in Nat, NEW y \in Nat, x <= Len(src), y < Len(dst),
           HasMade(step, start, s, key, o, src, dst, x, y)
    PROVE  HasMade(RowEdited(step, o, Insertion(y, dst[y + 1])), start, s, key, o,
                   src, dst, x, y + 1)
<1>1. /\ step.deletion_offset = x - y /\ During(start, step.ui, s, key, o)
      /\ EditedTo(step.ui.rows[o], src, dst, x, y)
    BY DEF HasMade
<1>2. PICK id : id = dst[y + 1]
    OBVIOUS
<1>3. /\ RowEdited(step, o, Insertion(y, id)).ui = RowAdded(step.ui, o, y, id)
      /\ RowEdited(step, o, Insertion(y, id)).deletion_offset = x - (y + 1)
    BY <1>1, InsertionIs
<1>4. During(start, RowAdded(step.ui, o, y, dst[y + 1]), s, key, o)
    BY <1>1, Inserts
<1>5. EditedTo(RowAdded(step.ui, o, y, dst[y + 1]).rows[o], src, dst, x, y + 1)
    BY <1>1, Inserts
<1> QED
    BY <1>2, <1>3, <1>4, <1>5 DEF HasMade

LEMMA StepSkips ==
    ASSUME NEW step, NEW start, NEW s, NEW key, NEW o, NEW src, NEW dst, Len(src) \in Nat,
           NEW x \in Nat, NEW y \in Nat, x < Len(src), src[x + 1] = dst[y + 1],
           HasMade(step, start, s, key, o, src, dst, x, y)
    PROVE  HasMade(step, start, s, key, o, src, dst, x + 1, y + 1)
<1>1. /\ step.deletion_offset = x - y /\ During(start, step.ui, s, key, o)
      /\ EditedTo(step.ui.rows[o], src, dst, x, y)
    BY DEF HasMade
<1>2. EditedTo(step.ui.rows[o], src, dst, x + 1, y + 1)
    BY <1>1, Skips
<1>3. x - y = (x + 1) - (y + 1)
    OBVIOUS
<1> QED
    BY <1>1, <1>2, <1>3 DEF HasMade

\* An edit begins with a list whose rows are those of its ids.
LEMMA NothingMade ==
    ASSUME NEW start, NEW s, NEW key, NEW o, During(start, start, s, key, o),
           NEW src, Ids(start.rows[o]) = src, NEW dst
    PROVE  HasMade(Unedited(start), start, s, key, o, src, dst, 0, 0)
<1>1. /\ DOMAIN start.rows[o] = 1 .. Len(start.rows[o]) /\ Len(start.rows[o]) \in Nat
    BY RowIsBelow DEF During, Sound
<1>2. DOMAIN src = DOMAIN start.rows[o] /\ \A i \in DOMAIN src : src[i] = start.rows[o][i].id
    BY IdsAre
<1>3. src = [i \in 1 .. Len(start.rows[o]) |-> start.rows[o][i].id]
    BY <1>1 DEF Ids
<1>4. Len(src) = Len(start.rows[o])
    <2> DEFINE n == Len(start.rows[o])
               T == {start.rows[o][i].id : i \in 1 .. n}
    <2>1. n \in Nat /\ src \in [1 .. n -> T]
        BY <1>1, <1>3
    <2> HIDE DEF n, T
    <2>2. Len(src) = n
        BY <2>1, FunctionIsList
    <2> QED
        BY <2>2 DEF n
<1>5. EditedTo(start.rows[o], src, dst, 0, 0)
    <2>1. ASSUME NEW i \in 1 .. Len(src) - 0
          PROVE  start.rows[o][0 + i].id = src[0 + i]
        <3>1. i \in DOMAIN src /\ 0 + i = i
            BY <1>1, <1>2, <1>4
        <3> QED
            BY <1>2, <3>1
    <2>2. Len(start.rows[o]) = 0 + (Len(src) - 0)
        BY <1>1, <1>4
    <2>3. 1 .. 0 = {}
        OBVIOUS
    <2> QED
        BY <2>1, <2>2, <2>3 DEF EditedTo
<1> QED
    BY <1>5 DEF HasMade, Unedited

\* In the end the rows are those of the new list.
LEMMA ListIsMade ==
    ASSUME NEW start, NEW s, NEW key, NEW o, During(start, start, s, key, o),
           NEW src, Ids(start.rows[o]) = src, NEW dst,
           src \in Seq(IdsOf(o)), dst \in Seq(IdsOf(o)),
           IsInjective(src), IsInjective(dst), Apart(start, o, dst)
    PROVE  LET new == RowsEdited(start, o, EditScript(src, dst)) IN
           /\ During(start, new, s, key, o)
           /\ Ids(new.rows[o]) = dst
<1> DEFINE T == {Deletion(k) : k \in Nat}
                    \cup {Insertion(k, id) : k \in Nat, id \in ToSet(dst)}
<1>1. PICK cost : cost = Edits(src, dst)
    OBVIOUS
<1>2. PICK m \in Nat, n \in Nat : m = Len(src) /\ n = Len(dst)
    OBVIOUS
<1>3. PICK f : IsScript(f, src, dst, cost) /\ EditScript(src, dst) = f[<<m, n>>]
    <2>1. \E g : IsScript(g, src, dst, cost)
        BY <1>2, ScriptIsThere
    <2>2. EditScript(src, dst) = (CHOOSE g : IsScript(g, src, dst, cost))[<<m, n>>]
        BY <1>1, <1>2, EditScriptIs
    <2> QED
        BY <2>1, <2>2
<1> DEFINE Made(x, y) ==
                /\ f[<<x, y>>] \in Seq(T)
                /\ HasMade(EditedBy(start, o, f[<<x, y>>]), start, s, key, o, src, dst, x, y)
<1>t. /\ \A k \in Nat : Deletion(k) \in T
      /\ \A k \in Nat, i \in DOMAIN dst : Insertion(k, dst[i]) \in T
    BY DEF ToSet
<1>u. TreeFits(start)
    BY DEF During, Sound
<1>d. DOMAIN dst = 1 .. n
    BY <1>2
<1> HIDE DEF T
<1>4. ASSUME NEW x \in 0 .. m, NEW y \in 0 .. n,
             \A x1 \in 0 .. m, y1 \in 0 .. n : x1 + y1 < x + y => Made(x1, y1)
      PROVE  Made(x, y)
    <2>1. \/ x = 0 /\ y = 0 /\ f[<<x, y>>] = <<>>
          \/ y > 0 /\ f[<<x, y>>] = Append(f[<<x, y - 1>>], Insertion(y - 1, dst[y]))
          \/ x > 0 /\ f[<<x, y>>] = Append(f[<<x - 1, y>>], Deletion(x - 1))
          \/ /\ x > 0 /\ y > 0 /\ src[x] = dst[y]
             /\ f[<<x, y>>] = f[<<x - 1, y - 1>>]
        <3>1. x \in 0 .. Len(src) /\ y \in 0 .. Len(dst) /\ Len(src) \in Nat /\ Len(dst) \in Nat
            BY <1>2
        <3>2. Goes(f, src, dst, x, y)
            BY <1>3, <3>1, ScriptSteps
        <3> QED
            BY <3>2 DEF Goes
    <2>2. ASSUME x = 0, y = 0, f[<<x, y>>] = <<>> PROVE Made(x, y)
        <3>1. EditedBy(start, o, f[<<x, y>>]) = Unedited(start)
            BY <2>2, EditedNone
        <3>2. HasMade(Unedited(start), start, s, key, o, src, dst, 0, 0)
            BY NothingMade
        <3>3. f[<<x, y>>] \in Seq(T)
            BY <2>2
        <3> QED
            BY <2>2, <3>1, <3>2, <3>3
    <2>3. ASSUME y > 0, f[<<x, y>>] = Append(f[<<x, y - 1>>], Insertion(y - 1, dst[y]))
          PROVE  Made(x, y)
        <3>1. PICK z \in Nat : z = y - 1
            BY <2>3
        <3>2. z + 1 = y /\ z \in 0 .. n /\ x + z < x + y
            BY <3>1
        <3>3. Made(x, z)
            BY <1>4, <3>2
        <3>4. PICK list, edit : list = f[<<x, z>>] /\ edit = Insertion(z, dst[z + 1])
            OBVIOUS
        <3>5. list \in Seq(T) /\ edit \in T
            <4>1. z + 1 \in DOMAIN dst
                BY <1>d, <3>2
            <4> QED
                BY <1>t, <3>3, <3>4, <4>1
        <3>6. f[<<x, y>>] = Append(list, edit)
            BY <2>3, <3>1, <3>2, <3>4
        <3>7. HasMade(EditedBy(start, o, list), start, s, key, o, src, dst, x, z)
            BY <3>3, <3>4
        <3>8. HasMade(RowEdited(EditedBy(start, o, list), o, edit), start, s, key, o,
                      src, dst, x, z + 1)
            <4>1. x \in Nat /\ x <= Len(src) /\ z < Len(dst)
                BY <1>2, <3>2
            <4>2. HasMade(RowEdited(EditedBy(start, o, list), o, Insertion(z, dst[z + 1])),
                          start, s, key, o, src, dst, x, z + 1)
                BY <1>u, <3>7, <4>1, StepInserts
            <4> QED
                BY <3>4, <4>2
        <3>9. EditedBy(start, o, f[<<x, y>>]) = RowEdited(EditedBy(start, o, list), o, edit)
            BY <3>5, <3>6, EditedOneMore
        <3>10. f[<<x, y>>] \in Seq(T)
            BY <3>5, <3>6
        <3> QED
            BY <3>2, <3>8, <3>9, <3>10
    <2>4. ASSUME x > 0, f[<<x, y>>] = Append(f[<<x - 1, y>>], Deletion(x - 1))
          PROVE  Made(x, y)
        <3>1. PICK z \in Nat : z = x - 1
            BY <2>4
        <3>2. z + 1 = x /\ z \in 0 .. m /\ z + y < x + y
            BY <3>1
        <3>3. Made(z, y)
            BY <1>4, <3>2
        <3>4. PICK list, edit : list = f[<<z, y>>] /\ edit = Deletion(z)
            OBVIOUS
        <3>5. list \in Seq(T) /\ edit \in T
            BY <1>t, <3>3, <3>4
        <3>6. f[<<x, y>>] = Append(list, edit)
            BY <2>4, <3>1, <3>4
        <3>7. HasMade(EditedBy(start, o, list), start, s, key, o, src, dst, z, y)
            BY <3>3, <3>4
        <3>8. HasMade(RowEdited(EditedBy(start, o, list), o, edit), start, s, key, o,
                      src, dst, z + 1, y)
            <4>1. y \in Nat /\ z < Len(src) /\ Len(src) \in Nat
                BY <1>2, <3>2
            <4>2. HasMade(RowEdited(EditedBy(start, o, list), o, Deletion(z)),
                          start, s, key, o, src, dst, z + 1, y)
                BY <3>7, <4>1, StepDeletes
            <4> QED
                BY <3>4, <4>2
        <3>9. EditedBy(start, o, f[<<x, y>>]) = RowEdited(EditedBy(start, o, list), o, edit)
            BY <3>5, <3>6, EditedOneMore
        <3>10. f[<<x, y>>] \in Seq(T)
            BY <3>5, <3>6
        <3> QED
            BY <3>2, <3>8, <3>9, <3>10
    <2>5. ASSUME x > 0, y > 0, src[x] = dst[y], f[<<x, y>>] = f[<<x - 1, y - 1>>]
          PROVE  Made(x, y)
        <3>1. PICK z \in Nat, w \in Nat : z = x - 1 /\ w = y - 1
            BY <2>5
        <3>2. z + 1 = x /\ w + 1 = y /\ z \in 0 .. m /\ w \in 0 .. n /\ z + w < x + y
            BY <3>1
        <3>3. Made(z, w)
            BY <1>4, <3>2
        <3>4. f[<<x, y>>] = f[<<z, w>>]
            BY <2>5, <3>1
        <3>5. HasMade(EditedBy(start, o, f[<<z, w>>]), start, s, key, o, src, dst, z + 1, w + 1)
            <4>1. z < Len(src) /\ Len(src) \in Nat /\ src[z + 1] = dst[w + 1]
                BY <1>2, <2>5, <3>2
            <4>2. HasMade(EditedBy(start, o, f[<<z, w>>]), start, s, key, o, src, dst, z, w)
                BY <3>3
            <4> QED
                BY <4>1, <4>2, StepSkips
        <3> QED
            BY <3>2, <3>3, <3>4, <3>5
    <2> HIDE DEF Made
    <2> QED
        BY <2>1, <2>2, <2>3, <2>4, <2>5
<1> DEFINE Lacking == {k \in Nat : \E x \in 0 .. m, y \in 0 .. n : k = x + y /\ ~Made(x, y)}
<1> HIDE DEF Made
<1>5. ASSUME Lacking # {} PROVE FALSE
    <2>1. PICK k \in Lacking : \A j \in Lacking : k <= j
        <3>1. Lacking \in SUBSET Nat
            OBVIOUS
        <3> HIDE DEF Lacking
        <3> QED
            BY <1>5, <3>1, LeastIsThere
    <2>2. PICK x \in 0 .. m, y \in 0 .. n : k = x + y /\ ~Made(x, y)
        OBVIOUS
    <2>3. ASSUME NEW x1 \in 0 .. m, NEW y1 \in 0 .. n, x1 + y1 < x + y PROVE Made(x1, y1)
        <3>1. x1 + y1 \in Nat /\ ~(k <= x1 + y1)
            BY <2>2, <2>3
        <3>2. x1 + y1 \notin Lacking
            <4> HIDE DEF Lacking
            <4> QED
                BY <2>1, <3>1
        <3> QED
            BY <3>1, <3>2
    <2> QED
        BY <1>4, <2>2, <2>3
<1>6. Made(m, n)
    <2>1. m + n \notin Lacking
        BY <1>5
    <2>3. m + n \in Nat
        OBVIOUS
    <2>2. m \in 0 .. m /\ n \in 0 .. n
        OBVIOUS
    <2> QED
        BY <2>1, <2>2, <2>3
<1>7. PICK step : /\ step = EditedBy(start, o, EditScript(src, dst))
                  /\ HasMade(step, start, s, key, o, src, dst, m, n)
    BY <1>3, <1>6 DEF Made
<1>8. RowsEdited(start, o, EditScript(src, dst)) = step.ui
    BY <1>7, RowsEditedAre
<1>9. During(start, step.ui, s, key, o)
    BY <1>7 DEF HasMade
<1>10. Ids(step.ui.rows[o]) = dst
    <2>1. PICK list : list = step.ui.rows[o]
        OBVIOUS
    <2>2. Len(list) = n + (m - m) /\ \A i \in 1 .. n : list[i].id = dst[i]
        BY <1>2, <1>7, <2>1 DEF HasMade, EditedTo
    <2>3. DOMAIN list = 1 .. Len(list)
        BY <1>9, <2>1, RowIsBelow DEF During, Sound
    <2>4. DOMAIN list = 1 .. n
        BY <2>2, <2>3
    <2>5. dst = [i \in 1 .. n |-> dst[i]]
        BY <1>2
    <2>6. Ids(list) = dst
        BY <2>2, <2>4, <2>5 DEF Ids
    <2> QED
        BY <2>1, <2>6
<1> QED
    BY <1>8, <1>9, <1>10

-----------------------------------------------------------------------------
(* The lists that are selected. *)

LEMMA SelectedIs ==
    ASSUME NEW s, NEW o
    PROVE  /\ Selected(s, o, "inputs") = s.inputs
           /\ Selected(s, o, "chain") = SelectFxChain(s, o.id)
BY DEF Selected, SelectInputs

LEMMA SelectedChain ==
    ASSUME NEW s, NEW o, ToSet(Selected(s, o, "chain")) # {}
    PROVE  /\ o.id \in DOMAIN s.channels
           /\ Selected(s, o, "chain") = s.channels[o.id].fx_chain
<1>1. ToSet(<<>>) = {}
    BY DEF ToSet
<1>2. CASE o.id \in DOMAIN s.channels
    BY <1>2, SelectedIs DEF SelectFxChain, Exists
<1>3. CASE o.id \notin DOMAIN s.channels
    BY <1>1, <1>3, SelectedIs DEF SelectFxChain, Exists
<1> QED
    BY <1>2, <1>3

LEMMA SelectedIsList ==
    ASSUME NEW s, StateFits(s), NEW o \in Models, o.kind # "entry"
    PROVE  /\ Selected(s, o, ListOf(o)) \in Seq(IdsOf(o))
           /\ IsInjective(Selected(s, o, ListOf(o)))
<1>1. CASE o.kind = "mixer"
    <2>1. Selected(s, o, ListOf(o)) = s.inputs /\ IdsOf(o) = MixerChannel
        BY <1>1, SelectedIs DEF ListOf, IdsOf
    <2>2. s.inputs \in Seq(MixerChannel) /\ IsInjective(s.inputs)
        BY DEF StateFits
    <2> QED
        BY <2>1, <2>2
<1>2. CASE o.kind # "mixer"
    <2>1. Selected(s, o, ListOf(o)) = SelectFxChain(s, o.id) /\ IdsOf(o) = Module
        BY <1>2, SelectedIs DEF ListOf, IdsOf
    <2>2. CASE o.id \in DOMAIN s.channels
        <3>1. SelectFxChain(s, o.id) = s.channels[o.id].fx_chain
            BY <2>2 DEF SelectFxChain, Exists
        <3>2. /\ s.channels[o.id].fx_chain \in Seq(Module)
              /\ IsInjective(s.channels[o.id].fx_chain)
            BY <2>2 DEF StateFits
        <3> QED
            BY <2>1, <3>1, <3>2
    <2>3. CASE o.id \notin DOMAIN s.channels
        <3>1. SelectFxChain(s, o.id) = <<>>
            BY <2>3 DEF SelectFxChain, Exists
        <3>2. DOMAIN <<>> = {} /\ <<>> \in Seq(Module)
            OBVIOUS
        <3>3. IsInjective(<<>>)
            BY <3>2 DEF IsInjective
        <3> QED
            BY <2>1, <3>1, <3>2, <3>3
    <2> QED
        BY <2>2, <2>3
<1> QED
    BY <1>1, <1>2

\* No channel has two strips.
LEMMA OneStrip ==
    ASSUME NEW ui, UiFits(ui), NEW p \in DOMAIN ui.rows \ {mixer},
           NEW q \in DOMAIN ui.rows \ {mixer}, p.id = q.id
    PROVE  p = q
<1>1. TreeFits(ui) /\ ShownFits(ui)
    BY DEF UiFits
<1>2. ASSUME NEW r \in DOMAIN ui.rows \ {mixer}
      PROVE  r = main_strip \/ (r \in Strips /\ r \in DOMAIN ui.shown)
    <2>1. r \in Models /\ r.kind # "entry" /\ r # mixer /\ r \in DOMAIN ui.shown
        BY <1>1, RowIsBelow
    <2> QED
        BY <2>1, Kinds
<1>3. main_strip.id = Main /\ Main \notin MixerChannel /\ \A r \in Strips : r.id \in MixerChannel
    BY ViewsAssumption DEF main_strip, Strips
<1>4. ASSUME p \in Strips, q \in Strips, p \in DOMAIN ui.shown, q \in DOMAIN ui.shown
      PROVE  p = q
    <2>1. ASSUME NEW r \in Strips, r \in DOMAIN ui.shown
          PROVE  \E i \in DOMAIN ui.rows[mixer] : ui.rows[mixer][i] = r
        <3>1. r \in Models /\ r # mixer /\ r # main_strip /\ r.kind = "strip"
            <4>1. r \in Models
                BY <2>1 DEF Models
            <4> QED
                BY <2>1, <4>1, Kinds
        <3>2. PICK o \in DOMAIN ui.rows : \E i \in DOMAIN ui.rows[o] : ui.rows[o][i] = r
            BY <1>1, <2>1, <3>1 DEF TreeFits
        <3>3. PICK i \in DOMAIN ui.rows[o] : ui.rows[o][i] = r
            BY <3>2
        <3>4. r.kind = IF o = mixer THEN "strip" ELSE "entry"
            BY <1>1, <3>3, RowIsBelow
        <3>5. o = mixer
            BY <3>1, <3>4
        <3> QED
            BY <3>3, <3>5
    <2>2. PICK i \in DOMAIN ui.rows[mixer] : ui.rows[mixer][i] = p
        BY <1>4, <2>1
    <2>3. PICK j \in DOMAIN ui.rows[mixer] : ui.rows[mixer][j] = q
        BY <1>4, <2>1
    <2>4. mixer \in DOMAIN ui.rows
        <3>1. mixer.kind = "mixer"
            BY DEF mixer
        <3> QED
            BY <1>1, <3>1 DEF TreeFits
    <2>5. IsInjective(Ids(ui.rows[mixer]))
        BY <1>1, <2>4 DEF ShownFits
    <2>6. /\ DOMAIN Ids(ui.rows[mixer]) = DOMAIN ui.rows[mixer]
          /\ Ids(ui.rows[mixer])[i] = p.id /\ Ids(ui.rows[mixer])[j] = q.id
        BY <2>2, <2>3, IdsAre
    <2>7. i = j
        BY <2>5, <2>6 DEF IsInjective
    <2> QED
        BY <2>2, <2>3, <2>7
<1> QED
    BY <1>2, <1>3, <1>4

\* What is selected for a strip shares no module with what others show.
LEMMA SelectedIsApart ==
    ASSUME NEW ui, UiFits(ui), NEW s, ChainsFit(ui, s), NEW o \in DOMAIN ui.rows
    PROVE  Apart(ui, o, Selected(s, o, ListOf(o)))
<1> SUFFICES ASSUME o # mixer, NEW p \in DOMAIN ui.rows, p # mixer, p # o,
                    ToSet(ui.shown[p]["chain"]) \cap ToSet(Selected(s, o, ListOf(o))) # {}
             PROVE  FALSE
    BY DEF Apart
<1>1. TreeFits(ui)
    BY DEF UiFits
<1>2. ListOf(o) = "chain"
    BY <1>1, RowIsBelow, Kinds DEF ListOf
<1>3. /\ o.id \in DOMAIN s.channels
      /\ Selected(s, o, "chain") = s.channels[o.id].fx_chain
    BY <1>2, SelectedChain
<1>4. o.id = p.id
    BY <1>2, <1>3 DEF ChainsFit
<1> QED
    BY <1>4, OneStrip

-----------------------------------------------------------------------------
(* A list that was edited to what is selected. *)

\* As During, whether the model has a list or not.
Since(start, ui, s, key, o) ==
    /\ Sound(ui, s, key)
    /\ o \in DOMAIN ui.shown /\ ui.shown[o] = start.shown[o]
    /\ o \in ui.subscribed <=> o \in start.subscribed
    /\ \A p \in DOMAIN ui.shown :
            \/ ui.shown[p] = Fresh(p)
            \/ p \in DOMAIN start.shown /\ ui.shown[p] = start.shown[p]
    /\ \A p \in DOMAIN ui.rows : p # o => Ids(ui.rows[p]) = ui.shown[p][ListOf(p)]

LEMMA ListEditedFits ==
    ASSUME NEW ui, UiFits(ui), NEW s, StateFits(s), ChainsFit(ui, s),
           NEW key, Sound(ui, s, key), NEW o \in DOMAIN ui.shown, NEW what \in Whats(o)
    PROVE  LET new == ListEdited(ui, o, what, Selected(s, o, what)) IN
           /\ Since(ui, new, s, key, o)
           /\ o.kind # "entry" =>
                Ids(new.rows[o]) = IF what = ListOf(o) THEN Selected(s, o, what)
                                   ELSE ui.shown[o][ListOf(o)]
<1> DEFINE new == ListEdited(ui, o, what, Selected(s, o, what))
<1>1. TreeFits(ui) /\ ShownFits(ui)
    BY DEF UiFits
<1>2. o \in Models /\ (o \in DOMAIN ui.rows <=> o.kind # "entry")
    BY <1>1 DEF TreeFits
<1>3. o.kind \in {"mixer", "strip", "entry"}
    BY <1>2, Kinds
<1>4. \A p \in DOMAIN ui.rows : Ids(ui.rows[p]) = ui.shown[p][ListOf(p)]
    BY <1>1 DEF ShownFits
<1>5. CASE what \in {"inputs", "chain"}
    <2>1. what = ListOf(o) /\ o.kind # "entry"
        BY <1>3, <1>5, WhatsAre DEF ListOf
    <2>2. o \in DOMAIN ui.rows
        BY <1>2, <2>1
    <2>3. During(ui, ui, s, key, o)
        BY <1>4, <2>2 DEF During
    <2>4. PICK src, dst : src = ui.shown[o][what] /\ dst = Selected(s, o, what)
        OBVIOUS
    <2>5. src \in Seq(IdsOf(o)) /\ IsInjective(src) /\ Ids(ui.rows[o]) = src
        BY <1>1, <2>1, <2>2, <2>4 DEF ShownFits
    <2>6. dst \in Seq(IdsOf(o)) /\ IsInjective(dst)
        BY <1>2, <2>1, <2>4, SelectedIsList
    <2>7. Apart(ui, o, dst)
        BY <2>1, <2>2, <2>4, SelectedIsApart
    <2>8. new = RowsEdited(ui, o, EditScript(src, dst))
        BY <1>5, <2>4 DEF ListEdited
    <2>9. During(ui, RowsEdited(ui, o, EditScript(src, dst)), s, key, o)
        BY <2>3, <2>5, <2>6, <2>7, ListIsMade
    <2>10. Ids(RowsEdited(ui, o, EditScript(src, dst)).rows[o]) = dst
        BY <2>3, <2>5, <2>6, <2>7, ListIsMade
    <2> HIDE DEF new
    <2>11. During(ui, new, s, key, o) /\ Ids(new.rows[o]) = dst
        BY <2>8, <2>9, <2>10
    <2>12. o \in DOMAIN new.shown
        BY <2>11, RowIsBelow DEF During, Sound
    <2>13. Since(ui, new, s, key, o)
        BY <2>11, <2>12 DEF During, Since
    <2> QED
        BY <2>1, <2>4, <2>11, <2>13 DEF new
<1>6. CASE what \notin {"inputs", "chain"}
    <2>1. new = ui
        BY <1>6 DEF ListEdited
    <2>2. Since(ui, ui, s, key, o)
        BY <1>4 DEF Since
    <2>3. what # ListOf(o)
        BY <1>6 DEF ListOf
    <2>4. o.kind # "entry" => Ids(ui.rows[o]) = ui.shown[o][ListOf(o)]
        BY <1>2, <1>4
    <2> HIDE DEF new
    <2> QED
        BY <2>1, <2>2, <2>3, <2>4 DEF new
<1> QED
    BY <1>5, <1>6

-----------------------------------------------------------------------------
(* What a model is made to show. *)

\* All is kept and the model shows what is given.
Shows(new, ui, o, given) ==
    /\ IsUi(new)
    /\ DOMAIN new.shown = DOMAIN ui.shown
    /\ new.shown[o] = given
    /\ \A p \in DOMAIN ui.shown : p # o => new.shown[p] = ui.shown[p]
    /\ new.rows = ui.rows

LEMMA TreeFitsKept ==
    ASSUME NEW ui, TreeFits(ui), NEW new, DOMAIN new.shown = DOMAIN ui.shown,
           new.rows = ui.rows
    PROVE  TreeFits(new)
BY DEF TreeFits

\* What the others show is new, or was there before.
LEMMA OthersChain ==
    ASSUME NEW start, TreeFits(start), NEW ui, NEW s, NEW key, NEW o,
           Since(start, ui, s, key, o),
           NEW p \in DOMAIN ui.rows \ {mixer}, p # o, ToSet(ui.shown[p]["chain"]) # {}
    PROVE  p \in DOMAIN start.rows \ {mixer} /\ ui.shown[p] = start.shown[p]
<1>1. TreeFits(ui)
    BY DEF Since, Sound
<1>2. p \in DOMAIN ui.shown /\ p \in Models /\ p.kind # "entry"
    BY <1>1, RowIsBelow
<1>3. p.kind = "strip"
    BY <1>2, Kinds
<1>4. ui.shown[p] # Fresh(p)
    <2>1. ToSet(<<>>) = {}
        BY DEF ToSet
    <2> QED
        BY <1>3, <2>1, FreshIs
<1>5. p \in DOMAIN start.shown /\ ui.shown[p] = start.shown[p]
    BY <1>2, <1>4 DEF Since
<1> QED
    BY <1>2, <1>5 DEF TreeFits

LEMMA ShownFitsAfter ==
    ASSUME NEW start, UiFits(start), NEW s, StateFits(s), ChainsFit(start, s),
           NEW ui, NEW key, NEW o, Since(start, ui, s, key, o),
           NEW given, DOMAIN given = Whats(o),
           o.kind # "entry" =>
                /\ Ids(ui.rows[o]) = given[ListOf(o)]
                /\ given[ListOf(o)]
                    \in {start.shown[o][ListOf(o)], Selected(s, o, ListOf(o))},
           o \in DOMAIN start.shown,
           NEW new, Shows(new, ui, o, given)
    PROVE  /\ UiFits(new) /\ ChainsFit(new, s)
           /\ \A ids : UsedFits(start, s, ids) => UsedFits(new, s, ids)
<1>1. /\ TreeFits(start) /\ ShownFits(start) /\ TreeFits(ui)
      /\ o \in DOMAIN ui.shown
      /\ \A p \in DOMAIN ui.shown :
            \/ ui.shown[p] = Fresh(p)
            \/ p \in DOMAIN start.shown /\ ui.shown[p] = start.shown[p]
      /\ \A p \in DOMAIN ui.rows : p # o => Ids(ui.rows[p]) = ui.shown[p][ListOf(p)]
    BY DEF Since, Sound, UiFits
<1>2. /\ IsUi(new) /\ DOMAIN new.shown = DOMAIN ui.shown /\ new.shown[o] = given
      /\ \A p \in DOMAIN ui.shown : p # o => new.shown[p] = ui.shown[p]
      /\ new.rows = ui.rows
    BY DEF Shows
<1>3. TreeFits(new)
    BY <1>1, <1>2, TreeFitsKept
<1>4. \A p \in DOMAIN ui.rows :
        p \in DOMAIN ui.shown /\ p \in Models /\ p.kind # "entry"
    BY <1>1, RowIsBelow
<1>5. \A p \in DOMAIN ui.rows \ {mixer} : p.kind = "strip" /\ ListOf(p) = "chain"
    BY <1>4, Kinds DEF ListOf
<1>6. \A p \in DOMAIN ui.rows : p \in DOMAIN start.shown => p \in DOMAIN start.rows
    BY <1>1, <1>4 DEF TreeFits
<1>7. ASSUME NEW p \in DOMAIN new.shown PROVE DOMAIN new.shown[p] = Whats(p)
    <2>1. CASE p = o
        BY <1>2, <2>1
    <2>2. CASE p # o
        <3>1. CASE ui.shown[p] = Fresh(p)
            BY <1>2, <2>2, <3>1, FreshIs
        <3>2. CASE p \in DOMAIN start.shown /\ ui.shown[p] = start.shown[p]
            BY <1>1, <1>2, <2>2, <3>2 DEF ShownFits
        <3> QED
            BY <1>1, <1>2, <3>1, <3>2
    <2> QED
        BY <2>1, <2>2
<1>8. ASSUME NEW p \in DOMAIN new.rows
      PROVE  /\ new.shown[p][ListOf(p)] \in Seq(IdsOf(p))
             /\ IsInjective(new.shown[p][ListOf(p)])
             /\ Ids(new.rows[p]) = new.shown[p][ListOf(p)]
    <2>0. p \in DOMAIN ui.rows /\ p \in Models /\ p.kind # "entry" /\ p \in DOMAIN ui.shown
        BY <1>2, <1>4
    <2>1. CASE p = o
        <3>1. Ids(new.rows[p]) = given[ListOf(o)] /\ new.shown[p][ListOf(p)] = given[ListOf(o)]
            BY <1>2, <2>0, <2>1
        <3>2. /\ start.shown[o][ListOf(o)] \in Seq(IdsOf(o))
              /\ IsInjective(start.shown[o][ListOf(o)])
            BY <1>1, <1>6, <2>0, <2>1 DEF ShownFits
        <3>3. /\ Selected(s, o, ListOf(o)) \in Seq(IdsOf(o))
              /\ IsInjective(Selected(s, o, ListOf(o)))
            BY <2>0, <2>1, SelectedIsList
        <3>4. given[ListOf(o)] = start.shown[o][ListOf(o)]
              \/ given[ListOf(o)] = Selected(s, o, ListOf(o))
            BY <2>0, <2>1
        <3> QED
            BY <2>1, <3>1, <3>2, <3>3, <3>4
    <2>2. CASE p # o
        <3>1. /\ new.shown[p] = ui.shown[p] /\ new.rows[p] = ui.rows[p]
              /\ Ids(ui.rows[p]) = ui.shown[p][ListOf(p)]
            BY <1>1, <1>2, <2>0, <2>2
        <3>2. CASE ui.shown[p] = Fresh(p)
            <4>1. p.kind \in {"mixer", "strip"}
                BY <2>0, Kinds
            <4>2. ui.shown[p][ListOf(p)] = <<>>
                BY <3>2, <4>1, FreshIs
            <4>3. DOMAIN <<>> = {} /\ <<>> \in Seq(IdsOf(p))
                OBVIOUS
            <4>4. IsInjective(<<>>)
                BY <4>3 DEF IsInjective
            <4> QED
                BY <3>1, <4>2, <4>3, <4>4
        <3>3. CASE p \in DOMAIN start.shown /\ ui.shown[p] = start.shown[p]
            <4>1. p \in DOMAIN start.rows
                BY <1>6, <2>0, <3>3
            <4>2. /\ start.shown[p][ListOf(p)] \in Seq(IdsOf(p))
                  /\ IsInjective(start.shown[p][ListOf(p)])
                BY <1>1, <4>1 DEF ShownFits
            <4> QED
                BY <3>1, <3>3, <4>2
        <3> QED
            BY <1>1, <2>0, <3>2, <3>3
    <2> QED
        BY <2>1, <2>2
<1>9. ASSUME NEW p \in DOMAIN new.rows \ {mixer}, ToSet(new.shown[p]["chain"]) # {}
      PROVE  \/ p \in DOMAIN start.rows \ {mixer} /\ new.shown[p]["chain"] = start.shown[p]["chain"]
             \/ /\ p = o /\ p \in DOMAIN start.rows \ {mixer} /\ p.id \in DOMAIN s.channels
                /\ new.shown[p]["chain"] = s.channels[p.id].fx_chain
    <2>1. p \in DOMAIN ui.rows \ {mixer} /\ p \in DOMAIN ui.shown
        BY <1>2, <1>4
    <2>2. CASE p # o
        <3>1. new.shown[p] = ui.shown[p]
            BY <1>2, <2>1, <2>2
        <3>2. p \in DOMAIN start.rows \ {mixer} /\ ui.shown[p] = start.shown[p]
            BY <1>1, <1>9, <2>1, <2>2, <3>1, OthersChain
        <3> QED
            BY <3>1, <3>2
    <2>3. CASE p = o
        <3>1. p \in DOMAIN start.rows \ {mixer} /\ ListOf(o) = "chain" /\ o.kind # "entry"
            BY <1>4, <1>5, <1>6, <2>1, <2>3
        <3>2. new.shown[p]["chain"] = given["chain"]
            BY <1>2, <2>3
        <3>3. CASE given["chain"] = start.shown[o]["chain"]
            BY <2>3, <3>1, <3>2, <3>3
        <3>4. CASE given["chain"] = Selected(s, o, "chain")
            <4>1. /\ o.id \in DOMAIN s.channels
                  /\ Selected(s, o, "chain") = s.channels[o.id].fx_chain
                BY <1>9, <3>2, <3>4, SelectedChain
            <4> QED
                BY <2>3, <3>1, <3>2, <3>4, <4>1
        <3> QED
            BY <3>1, <3>3, <3>4
    <2> QED
        BY <2>2, <2>3
<1>10. ASSUME NEW p \in DOMAIN new.rows \ {mixer}, NEW c \in DOMAIN s.channels,
              ToSet(new.shown[p]["chain"]) \cap ToSet(s.channels[c].fx_chain) # {}
       PROVE  c = p.id
    <2>1. ToSet(new.shown[p]["chain"]) # {}
        BY <1>10
    <2>2. CASE p \in DOMAIN start.rows \ {mixer} /\ new.shown[p]["chain"] = start.shown[p]["chain"]
        BY <1>10, <2>2 DEF ChainsFit
    <2>3. CASE /\ p = o /\ p \in DOMAIN start.rows \ {mixer} /\ p.id \in DOMAIN s.channels
               /\ new.shown[p]["chain"] = s.channels[p.id].fx_chain
        BY <1>10, <2>3 DEF StateFits
    <2> QED
        BY <1>9, <2>1, <2>2, <2>3
<1>11. ASSUME NEW p \in DOMAIN new.rows \ {mixer}, NEW q \in DOMAIN new.rows \ {mixer},
              ToSet(new.shown[p]["chain"]) \cap ToSet(new.shown[q]["chain"]) # {}
       PROVE  p = q
    <2>1. ToSet(new.shown[p]["chain"]) # {} /\ ToSet(new.shown[q]["chain"]) # {}
        BY <1>11
    <2>2. p \in DOMAIN start.rows \ {mixer} /\ q \in DOMAIN start.rows \ {mixer}
        BY <1>9, <2>1
    <2>3. CASE new.shown[p]["chain"] = start.shown[p]["chain"]
               /\ new.shown[q]["chain"] = start.shown[q]["chain"]
        BY <1>1, <1>11, <2>2, <2>3 DEF ShownFits
    <2>4. CASE /\ p.id \in DOMAIN s.channels
               /\ new.shown[p]["chain"] = s.channels[p.id].fx_chain
        <3>1. p.id = q.id
            BY <1>10, <1>11, <2>4
        <3> QED
            BY <2>2, <3>1, OneStrip
    <2>5. CASE /\ q.id \in DOMAIN s.channels
               /\ new.shown[q]["chain"] = s.channels[q.id].fx_chain
        <3>1. ToSet(new.shown[p]["chain"]) \cap ToSet(s.channels[q.id].fx_chain) # {}
            BY <1>11, <2>5
        <3>2. q.id = p.id
            BY <1>10, <2>5, <3>1
        <3> QED
            BY <2>2, <3>2, OneStrip
    <2> QED
        BY <1>9, <2>1, <2>3, <2>4, <2>5
<1>12. UiFits(new)
    <2>1. ShownFits(new)
        BY <1>7, <1>8, <1>11 DEF ShownFits
    <2> QED
        BY <1>2, <1>3, <2>1 DEF UiFits
<1>13. ASSUME NEW ids, UsedFits(start, s, ids) PROVE UsedFits(new, s, ids)
    <2>1. ASSUME NEW p \in DOMAIN new.rows \ {mixer}
          PROVE  ToSet(new.shown[p]["chain"]) \subseteq ids
        <3>1. CASE ToSet(new.shown[p]["chain"]) = {}
            BY <3>1
        <3>2. CASE ToSet(new.shown[p]["chain"]) # {}
            BY <1>9, <1>13, <3>2 DEF UsedFits
        <3> QED
            BY <3>1, <3>2
    <2> QED
        BY <1>13, <2>1 DEF UsedFits
<1> QED
    BY <1>10, <1>12, <1>13 DEF ChainsFit

-----------------------------------------------------------------------------
(* A slot that is called. *)

IsCalled(new, le, slot, value) ==
    /\ Shows(new, le, slot.model,
             [le.shown[slot.model] EXCEPT ![slot.what] = Showing(slot.model, slot.what, value)])
    /\ new.subscribed = le.subscribed /\ new.calls = le.calls
    /\ new.slots = [i \in DOMAIN le.slots |->
           IF le.slots[i].model = slot.model /\ le.slots[i].what = slot.what
           THEN [le.slots[i] EXCEPT !.last = value] ELSE le.slots[i]]

LEMMA CalledIs ==
    ASSUME NEW ui, NEW slot, NEW value, NEW le,
           le = ListEdited(ui, slot.model, slot.what, value), IsUi(le),
           slot.model \in DOMAIN le.shown
    PROVE  IsCalled(Called(ui, slot, value), le, slot, value)
<1> DEFINE new == Called(ui, slot, value)
           shows == Showing(slot.model, slot.what, value)
           given == [le.shown[slot.model] EXCEPT ![slot.what] = shows]
           handled == Handled(ui, slot.model, slot.what, value)
           called == [i \in DOMAIN le.slots |->
                      IF le.slots[i].model = slot.model /\ le.slots[i].what = slot.what
                      THEN [le.slots[i] EXCEPT !.last = value] ELSE le.slots[i]]
           shown_new == [le.shown EXCEPT ![slot.model] = given]
<1>1. handled = [le EXCEPT !.shown[slot.model][slot.what] = shows]
    BY DEF Handled
<1>2. new = [handled EXCEPT !.slots = [i \in DOMAIN handled.slots |->
                    IF handled.slots[i].model = slot.model /\ handled.slots[i].what = slot.what
                    THEN [handled.slots[i] EXCEPT !.last = value] ELSE handled.slots[i]]]
    BY DEF Called
<1> HIDE DEF new, shows, handled
<1>3. handled = [shown |-> shown_new, rows |-> le.rows, subscribed |-> le.subscribed,
                 slots |-> le.slots, calls |-> le.calls]
    <2>1. handled = [le EXCEPT !.shown = shown_new]
        BY <1>1
    <2> HIDE DEF shown_new
    <2> QED
        BY <2>1 DEF IsUi
<1>4. /\ DOMAIN shown_new = DOMAIN le.shown /\ shown_new[slot.model] = given
      /\ \A p \in DOMAIN le.shown : p # slot.model => shown_new[p] = le.shown[p]
    <2> HIDE DEF given
    <2> QED
        OBVIOUS
<1> HIDE DEF shown_new
<1>5. handled.slots = le.slots
    BY <1>3
<1>6. new = [handled EXCEPT !.slots = called]
    BY <1>2, <1>5
<1> HIDE DEF called, given
<1>7. new = [shown |-> shown_new, rows |-> le.rows, subscribed |-> le.subscribed,
             slots |-> called, calls |-> le.calls]
    BY <1>3, <1>6
<1>8. /\ IsUi(new) /\ new.shown = shown_new /\ new.rows = le.rows
      /\ new.subscribed = le.subscribed /\ new.calls = le.calls /\ new.slots = called
    BY <1>7 DEF IsUi
<1>9. Shows(new, le, slot.model, given)
    BY <1>4, <1>8 DEF Shows
<1>10. IsCalled(new, le, slot, value)
    BY <1>8, <1>9 DEF IsCalled, called, given, shows
<1> QED
    BY <1>10 DEF new

LEMMA CalledFits ==
    ASSUME NEW ui, UiFits(ui), SlotsFit(ui), CallsFit(ui),
           NEW s, StateFits(s), ChainsFit(ui, s),
           NEW slot, slot.model \in ui.subscribed, slot.what \in Whats(slot.model),
           SlotsFollowBut(ui, s, Key(slot)), NoneHeld(ui, Key(slot))
    PROVE  LET new == Called(ui, slot, Selected(s, slot.model, slot.what)) IN
           /\ UiFits(new) /\ SlotsFit(new) /\ CallsFit(new)
           /\ ChainsFit(new, s) /\ SlotsFollow(new, s)
           /\ \A ids : UsedFits(ui, s, ids) => UsedFits(new, s, ids)
<1>1. PICK o, what, value, key :
        /\ o = slot.model /\ what = slot.what /\ value = Selected(s, slot.model, slot.what)
        /\ key = Key(slot)
    OBVIOUS
<1>2. IsUi(ui) /\ TreeFits(ui) /\ ShownFits(ui)
    BY DEF UiFits
<1>3. Sound(ui, s, key)
    BY <1>1, <1>2 DEF Sound
<1>4. o \in DOMAIN ui.shown /\ what \in Whats(o) /\ value = Selected(s, o, what)
    BY <1>1 DEF SlotsFit
<1>5. PICK le : le = ListEdited(ui, o, what, value)
    OBVIOUS
<1>6. /\ Since(ui, le, s, key, o)
      /\ o.kind # "entry" =>
            Ids(le.rows[o]) = IF what = ListOf(o) THEN Selected(s, o, what)
                              ELSE ui.shown[o][ListOf(o)]
    BY <1>3, <1>4, <1>5, ListEditedFits
<1>7. /\ IsUi(le) /\ TreeFits(le) /\ SlotsFit(le) /\ CallsFit(le)
      /\ SlotsFollowBut(le, s, key) /\ NoneHeld(le, key)
      /\ o \in DOMAIN le.shown /\ le.shown[o] = ui.shown[o] /\ o \in le.subscribed
    BY <1>1, <1>6 DEF Since, Sound
<1>8. PICK new, given :
        /\ new = Called(ui, slot, Selected(s, slot.model, slot.what))
        /\ given = [le.shown[o] EXCEPT ![what] = Showing(o, what, value)]
    OBVIOUS
<1>9. /\ Shows(new, le, o, given)
      /\ new.subscribed = le.subscribed /\ new.calls = le.calls
      /\ new.slots = [i \in DOMAIN le.slots |->
             IF le.slots[i].model = o /\ le.slots[i].what = what
             THEN [le.slots[i] EXCEPT !.last = value] ELSE le.slots[i]]
    <2>1. /\ slot.model \in DOMAIN le.shown
          /\ le = ListEdited(ui, slot.model, slot.what, value)
        BY <1>1, <1>5, <1>7
    <2>2. new = Called(ui, slot, value)
        BY <1>1, <1>8
    <2>3. given = [le.shown[slot.model] EXCEPT
                            ![slot.what] = Showing(slot.model, slot.what, value)]
        BY <1>1, <1>8
    <2>4. IsCalled(Called(ui, slot, value), le, slot, value)
        BY <1>7, <2>1, CalledIs
    <2>5. IsCalled(new, le, slot, value)
        BY <2>2, <2>4
    <2>6. /\ Shows(new, le, slot.model, given)
          /\ new.subscribed = le.subscribed /\ new.calls = le.calls
          /\ new.slots = [i \in DOMAIN le.slots |->
                 IF le.slots[i].model = slot.model /\ le.slots[i].what = slot.what
                 THEN [le.slots[i] EXCEPT !.last = value] ELSE le.slots[i]]
        BY <2>3, <2>5 DEF IsCalled
    <2> QED
        BY <1>1, <2>6
<1>10. /\ DOMAIN given = Whats(o) /\ given[what] = Showing(o, what, value)
       /\ \A w \in Whats(o) : w # what => given[w] = le.shown[o][w]
    <2>1. DOMAIN le.shown[o] = Whats(o)
        BY <1>2, <1>4, <1>7 DEF ShownFits
    <2> QED
        BY <1>4, <1>8, <2>1
<1>11. ASSUME o.kind # "entry"
       PROVE  /\ Ids(le.rows[o]) = given[ListOf(o)]
              /\ given[ListOf(o)] \in {ui.shown[o][ListOf(o)], Selected(s, o, ListOf(o))}
    <2>1. ListOf(o) \in Whats(o)
        <3>1. o.kind \in {"mixer", "strip"}
            BY <1>2, <1>4, <1>11, Kinds DEF TreeFits
        <3> QED
            BY <3>1, WhatsAre DEF ListOf
    <2>2. CASE what = ListOf(o)
        <3>1. Showing(o, what, value) = value
            BY <2>2 DEF Showing, ListOf
        <3> QED
            BY <1>4, <1>6, <1>10, <1>11, <2>2, <3>1
    <2>3. CASE what # ListOf(o)
        BY <1>6, <1>7, <1>10, <1>11, <2>1, <2>3
    <2> QED
        BY <2>2, <2>3
<1>12. /\ UiFits(new) /\ ChainsFit(new, s)
       /\ \A ids : UsedFits(ui, s, ids) => UsedFits(new, s, ids)
    BY <1>4, <1>6, <1>9, <1>10, <1>11, ShownFitsAfter
<1>13. /\ DOMAIN new.shown = DOMAIN le.shown /\ new.shown[o] = given
       /\ \A p \in DOMAIN le.shown : p # o => new.shown[p] = le.shown[p]
    BY <1>9 DEF Shows
<1>14. DOMAIN new.slots = DOMAIN le.slots
    BY <1>9
<1>15. key = <<o, what>>
    BY <1>1 DEF Key
<1>16. ASSUME NEW i \in DOMAIN le.slots
       PROVE  /\ new.slots[i] = [model |-> new.slots[i].model, what |-> new.slots[i].what,
                                 last |-> new.slots[i].last]
              /\ Key(new.slots[i]) = Key(le.slots[i])
              /\ new.slots[i].model = le.slots[i].model /\ new.slots[i].what = le.slots[i].what
              /\ Key(le.slots[i]) = key => new.slots[i].last = value
              /\ Key(le.slots[i]) # key => new.slots[i] = le.slots[i]
    <2>1. PICK old : old = le.slots[i]
        OBVIOUS
    <2>2. old = [model |-> old.model, what |-> old.what, last |-> old.last]
        BY <1>7, <2>1 DEF SlotsFit
    <2>3. Key(old) = key <=> old.model = o /\ old.what = what
        BY <1>15 DEF Key
    <2>4. CASE old.model = o /\ old.what = what
        <3>1. new.slots[i] = [old EXCEPT !.last = value]
            BY <1>9, <2>1, <2>4
        <3>2. new.slots[i] = [model |-> old.model, what |-> old.what, last |-> value]
            BY <2>2, <3>1
        <3> QED
            BY <2>1, <2>3, <2>4, <3>2 DEF Key
    <2>5. CASE ~(old.model = o /\ old.what = what)
        <3>1. new.slots[i] = old
            BY <1>9, <2>1, <2>5
        <3> QED
            BY <2>1, <2>2, <2>3, <2>5, <3>1
    <2> QED
        BY <2>4, <2>5
<1>17. SlotsFit(new)
    <2>1. new.subscribed \subseteq DOMAIN new.shown
        BY <1>7, <1>9, <1>13 DEF SlotsFit
    <2>2. ASSUME NEW i \in DOMAIN new.slots
          PROVE  /\ new.slots[i].model \in new.subscribed
                 /\ new.slots[i].what \in Whats(new.slots[i].model)
                 /\ new.shown[new.slots[i].model][new.slots[i].what]
                        = Showing(new.slots[i].model, new.slots[i].what, new.slots[i].last)
        <3>0. PICK m, w : m = le.slots[i].model /\ w = le.slots[i].what
            OBVIOUS
        <3>1. /\ m \in le.subscribed /\ w \in Whats(m) /\ m \in DOMAIN le.shown
              /\ le.shown[m][w] = Showing(m, w, le.slots[i].last)
            BY <1>7, <1>14, <3>0 DEF SlotsFit
        <3>2. new.slots[i].model = m /\ new.slots[i].what = w
            BY <1>14, <1>16, <3>0
        <3>3. CASE Key(le.slots[i]) = key
            <4>1. m = o /\ w = what
                BY <1>15, <3>0, <3>3 DEF Key
            <4>2. new.slots[i].last = value
                BY <1>14, <1>16, <3>3
            <4> QED
                BY <1>9, <1>10, <1>13, <3>1, <3>2, <4>1, <4>2
        <3>4. CASE Key(le.slots[i]) # key
            <4>1. new.slots[i].last = le.slots[i].last
                BY <1>14, <1>16, <3>4
            <4>2. m # o \/ w # what
                BY <1>15, <3>0, <3>4 DEF Key
            <4>3. new.shown[m][w] = le.shown[m][w]
                <5>1. CASE m # o
                    BY <1>13, <3>1, <5>1
                <5>2. CASE m = o
                    BY <1>10, <1>13, <3>1, <4>2, <5>2
                <5> QED
                    BY <5>1, <5>2
            <4> QED
                BY <1>9, <3>1, <3>2, <4>1, <4>3
        <3> QED
            BY <3>3, <3>4
    <2>3. new.slots \in Seq(ToSet(new.slots))
        <3>1. DOMAIN le.slots = 1 .. Len(le.slots) /\ Len(le.slots) \in Nat
            BY <1>7, ListOfItsOwn DEF SlotsFit
        <3>2. new.slots \in [1 .. Len(le.slots) -> ToSet(new.slots)]
            <4>1. new.slots = [i \in DOMAIN new.slots |-> new.slots[i]]
                BY <1>9
            <4>2. \A i \in DOMAIN new.slots : new.slots[i] \in ToSet(new.slots)
                BY DEF ToSet
            <4> QED
                BY <1>14, <3>1, <4>1, <4>2
        <3> QED
            BY <3>1, <3>2, FunctionIsList
    <2>4. \A i, j \in DOMAIN new.slots : Key(new.slots[i]) = Key(new.slots[j]) => i = j
        <3>1. \A i, j \in DOMAIN le.slots : Key(le.slots[i]) = Key(le.slots[j]) => i = j
            BY <1>7 DEF SlotsFit
        <3> QED
            BY <1>14, <1>16, <3>1
    <2>5. ASSUME NEW p \in new.subscribed, NEW w \in Whats(p)
          PROVE  \E i \in DOMAIN new.slots : Key(new.slots[i]) = <<p, w>>
        <3>1. PICK i \in DOMAIN le.slots : Key(le.slots[i]) = <<p, w>>
            BY <1>7, <1>9 DEF SlotsFit
        <3> QED
            BY <1>14, <1>16, <3>1
    <2> QED
        BY <1>14, <1>16, <2>1, <2>2, <2>3, <2>4, <2>5 DEF SlotsFit
<1>18. CallsFit(new)
    <2>1. ASSUME NEW i \in DOMAIN new.calls, new.calls[i].token = "held"
          PROVE  \E j \in DOMAIN new.slots :
                    Key(new.slots[j]) = Key(new.calls[i])
                    /\ new.slots[j].last = new.calls[i].last
        <3>1. PICK j \in DOMAIN le.slots :
                Key(le.slots[j]) = Key(le.calls[i]) /\ le.slots[j].last = le.calls[i].last
            BY <1>7, <1>9, <2>1 DEF CallsFit
        <3>2. Key(le.calls[i]) # key
            BY <1>7, <1>9, <2>1 DEF NoneHeld
        <3> QED
            BY <1>9, <1>14, <1>16, <3>1, <3>2
    <2> QED
        BY <1>7, <1>9, <2>1 DEF CallsFit
<1>19. SlotsFollow(new, s)
    <2> SUFFICES ASSUME NEW i \in DOMAIN new.slots
                 PROVE  \/ new.slots[i].last
                            = Selected(s, new.slots[i].model, new.slots[i].what)
                        \/ \E j \in DOMAIN new.calls :
                               /\ Key(new.calls[j]) = Key(new.slots[i])
                               /\ new.calls[j].token = "held"
        BY DEF SlotsFollow
    <2>1. CASE Key(le.slots[i]) = key
        <3>1. le.slots[i].model = o /\ le.slots[i].what = what
            BY <1>15, <2>1 DEF Key
        <3> QED
            BY <1>4, <1>14, <1>16, <2>1, <3>1
    <2>2. CASE Key(le.slots[i]) # key
        <3>1. \/ le.slots[i].last = Selected(s, le.slots[i].model, le.slots[i].what)
              \/ \E j \in DOMAIN le.calls :
                     /\ Key(le.calls[j]) = Key(le.slots[i])
                     /\ le.calls[j].token = "held"
            BY <1>7, <1>14, <2>2 DEF SlotsFollowBut
        <3>2. new.slots[i] = le.slots[i]
            BY <1>14, <1>16, <2>2
        <3> QED
            BY <1>9, <3>1, <3>2
    <2> QED
        BY <2>1, <2>2
<1> QED
    BY <1>8, <1>12, <1>17, <1>18, <1>19

-----------------------------------------------------------------------------
(* A model that is subscribed. *)

LEMMA ObservedIsList ==
    ASSUME NEW o \in Models
    PROVE  /\ Observed[o.kind] \in Seq(Whats(o)) /\ IsInjective(Observed[o.kind])
           /\ DOMAIN Observed[o.kind] = 1 .. Len(Observed[o.kind])
           /\ Len(Observed[o.kind]) \in Nat
           /\ Last(Observed[o.kind]) \in Whats(o)
           /\ o.kind # "entry" => Last(Observed[o.kind]) = ListOf(o)
           /\ \A what \in Whats(o) : \E i \in DOMAIN Observed[o.kind] : Observed[o.kind][i] = what
           /\ \A i \in DOMAIN Observed[o.kind] : Observed[o.kind][i] \in Whats(o)
<1> DEFINE observed == Observed[o.kind]
<1>1. \A what \in Whats(o) : \E i \in DOMAIN observed : observed[i] = what
    BY DEF Whats, ToSet
<1>2. \A i \in DOMAIN observed : observed[i] \in Whats(o)
    BY DEF Whats, ToSet
<1>3. CASE o.kind = "mixer"
    <2>1. observed = <<"inputs">>
        BY <1>3, ObservedAre
    <2> HIDE DEF observed
    <2>2. Len(observed) = 1 /\ DOMAIN observed = 1 .. 1 /\ observed[1] = "inputs"
        BY <2>1
    <2>3. Last(observed) = ListOf(o) /\ Last(observed) = "inputs"
        BY <1>3, <2>2 DEF Last, ListOf
    <2>4. IsInjective(observed)
        BY <2>2 DEF IsInjective
    <2>5. Last(observed) \in Whats(o) /\ observed \in Seq(Whats(o))
        BY <1>3, <2>1, <2>3, WhatsAre
    <2> QED
        BY <1>1, <1>2, <2>2, <2>3, <2>4, <2>5 DEF observed
<1>4. CASE o.kind = "strip"
    <2>1. observed = <<"name", "focused_chain", "can_move_up", "can_move_down", "chain">>
        BY <1>4, ObservedAre
    <2> HIDE DEF observed
    <2>2. /\ Len(observed) = 5 /\ DOMAIN observed = 1 .. 5 /\ observed[1] = "name"
          /\ observed[2] = "focused_chain" /\ observed[3] = "can_move_up"
          /\ observed[4] = "can_move_down" /\ observed[5] = "chain"
        BY <2>1
    <2>3. Last(observed) = ListOf(o) /\ Last(observed) = "chain"
        BY <1>4, <2>2 DEF Last, ListOf
    <2>4. IsInjective(observed)
        <3> SUFFICES ASSUME NEW i \in 1 .. 5, NEW j \in 1 .. 5, observed[i] = observed[j]
                     PROVE  i = j
            BY <2>2 DEF IsInjective
        <3>1. i = 1 \/ i = 2 \/ i = 3 \/ i = 4 \/ i = 5
            OBVIOUS
        <3>2. j = 1 \/ j = 2 \/ j = 3 \/ j = 4 \/ j = 5
            OBVIOUS
        <3> QED
            BY <2>2, <3>1, <3>2
    <2>5. Last(observed) \in Whats(o) /\ observed \in Seq(Whats(o))
        BY <1>4, <2>1, <2>3, WhatsAre
    <2> QED
        BY <1>1, <1>2, <2>2, <2>3, <2>4, <2>5 DEF observed
<1>5. CASE o.kind = "entry"
    <2>1. observed = <<"module_name", "focused_module">>
        BY <1>5, ObservedAre
    <2> HIDE DEF observed
    <2>2. /\ Len(observed) = 2 /\ DOMAIN observed = 1 .. 2
          /\ observed[1] = "module_name" /\ observed[2] = "focused_module"
        BY <2>1
    <2>3. Last(observed) = "focused_module"
        BY <2>2 DEF Last
    <2>4. IsInjective(observed)
        <3> SUFFICES ASSUME NEW i \in 1 .. 2, NEW j \in 1 .. 2, observed[i] = observed[j]
                     PROVE  i = j
            BY <2>2 DEF IsInjective
        <3>1. (i = 1 \/ i = 2) /\ (j = 1 \/ j = 2)
            OBVIOUS
        <3> QED
            BY <2>2, <3>1
    <2>5. Last(observed) \in Whats(o) /\ observed \in Seq(Whats(o))
        BY <1>5, <2>1, <2>3, WhatsAre
    <2> QED
        BY <1>1, <1>2, <1>5, <2>2, <2>4, <2>5 DEF observed
<1> QED
    BY <1>3, <1>4, <1>5, Kinds

Connected(o) ==
    [i \in DOMAIN Observed[o.kind] |->
        [model |-> o, what |-> Observed[o.kind][i],
         last |-> Selected(st, o, Observed[o.kind][i])]]

IsSubscribed(new, le, o) ==
    /\ Shows(new, le, o, [what \in Whats(o) |-> Showing(o, what, Selected(st, o, what))])
    /\ new.subscribed = le.subscribed \cup {o} /\ new.calls = le.calls
    /\ new.slots = le.slots \o Connected(o)

LEMMA SubscribedIs ==
    ASSUME NEW ui, NEW o, NEW le,
           le = ListEdited(ui, o, Last(Observed[o.kind]),
                           Selected(st, o, Last(Observed[o.kind]))),
           IsUi(le), o \in DOMAIN le.shown
    PROVE  IsSubscribed(Subscribed(ui, o), le, o)
<1> DEFINE new == Subscribed(ui, o)
           given == [what \in Whats(o) |-> Showing(o, what, Selected(st, o, what))]
           shown_new == [le.shown EXCEPT ![o] = given]
           subscribed_new == le.subscribed \cup {o}
           slots_new == le.slots \o Connected(o)
<1>1. new = [le EXCEPT !.shown[o] = given, !.subscribed = subscribed_new,
                       !.slots = slots_new]
    BY DEF Subscribed, Connected, Whats
<1> HIDE DEF new, given, subscribed_new, slots_new
<1>2. new = [le EXCEPT !.shown = shown_new, !.subscribed = subscribed_new,
                       !.slots = slots_new]
    BY <1>1
<1>3. /\ DOMAIN shown_new = DOMAIN le.shown /\ shown_new[o] = given
      /\ \A p \in DOMAIN le.shown : p # o => shown_new[p] = le.shown[p]
    OBVIOUS
<1> HIDE DEF shown_new
<1>4. new = [shown |-> shown_new, rows |-> le.rows, subscribed |-> subscribed_new,
             slots |-> slots_new, calls |-> le.calls]
    BY <1>2 DEF IsUi
<1>5. /\ IsUi(new) /\ new.shown = shown_new /\ new.rows = le.rows
      /\ new.subscribed = subscribed_new /\ new.calls = le.calls /\ new.slots = slots_new
    BY <1>4 DEF IsUi
<1>6. Shows(new, le, o, given)
    BY <1>3, <1>5 DEF Shows
<1> QED
    BY <1>5, <1>6 DEF IsSubscribed, new, given, subscribed_new, slots_new

\* What two lists of slots make together.
LEMMA Joined ==
    ASSUME NEW left, left \in Seq(ToSet(left)), NEW right, right \in Seq(ToSet(right)),
           NEW all, all = left \o right
    PROVE  /\ all \in Seq(ToSet(all))
           /\ \A i \in DOMAIN all :
                \/ i \in DOMAIN left /\ all[i] = left[i]
                \/ \E j \in DOMAIN right : i = Len(left) + j /\ all[i] = right[j]
           /\ \A i \in DOMAIN left : i \in DOMAIN all /\ all[i] = left[i]
           /\ \A j \in DOMAIN right : \E i \in DOMAIN all : all[i] = right[j]
<1> DEFINE S == ToSet(left) \cup ToSet(right)
<1>1. /\ DOMAIN left = 1 .. Len(left) /\ Len(left) \in Nat
      /\ DOMAIN right = 1 .. Len(right) /\ Len(right) \in Nat
    BY ListOfItsOwn
<1>2. left \in Seq(S)
    <2>1. \A i \in 1 .. Len(left) : left[i] \in S
        BY <1>1 DEF ToSet
    <2> HIDE DEF S
    <2> QED
        BY <2>1, ListOver
<1>3. right \in Seq(S)
    <2>1. \A i \in 1 .. Len(right) : right[i] \in S
        BY <1>1 DEF ToSet
    <2> HIDE DEF S
    <2> QED
        BY <2>1, ListOver
<1> HIDE DEF S
<1>4. all \in Seq(S)
    BY <1>2, <1>3, ConcatProperties
<1>5. Len(all) = Len(left) + Len(right)
    BY <1>2, <1>3, ConcatProperties
<1>6. \A i \in 1 .. Len(left) : all[i] = left[i]
    BY <1>2, <1>3, ConcatProperties
<1>7. \A i \in Len(left) + 1 .. Len(left) + Len(right) : all[i] = right[i - Len(left)]
    BY <1>2, <1>3, ConcatProperties
<1>8. all \in Seq(ToSet(all)) /\ DOMAIN all = 1 .. Len(all)
    BY <1>4, ListOfItsOwn
<1>9. ASSUME NEW i \in DOMAIN all
      PROVE  \/ i \in DOMAIN left /\ all[i] = left[i]
             \/ \E j \in DOMAIN right : i = Len(left) + j /\ all[i] = right[j]
    <2>1. CASE i \in 1 .. Len(left)
        BY <1>1, <1>6, <2>1
    <2>2. CASE i \notin 1 .. Len(left)
        <3>1. PICK j \in DOMAIN right : j = i - Len(left)
            BY <1>1, <1>5, <1>8, <2>2
        <3>2. i = Len(left) + j /\ i \in Len(left) + 1 .. Len(left) + Len(right)
            BY <1>1, <1>5, <1>8, <2>2, <3>1
        <3> QED
            BY <1>7, <3>1, <3>2
    <2> QED
        BY <2>1, <2>2
<1>10. \A i \in DOMAIN left : i \in DOMAIN all /\ all[i] = left[i]
    BY <1>1, <1>5, <1>6, <1>8
<1>11. ASSUME NEW j \in DOMAIN right PROVE \E i \in DOMAIN all : all[i] = right[j]
    <2>1. PICK i \in Nat : i = Len(left) + j
        BY <1>1
    <2>2. i \in Len(left) + 1 .. Len(left) + Len(right) /\ i - Len(left) = j /\ i \in DOMAIN all
        BY <1>1, <1>5, <1>8, <2>1
    <2> QED
        BY <1>7, <2>2
<1> QED
    BY <1>8, <1>9, <1>10, <1>11

\* No slot or call of a model that is not subscribed is left to be called.
LEMMA NotSubscribed ==
    ASSUME NEW ui, SlotsFit(ui), CallsFit(ui), NEW o, o \notin ui.subscribed, NEW what
    PROVE  NoneHeld(ui, <<o, what>>)
<1> SUFFICES ASSUME NEW j \in DOMAIN ui.calls, Key(ui.calls[j]) = <<o, what>>,
                    ui.calls[j].token = "held"
             PROVE  FALSE
    BY DEF NoneHeld
<1>1. PICK i \in DOMAIN ui.slots : Key(ui.slots[i]) = Key(ui.calls[j])
    BY DEF CallsFit
<1>2. ui.slots[i].model = o
    BY <1>1 DEF Key
<1> QED
    BY <1>2 DEF SlotsFit

\* The slots of the model that is connected.
LEMMA ConnectedAre ==
    ASSUME NEW o \in Models
    PROVE  LET list == Connected(o) IN
           /\ list \in Seq(ToSet(list))
           /\ \A j \in DOMAIN list :
                /\ list[j] = [model |-> list[j].model, what |-> list[j].what,
                              last |-> list[j].last]
                /\ list[j].model = o /\ list[j].what \in Whats(o)
                /\ list[j].last = Selected(st, o, list[j].what)
           /\ \A j, k \in DOMAIN list : Key(list[j]) = Key(list[k]) => j = k
           /\ \A what \in Whats(o) : \E j \in DOMAIN list : Key(list[j]) = <<o, what>>
<1>1. PICK list : list = Connected(o)
    OBVIOUS
<1>2. PICK observed : observed = Observed[o.kind]
    OBVIOUS
<1>3. /\ IsInjective(observed)
      /\ DOMAIN observed = 1 .. Len(observed) /\ Len(observed) \in Nat
      /\ \A what \in Whats(o) : \E i \in DOMAIN observed : observed[i] = what
      /\ \A i \in DOMAIN observed : observed[i] \in Whats(o)
    BY <1>2, ObservedIsList
<1>4. list = [i \in DOMAIN observed |->
        [model |-> o, what |-> observed[i], last |-> Selected(st, o, observed[i])]]
    BY <1>1, <1>2 DEF Connected
<1>5. DOMAIN list = DOMAIN observed
    BY <1>4
<1>6. ASSUME NEW j \in DOMAIN list
      PROVE  /\ list[j] = [model |-> list[j].model, what |-> list[j].what,
                           last |-> list[j].last]
             /\ list[j].model = o /\ list[j].what = observed[j]
             /\ list[j].last = Selected(st, o, list[j].what)
             /\ Key(list[j]) = <<o, observed[j]>>
    <2>1. PICK what, last : what = observed[j] /\ last = Selected(st, o, what)
        OBVIOUS
    <2>2. list[j] = [model |-> o, what |-> what, last |-> last]
        BY <1>4, <1>5, <2>1
    <2>3. list[j].model = o /\ list[j].what = what /\ list[j].last = last
        BY <2>2
    <2> QED
        BY <2>1, <2>2, <2>3 DEF Key
<1>7. list \in Seq(ToSet(list))
    <2>1. \A i \in DOMAIN list : list[i] \in ToSet(list)
        BY DEF ToSet
    <2>2. list \in [1 .. Len(observed) -> ToSet(list)]
        <3>1. list = [i \in DOMAIN list |-> list[i]]
            BY <1>4
        <3> QED
            BY <1>3, <1>5, <2>1, <3>1
    <2> QED
        BY <1>3, <2>2, FunctionIsList
<1>8. ASSUME NEW j \in DOMAIN list, NEW k \in DOMAIN list, Key(list[j]) = Key(list[k])
      PROVE  j = k
    <2>1. observed[j] = observed[k]
        BY <1>6, <1>8
    <2> QED
        BY <1>3, <1>5, <2>1 DEF IsInjective
<1>9. \A what \in Whats(o) : \E j \in DOMAIN list : Key(list[j]) = <<o, what>>
    BY <1>3, <1>5, <1>6
<1>10. \A j \in DOMAIN list : list[j].what \in Whats(o)
    BY <1>3, <1>5, <1>6
<1> QED
    BY <1>1, <1>6, <1>7, <1>8, <1>9, <1>10

LEMMA SubscribedFits ==
    ASSUME NEW ui, UiFits(ui), SlotsFit(ui), CallsFit(ui), StateFits(st), ChainsFit(ui, st),
           SlotsFollow(ui, st), NEW o \in DOMAIN ui.shown, o \notin ui.subscribed
    PROVE  LET new == Subscribed(ui, o) IN
           /\ UiFits(new) /\ SlotsFit(new) /\ CallsFit(new)
           /\ ChainsFit(new, st) /\ SlotsFollow(new, st)
           /\ \A ids : UsedFits(ui, st, ids) => UsedFits(new, st, ids)
<1>1. IsUi(ui) /\ TreeFits(ui) /\ ShownFits(ui)
    BY DEF UiFits
<1>2. o \in Models
    BY <1>1 DEF TreeFits
<1>3. PICK what, s : what = Last(Observed[o.kind]) /\ s = st
    OBVIOUS
<1>4. what \in Whats(o) /\ (o.kind # "entry" => what = ListOf(o))
    BY <1>2, <1>3, ObservedIsList
<1>5. PICK key : key = <<o, what>>
    OBVIOUS
<1>6. SlotsFollowBut(ui, s, key)
    BY <1>3 DEF SlotsFollow, SlotsFollowBut
<1>7. NoneHeld(ui, key)
    BY <1>5, NotSubscribed
<1>8. Sound(ui, s, key)
    BY <1>1, <1>6, <1>7 DEF Sound
<1>9. PICK le : le = ListEdited(ui, o, what, Selected(s, o, what))
    OBVIOUS
<1>10. /\ StateFits(s) /\ ChainsFit(ui, s)
    BY <1>3
<1>11. /\ Since(ui, le, s, key, o)
       /\ o.kind # "entry" =>
            Ids(le.rows[o]) = IF what = ListOf(o) THEN Selected(s, o, what)
                              ELSE ui.shown[o][ListOf(o)]
    BY <1>4, <1>8, <1>9, <1>10, ListEditedFits
<1>12. /\ IsUi(le) /\ TreeFits(le) /\ SlotsFit(le) /\ CallsFit(le)
       /\ SlotsFollowBut(le, s, key) /\ NoneHeld(le, key)
       /\ o \in DOMAIN le.shown /\ o \notin le.subscribed
    BY <1>11 DEF Since, Sound
<1>13. PICK new, given, list :
        /\ new = Subscribed(ui, o) /\ list = Connected(o)
        /\ given = [w \in Whats(o) |-> Showing(o, w, Selected(st, o, w))]
    OBVIOUS
<1>14. IsSubscribed(Subscribed(ui, o), le, o)
    BY <1>3, <1>9, <1>12, SubscribedIs
<1>15. /\ Shows(new, le, o, given)
       /\ new.subscribed = le.subscribed \cup {o} /\ new.calls = le.calls
       /\ new.slots = le.slots \o list
    BY <1>13, <1>14 DEF IsSubscribed
<1>16. /\ DOMAIN given = Whats(o)
       /\ \A w \in Whats(o) : given[w] = Showing(o, w, Selected(s, o, w))
    BY <1>3, <1>13
<1>17. ASSUME o.kind # "entry"
       PROVE  /\ Ids(le.rows[o]) = given[ListOf(o)]
              /\ given[ListOf(o)] \in {ui.shown[o][ListOf(o)], Selected(s, o, ListOf(o))}
    <2>1. Showing(o, what, Selected(s, o, what)) = Selected(s, o, what)
        BY <1>4, <1>17 DEF Showing, ListOf
    <2> QED
        BY <1>4, <1>11, <1>16, <1>17, <2>1
<1>18. /\ UiFits(new) /\ ChainsFit(new, s)
       /\ \A ids : UsedFits(ui, s, ids) => UsedFits(new, s, ids)
    BY <1>10, <1>11, <1>15, <1>16, <1>17, ShownFitsAfter
<1>19. /\ DOMAIN new.shown = DOMAIN le.shown /\ new.shown[o] = given
       /\ \A p \in DOMAIN le.shown : p # o => new.shown[p] = le.shown[p]
    BY <1>15 DEF Shows
<1>20. /\ list \in Seq(ToSet(list))
       /\ \A j \in DOMAIN list :
            /\ list[j] = [model |-> list[j].model, what |-> list[j].what, last |-> list[j].last]
            /\ list[j].model = o /\ list[j].what \in Whats(o)
            /\ list[j].last = Selected(s, o, list[j].what)
       /\ \A j, k \in DOMAIN list : Key(list[j]) = Key(list[k]) => j = k
       /\ \A w \in Whats(o) : \E j \in DOMAIN list : Key(list[j]) = <<o, w>>
    BY <1>2, <1>3, <1>13, ConnectedAre
<1>21. le.slots \in Seq(ToSet(le.slots)) /\ DOMAIN le.slots = 1 .. Len(le.slots)
       /\ Len(le.slots) \in Nat
    BY <1>12, ListOfItsOwn DEF SlotsFit
<1>22. DOMAIN list = 1 .. Len(list) /\ Len(list) \in Nat
    BY <1>20, ListOfItsOwn
<1>23. /\ new.slots \in Seq(ToSet(new.slots))
       /\ \A i \in DOMAIN new.slots :
            \/ i \in DOMAIN le.slots /\ new.slots[i] = le.slots[i]
            \/ \E j \in DOMAIN list : i = Len(le.slots) + j /\ new.slots[i] = list[j]
       /\ \A i \in DOMAIN le.slots : i \in DOMAIN new.slots /\ new.slots[i] = le.slots[i]
       /\ \A j \in DOMAIN list : \E i \in DOMAIN new.slots : new.slots[i] = list[j]
    BY <1>15, <1>20, <1>21, Joined
<1>23a. \A n \in DOMAIN le.slots : le.slots[n].model # o
    <2>1. \A n \in DOMAIN le.slots : le.slots[n].model \in le.subscribed
        BY <1>12 DEF SlotsFit
    <2> QED
        BY <1>12, <2>1
<1>24. SlotsFit(new)
    <2>1. new.subscribed \subseteq DOMAIN new.shown
        BY <1>12, <1>15, <1>19 DEF SlotsFit
    <2>2. ASSUME NEW i \in DOMAIN new.slots
          PROVE  /\ new.slots[i] = [model |-> new.slots[i].model, what |-> new.slots[i].what,
                                    last |-> new.slots[i].last]
                 /\ new.slots[i].model \in new.subscribed
                 /\ new.slots[i].what \in Whats(new.slots[i].model)
                 /\ new.shown[new.slots[i].model][new.slots[i].what]
                        = Showing(new.slots[i].model, new.slots[i].what, new.slots[i].last)
        <3>1. CASE i \in DOMAIN le.slots /\ new.slots[i] = le.slots[i]
            <4>1. PICK m, w : m = le.slots[i].model /\ w = le.slots[i].what
                OBVIOUS
            <4>2. /\ le.slots[i] = [model |-> m, what |-> w, last |-> le.slots[i].last]
                  /\ m \in le.subscribed /\ w \in Whats(m) /\ m \in DOMAIN le.shown
                  /\ le.shown[m][w] = Showing(m, w, le.slots[i].last)
                BY <1>12, <3>1, <4>1 DEF SlotsFit
            <4>3. m # o
                BY <1>12, <4>2
            <4> QED
                BY <1>15, <1>19, <3>1, <4>1, <4>2, <4>3
        <3>2. ASSUME NEW j \in DOMAIN list, new.slots[i] = list[j]
              PROVE  /\ new.slots[i] = [model |-> new.slots[i].model, what |-> new.slots[i].what,
                                        last |-> new.slots[i].last]
                     /\ new.slots[i].model \in new.subscribed
                     /\ new.slots[i].what \in Whats(new.slots[i].model)
                     /\ new.shown[new.slots[i].model][new.slots[i].what]
                            = Showing(new.slots[i].model, new.slots[i].what, new.slots[i].last)
            <4>1. PICK w : w = list[j].what
                OBVIOUS
            <4>2. /\ list[j] = [model |-> list[j].model, what |-> list[j].what,
                                last |-> list[j].last]
                  /\ list[j].model = o /\ w \in Whats(o)
                  /\ list[j].last = Selected(s, o, w)
                BY <1>20, <4>1
            <4>3. new.shown[o][w] = Showing(o, w, Selected(s, o, w))
                BY <1>16, <1>19, <4>2
            <4>4. o \in new.subscribed
                BY <1>15
            <4> QED
                BY <3>2, <4>1, <4>2, <4>3, <4>4
        <3> QED
            BY <1>23, <3>1, <3>2
    <2>3. ASSUME NEW i \in DOMAIN new.slots, NEW k \in DOMAIN new.slots,
                 Key(new.slots[i]) = Key(new.slots[k])
          PROVE  i = k
        <3>1. new.slots[i].model = new.slots[k].model
            BY <2>3 DEF Key
        <3>2. \A n \in DOMAIN le.slots : le.slots[n].model # o
            BY <1>23a
        <3>3. \A n \in DOMAIN list : list[n].model = o
            BY <1>20
        <3>4. CASE /\ i \in DOMAIN le.slots /\ new.slots[i] = le.slots[i]
                   /\ k \in DOMAIN le.slots /\ new.slots[k] = le.slots[k]
            BY <1>12, <2>3, <3>4 DEF SlotsFit
        <3>5. ASSUME NEW j \in DOMAIN list, i = Len(le.slots) + j, new.slots[i] = list[j],
                     NEW l \in DOMAIN list, k = Len(le.slots) + l, new.slots[k] = list[l]
              PROVE  i = k
            <4>1. j = l
                BY <1>20, <2>3, <3>5
            <4> QED
                BY <3>5, <4>1
        <3> QED
            BY <1>23, <3>1, <3>2, <3>3, <3>4, <3>5
    <2>4. ASSUME NEW p \in new.subscribed, NEW w \in Whats(p)
          PROVE  \E i \in DOMAIN new.slots : Key(new.slots[i]) = <<p, w>>
        <3>1. CASE p = o
            <4>1. PICK j \in DOMAIN list : Key(list[j]) = <<o, w>>
                BY <1>20, <3>1
            <4>2. PICK i \in DOMAIN new.slots : new.slots[i] = list[j]
                BY <1>23
            <4> QED
                BY <3>1, <4>1, <4>2
        <3>2. CASE p # o
            <4>1. p \in le.subscribed
                BY <1>15, <3>2
            <4>2. PICK i \in DOMAIN le.slots : Key(le.slots[i]) = <<p, w>>
                BY <1>12, <4>1 DEF SlotsFit
            <4> QED
                BY <1>23, <4>2
        <3> QED
            BY <3>1, <3>2
    <2> QED
        BY <1>23, <2>1, <2>2, <2>3, <2>4 DEF SlotsFit
<1>25. CallsFit(new)
    <2>1. ASSUME NEW i \in DOMAIN new.calls, new.calls[i].token = "held"
          PROVE  \E j \in DOMAIN new.slots :
                    Key(new.slots[j]) = Key(new.calls[i])
                    /\ new.slots[j].last = new.calls[i].last
        <3>1. PICK j \in DOMAIN le.slots :
                Key(le.slots[j]) = Key(le.calls[i]) /\ le.slots[j].last = le.calls[i].last
            BY <1>12, <1>15, <2>1 DEF CallsFit
        <3> QED
            BY <1>15, <1>23, <3>1
    <2> QED
        BY <1>12, <1>15, <2>1 DEF CallsFit
<1>26. SlotsFollow(new, s)
    <2> SUFFICES ASSUME NEW i \in DOMAIN new.slots
                 PROVE  \/ new.slots[i].last
                            = Selected(s, new.slots[i].model, new.slots[i].what)
                        \/ \E j \in DOMAIN new.calls :
                               /\ Key(new.calls[j]) = Key(new.slots[i])
                               /\ new.calls[j].token = "held"
        BY DEF SlotsFollow
    <2>1. CASE i \in DOMAIN le.slots /\ new.slots[i] = le.slots[i]
        <3>1. Key(le.slots[i]) # key
            <4>1. le.slots[i].model # o
                BY <1>23a, <2>1
            <4> QED
                BY <1>5, <4>1 DEF Key
        <3> QED
            BY <1>12, <1>15, <2>1, <3>1 DEF SlotsFollowBut
    <2>2. ASSUME NEW j \in DOMAIN list, new.slots[i] = list[j]
          PROVE  new.slots[i].last = Selected(s, new.slots[i].model, new.slots[i].what)
        BY <1>20, <2>2
    <2> QED
        BY <1>23, <2>1, <2>2
<1> QED
    BY <1>3, <1>13, <1>18, <1>24, <1>25, <1>26

-----------------------------------------------------------------------------
(* The calls. *)

\* Only the calls change.
SameButCalls(new, ui) ==
    /\ IsUi(new) /\ new.shown = ui.shown /\ new.rows = ui.rows
    /\ new.subscribed = ui.subscribed /\ new.slots = ui.slots

LEMMA SameFits ==
    ASSUME NEW ui, NEW new, SameButCalls(new, ui), UiFits(ui), SlotsFit(ui)
    PROVE  /\ UiFits(new) /\ SlotsFit(new)
           /\ \A s : ChainsFit(ui, s) => ChainsFit(new, s)
           /\ \A s : \A ids : UsedFits(ui, s, ids) => UsedFits(new, s, ids)
<1>1. /\ IsUi(new) /\ new.shown = ui.shown /\ new.rows = ui.rows
      /\ new.subscribed = ui.subscribed /\ new.slots = ui.slots
    BY DEF SameButCalls
<1>2. TreeFits(new)
    BY <1>1, TreeFitsKept DEF UiFits
<1>3. ShownFits(new)
    BY <1>1 DEF UiFits, ShownFits
<1>4. SlotsFit(new)
    BY <1>1 DEF SlotsFit
<1>5. \A s : ChainsFit(ui, s) => ChainsFit(new, s)
    BY <1>1 DEF ChainsFit
<1>6. \A s : \A ids : UsedFits(ui, s, ids) => UsedFits(new, s, ids)
    BY <1>1 DEF UsedFits
<1> QED
    BY <1>1, <1>2, <1>3, <1>4, <1>5, <1>6 DEF UiFits

LEMMA TailIs ==
    ASSUME NEW list, list \in Seq(ToSet(list)), list # <<>>
    PROVE  /\ Tail(list) \in Seq(ToSet(Tail(list))) /\ Head(list) = list[1] /\ 1 \in DOMAIN list
           /\ \A i \in DOMAIN Tail(list) : i + 1 \in DOMAIN list /\ Tail(list)[i] = list[i + 1]
           /\ \A i \in DOMAIN list : i # 1 =>
                \E j \in DOMAIN Tail(list) : i = j + 1 /\ Tail(list)[j] = list[i]
<1>1. DOMAIN list = 1 .. Len(list) /\ Len(list) \in Nat
    BY ListOfItsOwn
<1>2. /\ Tail(list) \in Seq(ToSet(list)) /\ Head(list) = list[1]
      /\ Len(Tail(list)) = Len(list) - 1
      /\ \A i \in 1 .. Len(Tail(list)) : Tail(list)[i] = list[i + 1]
    BY HeadTailProperties
<1>3. Len(list) > 0
    BY <1>1, EmptySeq
<1>4. Tail(list) \in Seq(ToSet(Tail(list))) /\ DOMAIN Tail(list) = 1 .. Len(list) - 1
    BY <1>2, ListOfItsOwn
<1>5. ASSUME NEW i \in DOMAIN list, i # 1
      PROVE  \E j \in DOMAIN Tail(list) : i = j + 1 /\ Tail(list)[j] = list[i]
    <2>1. PICK j \in Nat : j = i - 1
        BY <1>1, <1>5
    <2>2. i = j + 1 /\ j \in 1 .. Len(list) - 1
        BY <1>1, <1>5, <2>1
    <2> QED
        BY <1>2, <1>4, <2>2
<1> QED
    BY <1>1, <1>2, <1>3, <1>4, <1>5

\* What is known of the call that is taken from the others.
IsTaken(rest, ui, s, slot) ==
    /\ SameButCalls(rest, ui) /\ CallsFit(rest)
    /\ SlotsFollowBut(rest, s, Key(slot)) /\ NoneHeld(rest, Key(slot))
    /\ \/ slot.token = "expired"
       \/ slot.last = Selected(s, slot.model, slot.what)
       => SlotsFollow(rest, s)
    /\ slot.token # "expired" => slot.model \in ui.subscribed /\ slot.what \in Whats(slot.model)

LEMMA TakenIs ==
    ASSUME NEW ui, IsUi(ui), SlotsFit(ui), CallsFit(ui), NEW s, SlotsFollow(ui, s),
           ui.calls # <<>>, NEW slot, slot = Head(ui.calls),
           NEW rest, rest = [ui EXCEPT !.calls = Tail(ui.calls)]
    PROVE  IsTaken(rest, ui, s, slot)
<1> DEFINE tail == Tail(ui.calls)
<1>1. rest = [shown |-> ui.shown, rows |-> ui.rows, subscribed |-> ui.subscribed,
              slots |-> ui.slots, calls |-> tail]
    <2>1. rest = [ui EXCEPT !.calls = tail]
        OBVIOUS
    <2> HIDE DEF tail
    <2> QED
        BY <2>1 DEF IsUi
<1>2. /\ ui.calls \in Seq(ToSet(ui.calls))
      /\ \A i, j \in DOMAIN ui.calls : Key(ui.calls[i]) = Key(ui.calls[j]) => i = j
      /\ \A i \in DOMAIN ui.calls :
            /\ ui.calls[i].token \in {"held", "expired"}
            /\ ui.calls[i].token = "held" =>
                \E j \in DOMAIN ui.slots :
                    Key(ui.slots[j]) = Key(ui.calls[i]) /\ ui.slots[j].last = ui.calls[i].last
    BY DEF CallsFit
<1>3. /\ tail \in Seq(ToSet(tail)) /\ slot = ui.calls[1] /\ 1 \in DOMAIN ui.calls
      /\ \A i \in DOMAIN tail : i + 1 \in DOMAIN ui.calls /\ tail[i] = ui.calls[i + 1]
      /\ \A i \in DOMAIN ui.calls : i # 1 =>
            \E j \in DOMAIN tail : i = j + 1 /\ tail[j] = ui.calls[i]
      /\ DOMAIN tail = 1 .. Len(tail) /\ Len(tail) \in Nat
    BY <1>2, TailIs, ListOfItsOwn
<1> HIDE DEF tail
<1>4. SameButCalls(rest, ui) /\ rest.calls = tail
    <2>1. /\ rest.shown = ui.shown /\ rest.rows = ui.rows /\ rest.subscribed = ui.subscribed
          /\ rest.slots = ui.slots /\ rest.calls = tail
        BY <1>1
    <2>2. IsUi(rest)
        BY <1>1, <2>1 DEF IsUi
    <2> QED
        BY <2>1, <2>2 DEF SameButCalls
<1>5. rest.slots = ui.slots
    BY <1>4 DEF SameButCalls
<1>6. CallsFit(rest)
    <2>1. ASSUME NEW i \in DOMAIN tail
          PROVE  /\ tail[i] = [model |-> tail[i].model, what |-> tail[i].what,
                               last |-> tail[i].last, token |-> tail[i].token]
                 /\ tail[i].token \in {"held", "expired"}
                 /\ tail[i].token = "held" =>
                        \E j \in DOMAIN ui.slots :
                            Key(ui.slots[j]) = Key(tail[i]) /\ ui.slots[j].last = tail[i].last
        <3>1. PICK k : k = i + 1
            OBVIOUS
        <3>2. k \in DOMAIN ui.calls /\ tail[i] = ui.calls[k]
            BY <1>3, <3>1
        <3> QED
            BY <3>2 DEF CallsFit
    <2>2. ASSUME NEW i \in DOMAIN tail, NEW j \in DOMAIN tail, Key(tail[i]) = Key(tail[j])
          PROVE  i = j
        <3>1. i + 1 = j + 1
            BY <1>2, <1>3, <2>2
        <3> QED
            BY <1>3, <3>1
    <2> QED
        <3>1. rest.calls = tail /\ rest.slots = ui.slots
            BY <1>4, <1>5
        <3>2. rest.calls \in Seq(ToSet(rest.calls))
            BY <1>3, <3>1
        <3>3. \A i, j \in DOMAIN rest.calls : Key(rest.calls[i]) = Key(rest.calls[j]) => i = j
            BY <2>2, <3>1
        <3>4. \A i \in DOMAIN rest.calls :
                /\ rest.calls[i] = [model |-> rest.calls[i].model, what |-> rest.calls[i].what,
                                    last |-> rest.calls[i].last, token |-> rest.calls[i].token]
                /\ rest.calls[i].token \in {"held", "expired"}
                /\ rest.calls[i].token = "held" =>
                    \E j \in DOMAIN rest.slots :
                        Key(rest.slots[j]) = Key(rest.calls[i])
                        /\ rest.slots[j].last = rest.calls[i].last
            BY <2>1, <3>1
        <3> QED
            BY <3>2, <3>3, <3>4 DEF CallsFit
<1>7. NoneHeld(rest, Key(slot))
    <2> SUFFICES ASSUME NEW j \in DOMAIN tail, Key(tail[j]) = Key(slot)
                 PROVE  FALSE
        BY <1>4 DEF NoneHeld
    <2>1. j + 1 = 1
        BY <1>2, <1>3
    <2> QED
        BY <1>3, <2>1
<1>8. ASSUME NEW i \in DOMAIN ui.slots, NEW j \in DOMAIN ui.calls, j # 1,
             Key(ui.calls[j]) = Key(ui.slots[i]), ui.calls[j].token = "held"
      PROVE  \E k \in DOMAIN rest.calls :
                Key(rest.calls[k]) = Key(rest.slots[i]) /\ rest.calls[k].token = "held"
    <2>1. PICK k \in DOMAIN tail : j = k + 1 /\ tail[k] = ui.calls[j]
        BY <1>3, <1>8
    <2> QED
        BY <1>4, <1>5, <1>8, <2>1
<1>9. SlotsFollowBut(rest, s, Key(slot))
    <2> SUFFICES ASSUME NEW i \in DOMAIN rest.slots, Key(rest.slots[i]) # Key(slot)
                 PROVE  \/ rest.slots[i].last
                            = Selected(s, rest.slots[i].model, rest.slots[i].what)
                        \/ \E k \in DOMAIN rest.calls :
                               /\ Key(rest.calls[k]) = Key(rest.slots[i])
                               /\ rest.calls[k].token = "held"
        BY DEF SlotsFollowBut
    <2>1. \/ ui.slots[i].last = Selected(s, ui.slots[i].model, ui.slots[i].what)
          \/ \E j \in DOMAIN ui.calls :
                 Key(ui.calls[j]) = Key(ui.slots[i]) /\ ui.calls[j].token = "held"
        BY <1>5 DEF SlotsFollow
    <2>2. \A j \in DOMAIN ui.calls : Key(ui.calls[j]) = Key(ui.slots[i]) => j # 1
        BY <1>3, <1>5
    <2> QED
        BY <1>5, <1>8, <2>1, <2>2
<1>10. ASSUME \/ slot.token = "expired"
              \/ slot.last = Selected(s, slot.model, slot.what)
       PROVE  SlotsFollow(rest, s)
    <2> SUFFICES ASSUME NEW i \in DOMAIN rest.slots
                 PROVE  \/ rest.slots[i].last
                            = Selected(s, rest.slots[i].model, rest.slots[i].what)
                        \/ \E k \in DOMAIN rest.calls :
                               /\ Key(rest.calls[k]) = Key(rest.slots[i])
                               /\ rest.calls[k].token = "held"
        BY DEF SlotsFollow
    <2>1. \/ ui.slots[i].last = Selected(s, ui.slots[i].model, ui.slots[i].what)
          \/ \E j \in DOMAIN ui.calls :
                 Key(ui.calls[j]) = Key(ui.slots[i]) /\ ui.calls[j].token = "held"
        BY <1>5 DEF SlotsFollow
    <2>2. ASSUME Key(slot) = Key(ui.slots[i]), slot.token = "held"
          PROVE  ui.slots[i].last = Selected(s, ui.slots[i].model, ui.slots[i].what)
        <3>1. PICK j \in DOMAIN ui.slots :
                Key(ui.slots[j]) = Key(slot) /\ ui.slots[j].last = slot.last
            BY <1>2, <1>3, <2>2
        <3>2. j = i
            BY <1>5, <2>2, <3>1 DEF SlotsFit
        <3>3. slot.last = Selected(s, slot.model, slot.what)
            BY <1>10, <2>2
        <3>4. slot.model = ui.slots[i].model /\ slot.what = ui.slots[i].what
            BY <2>2 DEF Key
        <3> QED
            BY <3>1, <3>2, <3>3, <3>4
    <2> QED
        BY <1>3, <1>5, <1>8, <2>1, <2>2
<1>11. ASSUME slot.token # "expired"
       PROVE  slot.model \in ui.subscribed /\ slot.what \in Whats(slot.model)
    <2>1. PICK j \in DOMAIN ui.slots : Key(ui.slots[j]) = Key(slot)
        BY <1>2, <1>3, <1>11
    <2>2. ui.slots[j].model = slot.model /\ ui.slots[j].what = slot.what
        BY <2>1 DEF Key
    <2>3. ui.slots[j].model \in ui.subscribed /\ ui.slots[j].what \in Whats(ui.slots[j].model)
        BY DEF SlotsFit
    <2> QED
        BY <2>2, <2>3
<1> QED
    BY <1>4, <1>6, <1>7, <1>9, <1>10, <1>11 DEF IsTaken

\* All slots are to be called, whatever the state.
LEMMA NotifiedFits ==
    ASSUME NEW ui, SlotsFit(ui), NEW new, SameButCalls(new, ui),
           new.calls = [i \in DOMAIN ui.slots |->
                            [model |-> ui.slots[i].model, what |-> ui.slots[i].what,
                             last |-> ui.slots[i].last, token |-> "held"]]
    PROVE  CallsFit(new) /\ \A s : SlotsFollow(new, s)
<1>1. new.slots = ui.slots /\ DOMAIN new.calls = DOMAIN ui.slots
    BY DEF SameButCalls
<1>2. ASSUME NEW i \in DOMAIN ui.slots
      PROVE  /\ new.calls[i] = [model |-> new.calls[i].model, what |-> new.calls[i].what,
                                last |-> new.calls[i].last, token |-> new.calls[i].token]
             /\ new.calls[i].token = "held" /\ Key(new.calls[i]) = Key(ui.slots[i])
             /\ new.calls[i].last = ui.slots[i].last
    <2>1. PICK m, w, l : m = ui.slots[i].model /\ w = ui.slots[i].what /\ l = ui.slots[i].last
        OBVIOUS
    <2>2. new.calls[i] = [model |-> m, what |-> w, last |-> l, token |-> "held"]
        BY <2>1
    <2>3. /\ new.calls[i].model = m /\ new.calls[i].what = w /\ new.calls[i].last = l
          /\ new.calls[i].token = "held"
        BY <2>2
    <2> QED
        BY <2>1, <2>2, <2>3 DEF Key
<1>3. new.calls \in Seq(ToSet(new.calls))
    <2>1. DOMAIN ui.slots = 1 .. Len(ui.slots) /\ Len(ui.slots) \in Nat
        BY ListOfItsOwn DEF SlotsFit
    <2>2. \A i \in DOMAIN new.calls : new.calls[i] \in ToSet(new.calls)
        BY DEF ToSet
    <2>3. new.calls = [i \in DOMAIN new.calls |-> new.calls[i]]
        OBVIOUS
    <2>4. new.calls \in [1 .. Len(ui.slots) -> ToSet(new.calls)]
        BY <1>1, <2>1, <2>2, <2>3
    <2> QED
        BY <2>1, <2>4, FunctionIsList
<1>4. \A i, j \in DOMAIN ui.slots : Key(ui.slots[i]) = Key(ui.slots[j]) => i = j
    BY DEF SlotsFit
<1>5. \A i, j \in DOMAIN new.calls : Key(new.calls[i]) = Key(new.calls[j]) => i = j
    BY <1>1, <1>2, <1>4
<1>6. CallsFit(new)
    BY <1>1, <1>2, <1>3, <1>5 DEF CallsFit
<1>7. \A s : SlotsFollow(new, s)
    BY <1>1, <1>2 DEF SlotsFollow
<1> QED
    BY <1>6, <1>7

-----------------------------------------------------------------------------
(* The reducers. *)

\* The chains of a state are those of the one before, but for a channel's which
\* may have got modules of extra.
IsNext(t, s, c, extra) ==
    /\ t = [channels |-> t.channels, inputs |-> t.inputs, fx_modules |-> t.fx_modules,
            focused |-> t.focused]
    /\ t.inputs \in Seq(MixerChannel) /\ IsInjective(t.inputs)
    /\ \A d \in DOMAIN t.channels :
           /\ t.channels[d] = [name |-> t.channels[d].name, fx_chain |-> t.channels[d].fx_chain]
           /\ t.channels[d].fx_chain \in Seq(Module) /\ IsInjective(t.channels[d].fx_chain)
           /\ \A m \in ToSet(t.channels[d].fx_chain) :
                \/ d \in DOMAIN s.channels /\ m \in ToSet(s.channels[d].fx_chain)
                \/ d = c /\ m \in extra

\* What the state and the views have of each other, after a step of the state.
LEMMA NextFits ==
    ASSUME NEW ui, NEW s, NEW ids, StateFits(s), ChainsFit(ui, s), UsedFits(ui, s, ids),
           NEW t, NEW c, NEW extra, IsNext(t, s, c, extra), ToSet(t.inputs) \subseteq ids,
           \A m \in extra : Unseen(ui, s, m) /\ m \in ids
    PROVE  /\ StateFits(t) /\ ChainsFit(ui, t) /\ UsedFits(ui, t, ids)
           /\ \A m : Unseen(ui, s, m) /\ m \notin extra => Unseen(ui, t, m)
<1>1. \A d \in DOMAIN t.channels : \A m \in ToSet(t.channels[d].fx_chain) :
            \/ d \in DOMAIN s.channels /\ m \in ToSet(s.channels[d].fx_chain)
            \/ d = c /\ m \in extra
    BY DEF IsNext
<1>2. \A m \in extra : \A d \in DOMAIN s.channels : m \notin ToSet(s.channels[d].fx_chain)
    BY DEF Unseen
<1>3. ASSUME NEW d \in DOMAIN t.channels, NEW e \in DOMAIN t.channels,
             ToSet(t.channels[d].fx_chain) \cap ToSet(t.channels[e].fx_chain) # {}
      PROVE  d = e
    <2>1. PICK m : m \in ToSet(t.channels[d].fx_chain) /\ m \in ToSet(t.channels[e].fx_chain)
        BY <1>3
    <2>2. CASE d = c /\ m \in extra
        BY <1>1, <1>2, <2>1, <2>2
    <2>3. CASE d \in DOMAIN s.channels /\ m \in ToSet(s.channels[d].fx_chain)
        <3>1. e \in DOMAIN s.channels /\ m \in ToSet(s.channels[e].fx_chain)
            BY <1>1, <1>2, <2>1, <2>3
        <3> QED
            BY <2>3, <3>1 DEF StateFits
    <2> QED
        BY <1>1, <2>1, <2>2, <2>3
<1>4. StateFits(t)
    BY <1>3 DEF IsNext, StateFits
<1>5. ASSUME NEW o \in DOMAIN ui.rows \ {mixer}, NEW d \in DOMAIN t.channels,
             ToSet(ui.shown[o]["chain"]) \cap ToSet(t.channels[d].fx_chain) # {}
      PROVE  d = o.id
    <2>1. PICK m : m \in ToSet(ui.shown[o]["chain"]) /\ m \in ToSet(t.channels[d].fx_chain)
        BY <1>5
    <2>2. m \notin extra
        BY <2>1 DEF Unseen
    <2>3. d \in DOMAIN s.channels /\ m \in ToSet(s.channels[d].fx_chain)
        BY <1>1, <2>1, <2>2
    <2> QED
        BY <2>1, <2>3 DEF ChainsFit
<1>6. ChainsFit(ui, t)
    BY <1>5 DEF ChainsFit
<1>7. UsedFits(ui, t, ids)
    <2>1. ASSUME NEW d \in DOMAIN t.channels, NEW m \in ToSet(t.channels[d].fx_chain)
          PROVE  m \in ids
        BY <1>1 DEF UsedFits
    <2> QED
        BY <2>1 DEF UsedFits
<1>8. ASSUME NEW m, Unseen(ui, s, m), m \notin extra PROVE Unseen(ui, t, m)
    BY <1>1, <1>8 DEF Unseen
<1> QED
    BY <1>4, <1>6, <1>7, <1>8

\* A list in which two neighbours change places.
LEMMA SwappedIs ==
    ASSUME NEW S, NEW list \in Seq(S), IsInjective(list), NEW i \in 1 .. Len(list) - 1,
           NEW j, j = i + 1
    PROVE  LET new == Swapped(list, i, j) IN
           /\ new \in Seq(S) /\ IsInjective(new) /\ ToSet(new) \subseteq ToSet(list)
<1>1. DOMAIN list = 1 .. Len(list) /\ Len(list) \in Nat /\ \A k \in 1 .. Len(list) : list[k] \in S
    BY ListOfItsOwn
<1>2. i \in DOMAIN list /\ j \in DOMAIN list /\ i # j
    BY <1>1
<1>3. PICK new : new = Swapped(list, i, j)
    OBVIOUS
<1>4. DOMAIN new = DOMAIN list
    BY <1>3 DEF Swapped
<1>5. \A k \in DOMAIN list : new[k] = IF k = j THEN list[i] ELSE IF k = i THEN list[j] ELSE list[k]
    BY <1>2, <1>3 DEF Swapped
<1>6. \A k \in DOMAIN new : new[k] \in S
    BY <1>1, <1>2, <1>4, <1>5
<1>7. new \in Seq(S)
    <2>1. new = [k \in DOMAIN new |-> new[k]]
        <3>1. new = [[list EXCEPT ![i] = list[j]] EXCEPT ![j] = list[i]]
            BY <1>3 DEF Swapped
        <3> QED
            BY <3>1
    <2>2. new \in [1 .. Len(list) -> S]
        BY <1>1, <1>4, <1>6, <2>1
    <2> QED
        BY <1>1, <2>2, FunctionIsList
<1>8. IsInjective(new)
    <2> SUFFICES ASSUME NEW k \in DOMAIN list, NEW l \in DOMAIN list, new[k] = new[l]
                 PROVE  k = l
        BY <1>4 DEF IsInjective
    <2>1. \A x, y \in DOMAIN list : list[x] = list[y] => x = y
        BY DEF IsInjective
    <2> QED
        BY <1>2, <1>5, <2>1
<1>9. ToSet(new) \subseteq ToSet(list)
    BY <1>2, <1>4, <1>5 DEF ToSet
<1> QED
    BY <1>3, <1>7, <1>8, <1>9

LEMMA RemovedIs ==
    ASSUME NEW S, NEW list \in Seq(S), IsInjective(list), NEW i \in DOMAIN list
    PROVE  LET new == RemoveAt(list, i) IN
           /\ new \in Seq(S) /\ IsInjective(new) /\ ToSet(new) \subseteq ToSet(list)
<1>1. DOMAIN list = 1 .. Len(list) /\ Len(list) \in Nat /\ i \in 1 .. Len(list)
    BY ListOfItsOwn
<1>2. PICK new : new = RemoveAt(list, i)
    OBVIOUS
<1>3. /\ new \in Seq(S) /\ Len(new) = Len(list) - 1
      /\ \A k \in 1 .. Len(list) - 1 : new[k] = IF k < i THEN list[k] ELSE list[k + 1]
    BY <1>1, <1>2, Removed
<1>4. DOMAIN new = 1 .. Len(list) - 1
    BY <1>3, ListOfItsOwn
<1>5. \A x, y \in DOMAIN list : list[x] = list[y] => x = y
    BY DEF IsInjective
<1>6. IsInjective(new)
    <2> SUFFICES ASSUME NEW k \in 1 .. Len(list) - 1, NEW l \in 1 .. Len(list) - 1, new[k] = new[l]
                 PROVE  k = l
        BY <1>4 DEF IsInjective
    <2>1. PICK x, y : x = (IF k < i THEN k ELSE k + 1) /\ y = (IF l < i THEN l ELSE l + 1)
        OBVIOUS
    <2>2. x \in DOMAIN list /\ y \in DOMAIN list
        BY <1>1, <2>1
    <2>3. new[k] = list[x] /\ new[l] = list[y]
        BY <1>3, <2>1
    <2>4. x = y
        BY <1>5, <2>2, <2>3
    <2> QED
        BY <1>1, <2>1, <2>4
<1>7. ToSet(new) \subseteq ToSet(list)
    <2> SUFFICES ASSUME NEW k \in 1 .. Len(list) - 1
                 PROVE  new[k] \in ToSet(list)
        BY <1>4 DEF ToSet
    <2>1. PICK x : x = (IF k < i THEN k ELSE k + 1)
        OBVIOUS
    <2>2. x \in DOMAIN list /\ new[k] = list[x]
        BY <1>1, <1>3, <2>1
    <2> QED
        BY <2>2 DEF ToSet
<1> QED
    BY <1>2, <1>3, <1>6, <1>7

LEMMA InsertedIs ==
    ASSUME NEW S, NEW list \in Seq(S), IsInjective(list), NEW i \in 1 .. Len(list) + 1,
           NEW e \in S, e \notin ToSet(list)
    PROVE  LET new == InsertAt(list, i, e) IN
           /\ new \in Seq(S) /\ IsInjective(new) /\ ToSet(new) \subseteq (ToSet(list) \cup {e})
<1>1. DOMAIN list = 1 .. Len(list) /\ Len(list) \in Nat
    BY ListOfItsOwn
<1>2. PICK new : new = InsertAt(list, i, e)
    OBVIOUS
<1>3. /\ new \in Seq(S) /\ Len(new) = Len(list) + 1 /\ new[i] = e
      /\ \A k \in 1 .. i - 1 : new[k] = list[k]
      /\ \A k \in i + 1 .. Len(list) + 1 : new[k] = list[k - 1]
    <2> DEFINE all == InsertAt(list, i, e)
    <2>1. all \in Seq(S) /\ Len(all) = Len(list) + 1 /\ all[i] = e
        BY Inserted
    <2>2. \A k \in 1 .. i - 1 : all[k] = list[k]
        BY Inserted
    <2>3. \A k \in i + 1 .. Len(list) + 1 : all[k] = list[k - 1]
        BY Inserted
    <2> HIDE DEF all
    <2>4. new = all
        BY <1>2 DEF all
    <2> QED
        BY <2>1, <2>2, <2>3, <2>4
<1>4. DOMAIN new = 1 .. Len(list) + 1
    BY <1>3, ListOfItsOwn
<1>5. \A x, y \in DOMAIN list : list[x] = list[y] => x = y
    BY DEF IsInjective
<1>6. ASSUME NEW k \in 1 .. Len(list) + 1, k # i
      PROVE  \E x \in DOMAIN list : x = (IF k < i THEN k ELSE k - 1) /\ new[k] = list[x]
    <2>1. PICK x : x = (IF k < i THEN k ELSE k - 1)
        OBVIOUS
    <2>2. x \in DOMAIN list
        BY <1>1, <1>6, <2>1
    <2>3. new[k] = list[x]
        BY <1>1, <1>3, <1>6, <2>1
    <2> QED
        BY <2>1, <2>2, <2>3
<1>7. \A x \in DOMAIN list : list[x] \in ToSet(list)
    BY DEF ToSet
<1>8. IsInjective(new)
    <2> SUFFICES ASSUME NEW k \in 1 .. Len(list) + 1, NEW l \in 1 .. Len(list) + 1, new[k] = new[l]
                 PROVE  k = l
        BY <1>4 DEF IsInjective
    <2>1. CASE k # i /\ l # i
        <3>1. PICK x \in DOMAIN list : x = (IF k < i THEN k ELSE k - 1) /\ new[k] = list[x]
            BY <1>6, <2>1
        <3>2. PICK y \in DOMAIN list : y = (IF l < i THEN l ELSE l - 1) /\ new[l] = list[y]
            BY <1>6, <2>1
        <3>3. x = y
            BY <1>5, <3>1, <3>2
        <3> QED
            BY <1>1, <2>1, <3>1, <3>2, <3>3
    <2>2. CASE k = i
        BY <1>3, <1>6, <1>7, <2>2
    <2>3. CASE l = i
        BY <1>3, <1>6, <1>7, <2>3
    <2> QED
        BY <2>1, <2>2, <2>3
<1>9. ToSet(new) \subseteq (ToSet(list) \cup {e})
    <2> SUFFICES ASSUME NEW k \in 1 .. Len(list) + 1
                 PROVE  new[k] \in ToSet(list) \/ new[k] = e
        BY <1>4 DEF ToSet
    <2> QED
        BY <1>3, <1>6, <1>7
<1> QED
    BY <1>2, <1>3, <1>8, <1>9

LEMMA IndexOfIs ==
    ASSUME NEW list, NEW e \in ToSet(list)
    PROVE  IndexOf(list, e) \in DOMAIN list
<1>1. \E i \in DOMAIN list : list[i] = e
    BY DEF ToSet
<1> QED
    BY <1>1 DEF IndexOf

\* A chain of the state.
LEMMA ChainOf ==
    ASSUME NEW s, StateFits(s), NEW d \in DOMAIN s.channels
    PROVE  /\ s.channels[d] = [name |-> s.channels[d].name, fx_chain |-> s.channels[d].fx_chain]
           /\ s.channels[d].fx_chain \in Seq(Module) /\ IsInjective(s.channels[d].fx_chain)
           /\ DOMAIN s.channels[d].fx_chain = 1 .. Len(s.channels[d].fx_chain)
           /\ Len(s.channels[d].fx_chain) \in Nat
<1>1. /\ s.channels[d] = [name |-> s.channels[d].name, fx_chain |-> s.channels[d].fx_chain]
      /\ s.channels[d].fx_chain \in Seq(Module) /\ IsInjective(s.channels[d].fx_chain)
    BY DEF StateFits
<1> QED
    BY <1>1, ListOfItsOwn

\* The list of one chain changes.
LEMMA OneChain ==
    ASSUME NEW s, StateFits(s), NEW c, NEW list, c \in DOMAIN s.channels =>
                list \in Seq(Module) /\ IsInjective(list),
           NEW extra, c \in DOMAIN s.channels =>
                ToSet(list) \subseteq (ToSet(s.channels[c].fx_chain) \cup extra),
           NEW modules, NEW focused, NEW t,
           t = [channels |-> [s.channels EXCEPT ![c].fx_chain = list], inputs |-> s.inputs,
                fx_modules |-> modules, focused |-> focused]
    PROVE  IsNext(t, s, c, extra) /\ DOMAIN t.channels = DOMAIN s.channels /\ t.inputs = s.inputs
<1> DEFINE channels == [s.channels EXCEPT ![c].fx_chain = list]
<1>1. t = [channels |-> channels, inputs |-> s.inputs, fx_modules |-> modules, focused |-> focused]
    OBVIOUS
<1>2. DOMAIN channels = DOMAIN s.channels
    OBVIOUS
<1>3. ASSUME NEW d \in DOMAIN s.channels
      PROVE  channels[d] = IF d = c THEN [name |-> s.channels[d].name, fx_chain |-> list]
                           ELSE s.channels[d]
    <2>1. PICK old : old = s.channels[d]
        OBVIOUS
    <2>2. old = [name |-> old.name, fx_chain |-> old.fx_chain]
        BY <2>1, ChainOf
    <2>3. channels[d] = IF d = c THEN [old EXCEPT !.fx_chain = list] ELSE old
        BY <2>1
    <2> HIDE DEF channels
    <2>4. [old EXCEPT !.fx_chain = list] = [name |-> old.name, fx_chain |-> list]
        BY <2>2
    <2> QED
        BY <2>1, <2>3, <2>4
<1> HIDE DEF channels
<1>4. t.channels = channels /\ t.inputs = s.inputs
    BY <1>1
<1>5. ASSUME NEW d \in DOMAIN s.channels
      PROVE  /\ channels[d] = [name |-> channels[d].name, fx_chain |-> channels[d].fx_chain]
             /\ channels[d].fx_chain \in Seq(Module) /\ IsInjective(channels[d].fx_chain)
             /\ \A m \in ToSet(channels[d].fx_chain) :
                    \/ m \in ToSet(s.channels[d].fx_chain)
                    \/ d = c /\ m \in extra
    <2>1. CASE d = c
        <3>1. channels[d] = [name |-> s.channels[d].name, fx_chain |-> list]
            BY <1>3, <2>1
        <3>2. channels[d].fx_chain = list /\ channels[d].name = s.channels[d].name
            BY <3>1
        <3> QED
            BY <2>1, <3>1, <3>2
    <2>2. CASE d # c
        BY <1>3, <2>2, ChainOf
    <2> QED
        BY <2>1, <2>2
<1>6. s.inputs \in Seq(MixerChannel) /\ IsInjective(s.inputs)
    BY DEF StateFits
<1>7. t = [channels |-> t.channels, inputs |-> t.inputs, fx_modules |-> t.fx_modules,
           focused |-> t.focused]
    BY <1>1
<1> QED
    BY <1>2, <1>4, <1>5, <1>6, <1>7 DEF IsNext

\* The chains stay those they are.
LEMMA SameChains ==
    ASSUME NEW s, StateFits(s), NEW t,
           t = [channels |-> t.channels, inputs |-> t.inputs, fx_modules |-> t.fx_modules,
                focused |-> t.focused],
           t.inputs \in Seq(MixerChannel), IsInjective(t.inputs),
           \A d \in DOMAIN t.channels :
                /\ t.channels[d] = [name |-> t.channels[d].name,
                                    fx_chain |-> t.channels[d].fx_chain]
                /\ \/ t.channels[d].fx_chain = <<>>
                   \/ /\ d \in DOMAIN s.channels
                      /\ t.channels[d].fx_chain = s.channels[d].fx_chain
    PROVE  IsNext(t, s, Nothing, {})
<1>1. ASSUME NEW d \in DOMAIN t.channels
      PROVE  /\ t.channels[d].fx_chain \in Seq(Module) /\ IsInjective(t.channels[d].fx_chain)
             /\ \A m \in ToSet(t.channels[d].fx_chain) :
                    d \in DOMAIN s.channels /\ m \in ToSet(s.channels[d].fx_chain)
    <2>1. CASE t.channels[d].fx_chain = <<>>
        <3>1. DOMAIN <<>> = {} /\ <<>> \in Seq(Module)
            OBVIOUS
        <3>2. IsInjective(<<>>) /\ ToSet(<<>>) = {}
            BY <3>1 DEF IsInjective, ToSet
        <3> QED
            BY <2>1, <3>1, <3>2
    <2>2. CASE d \in DOMAIN s.channels /\ t.channels[d].fx_chain = s.channels[d].fx_chain
        BY <2>2, ChainOf
    <2> QED
        BY <2>1, <2>2
<1> QED
    BY <1>1 DEF IsNext

LEMMA StateIs ==
    ASSUME NEW s, StateFits(s)
    PROVE  /\ s = [channels |-> s.channels, inputs |-> s.inputs, fx_modules |-> s.fx_modules,
                   focused |-> s.focused]
           /\ s.inputs \in Seq(MixerChannel) /\ IsInjective(s.inputs)
           /\ DOMAIN s.inputs = 1 .. Len(s.inputs) /\ Len(s.inputs) \in Nat
<1>1. /\ s = [channels |-> s.channels, inputs |-> s.inputs, fx_modules |-> s.fx_modules,
              focused |-> s.focused]
      /\ s.inputs \in Seq(MixerChannel) /\ IsInjective(s.inputs)
    BY DEF StateFits
<1> QED
    BY <1>1, ListOfItsOwn

\* What the reducers make of a state: of those that change no chain.
LEMMA AddsChannel ==
    ASSUME NEW s, StateFits(s), NEW a, a.channel \in MixerChannel,
           a.channel \notin ToSet(s.inputs)
    PROVE  LET t == AddChannel(s, a) IN
           /\ IsNext(t, s, Nothing, {})
           /\ ToSet(t.inputs) \subseteq (ToSet(s.inputs) \cup {a.channel})
<1> DEFINE new == [name |-> a.name, fx_chain |-> <<>>]
           channels == [c \in DOMAIN s.channels \cup {a.channel} |->
                            IF c = a.channel THEN new ELSE s.channels[c]]
           inputs == Append(s.inputs, a.channel)
           t == AddChannel(s, a)
<1>1. t = [s EXCEPT !.channels = channels, !.inputs = inputs]
    BY DEF AddChannel
<1>2. /\ inputs \in Seq(MixerChannel) /\ Len(inputs) = Len(s.inputs) + 1
      /\ \A i \in 1 .. Len(s.inputs) : inputs[i] = s.inputs[i]
      /\ inputs[Len(s.inputs) + 1] = a.channel
    BY StateIs, AppendProperties
<1>3. ASSUME NEW d \in DOMAIN channels
      PROVE  /\ channels[d] = [name |-> channels[d].name, fx_chain |-> channels[d].fx_chain]
             /\ \/ channels[d].fx_chain = <<>>
                \/ d \in DOMAIN s.channels /\ channels[d].fx_chain = s.channels[d].fx_chain
    <2>1. channels[d] = IF d = a.channel THEN new ELSE s.channels[d]
        OBVIOUS
    <2>2. d = a.channel \/ d \in DOMAIN s.channels
        OBVIOUS
    <2>3. new = [name |-> new.name, fx_chain |-> new.fx_chain] /\ new.fx_chain = <<>>
        OBVIOUS
    <2> HIDE DEF channels, new
    <2> QED
        BY <2>1, <2>2, <2>3, ChainOf
<1> HIDE DEF channels, inputs, new, t
<1>4. t = [channels |-> channels, inputs |-> inputs, fx_modules |-> s.fx_modules,
           focused |-> s.focused]
    <2>1. s = [channels |-> s.channels, inputs |-> s.inputs, fx_modules |-> s.fx_modules,
               focused |-> s.focused]
        BY StateIs
    <2> QED
        BY <1>1, <2>1
<1>5. DOMAIN inputs = 1 .. Len(s.inputs) + 1
    BY <1>2, ListOfItsOwn
<1>6. \A i \in DOMAIN s.inputs : s.inputs[i] # a.channel
    BY DEF ToSet
<1>7. IsInjective(inputs)
    <2> SUFFICES ASSUME NEW i \in 1 .. Len(s.inputs) + 1, NEW j \in 1 .. Len(s.inputs) + 1,
                        inputs[i] = inputs[j]
                 PROVE  i = j
        BY <1>5 DEF IsInjective
    <2>1. \A x, y \in DOMAIN s.inputs : s.inputs[x] = s.inputs[y] => x = y
        BY StateIs DEF IsInjective
    <2>2. DOMAIN s.inputs = 1 .. Len(s.inputs) /\ Len(s.inputs) \in Nat
        BY StateIs
    <2>3. \A k \in 1 .. Len(s.inputs) + 1 :
            k # Len(s.inputs) + 1 => k \in DOMAIN s.inputs /\ inputs[k] = s.inputs[k]
        BY <1>2, <2>2
    <2> QED
        BY <1>2, <1>6, <2>1, <2>2, <2>3
<1>8. ToSet(inputs) \subseteq (ToSet(s.inputs) \cup {a.channel})
    <2> SUFFICES ASSUME NEW i \in 1 .. Len(s.inputs) + 1
                 PROVE  inputs[i] \in ToSet(s.inputs) \/ inputs[i] = a.channel
        BY <1>5 DEF ToSet
    <2>1. CASE i = Len(s.inputs) + 1
        BY <1>2, <2>1
    <2>2. CASE i # Len(s.inputs) + 1
        <3>1. i \in DOMAIN s.inputs /\ i \in 1 .. Len(s.inputs)
            BY <2>2, StateIs
        <3> QED
            BY <1>2, <3>1 DEF ToSet
    <2> QED
        BY <2>1, <2>2
<1>9. t.channels = channels /\ t.inputs = inputs /\ t.fx_modules = s.fx_modules
      /\ t.focused = s.focused
    BY <1>4
<1>10. IsNext(t, s, Nothing, {})
    BY <1>2, <1>3, <1>4, <1>7, <1>9, SameChains
<1> QED
    BY <1>8, <1>9, <1>10 DEF t

LEMMA DeletesChannel ==
    ASSUME NEW s, StateFits(s), NEW a, a.channel \in ToSet(s.inputs)
    PROVE  LET t == DeleteChannel(s, a) IN
           IsNext(t, s, Nothing, {}) /\ ToSet(t.inputs) \subseteq ToSet(s.inputs)
<1> DEFINE channels == [c \in DOMAIN s.channels \ {a.channel} |-> s.channels[c]]
           inputs == RemoveAt(s.inputs, IndexOf(s.inputs, a.channel))
           t == DeleteChannel(s, a)
<1>1. t = [s EXCEPT !.channels = channels, !.inputs = inputs]
    BY DEF DeleteChannel
<1>2. IndexOf(s.inputs, a.channel) \in DOMAIN s.inputs
    BY IndexOfIs
<1>3. /\ inputs \in Seq(MixerChannel) /\ IsInjective(inputs)
      /\ ToSet(inputs) \subseteq ToSet(s.inputs)
    BY <1>2, StateIs, RemovedIs
<1>4. \A d \in DOMAIN channels : d \in DOMAIN s.channels /\ channels[d] = s.channels[d]
    OBVIOUS
<1> HIDE DEF channels, inputs, t
<1>5. t = [channels |-> channels, inputs |-> inputs, fx_modules |-> s.fx_modules,
           focused |-> s.focused]
    <2>1. s = [channels |-> s.channels, inputs |-> s.inputs, fx_modules |-> s.fx_modules,
               focused |-> s.focused]
        BY StateIs
    <2> QED
        BY <1>1, <2>1
<1>6. t.channels = channels /\ t.inputs = inputs /\ t.fx_modules = s.fx_modules
      /\ t.focused = s.focused
    BY <1>5
<1>7. \A d \in DOMAIN channels :
        channels[d] = [name |-> channels[d].name, fx_chain |-> channels[d].fx_chain]
    BY <1>4, ChainOf
<1>8. IsNext(t, s, Nothing, {})
    BY <1>3, <1>4, <1>5, <1>6, <1>7, SameChains
<1> QED
    BY <1>3, <1>6, <1>8 DEF t

LEMMA MovesChannel ==
    ASSUME NEW s, StateFits(s), NEW a, a.pos \in 1 .. Len(s.inputs) - 1
    PROVE  LET t == MoveChannel(s, a) IN
           IsNext(t, s, Nothing, {}) /\ ToSet(t.inputs) \subseteq ToSet(s.inputs)
<1> DEFINE inputs == Swapped(s.inputs, a.pos, a.pos + 1)
           t == MoveChannel(s, a)
<1>1. t = [s EXCEPT !.inputs = inputs]
    BY DEF MoveChannel
<1>2. /\ inputs \in Seq(MixerChannel) /\ IsInjective(inputs)
      /\ ToSet(inputs) \subseteq ToSet(s.inputs)
    <2>0. PICK i \in 1 .. Len(s.inputs) - 1 : i = a.pos
        OBVIOUS
    <2>1. PICK j : i = a.pos /\ j = i + 1
        BY <2>0
    <2>2. /\ Swapped(s.inputs, i, j) \in Seq(MixerChannel) /\ IsInjective(Swapped(s.inputs, i, j))
          /\ ToSet(Swapped(s.inputs, i, j)) \subseteq ToSet(s.inputs)
        BY <2>1, StateIs, SwappedIs
    <2> QED
        BY <2>1, <2>2
<1> HIDE DEF inputs, t
<1>3. t = [channels |-> s.channels, inputs |-> inputs, fx_modules |-> s.fx_modules,
           focused |-> s.focused]
    BY <1>1, StateIs
<1>4. t.channels = s.channels /\ t.inputs = inputs /\ t.fx_modules = s.fx_modules
      /\ t.focused = s.focused
    BY <1>3
<1>5. \A d \in DOMAIN s.channels :
        s.channels[d] = [name |-> s.channels[d].name, fx_chain |-> s.channels[d].fx_chain]
    BY ChainOf
<1>6. IsNext(t, s, Nothing, {})
    BY <1>2, <1>3, <1>4, <1>5, SameChains
<1> QED
    BY <1>2, <1>4, <1>6 DEF t

LEMMA NamesChannel ==
    ASSUME NEW s, StateFits(s), NEW a
    PROVE  LET t == SetChannelName(s, a) IN
           IsNext(t, s, Nothing, {}) /\ ToSet(t.inputs) \subseteq ToSet(s.inputs)
<1> DEFINE channels == [s.channels EXCEPT ![a.channel].name = a.name]
           t == SetChannelName(s, a)
<1>1. t = [s EXCEPT !.channels = channels]
    BY DEF SetChannelName
<1>2. ASSUME NEW d \in DOMAIN channels
      PROVE  /\ channels[d] = [name |-> channels[d].name, fx_chain |-> channels[d].fx_chain]
             /\ d \in DOMAIN s.channels /\ channels[d].fx_chain = s.channels[d].fx_chain
    <2>1. PICK old, name : old = s.channels[d] /\ name = a.name
        OBVIOUS
    <2>2. d \in DOMAIN s.channels
        OBVIOUS
    <2>3. old = [name |-> old.name, fx_chain |-> old.fx_chain]
        BY <2>1, <2>2, ChainOf
    <2>4. channels[d] = IF d = a.channel THEN [old EXCEPT !.name = name] ELSE old
        BY <2>1, <2>2
    <2> HIDE DEF channels
    <2>5. [old EXCEPT !.name = name] = [name |-> name, fx_chain |-> old.fx_chain]
        BY <2>3
    <2>6. CASE d = a.channel
        <3>1. channels[d] = [name |-> name, fx_chain |-> old.fx_chain]
            BY <2>4, <2>5, <2>6
        <3> QED
            BY <2>1, <2>2, <3>1
    <2>7. CASE d # a.channel
        BY <2>1, <2>2, <2>3, <2>4, <2>7
    <2> QED
        BY <2>6, <2>7
<1> HIDE DEF channels, t
<1>3. t = [channels |-> channels, inputs |-> s.inputs, fx_modules |-> s.fx_modules,
           focused |-> s.focused]
    BY <1>1, StateIs
<1>4. t.channels = channels /\ t.inputs = s.inputs /\ t.fx_modules = s.fx_modules
      /\ t.focused = s.focused
    BY <1>3
<1>5. IsNext(t, s, Nothing, {})
    BY <1>2, <1>3, <1>4, StateIs, SameChains
<1> QED
    BY <1>4, <1>5 DEF t

LEMMA FocusesModule ==
    ASSUME NEW s, StateFits(s), NEW a
    PROVE  LET t == FocusModule(s, a) IN
           IsNext(t, s, Nothing, {}) /\ ToSet(t.inputs) \subseteq ToSet(s.inputs)
<1> DEFINE focused == [chain |-> a.channel, module |-> a.module]
           t == FocusModule(s, a)
<1>1. t = [s EXCEPT !.focused = focused]
    BY DEF FocusModule
<1> HIDE DEF focused, t
<1>2. t = [channels |-> s.channels, inputs |-> s.inputs, fx_modules |-> s.fx_modules,
           focused |-> focused]
    BY <1>1, StateIs
<1>3. t.channels = s.channels /\ t.inputs = s.inputs /\ t.fx_modules = s.fx_modules
      /\ t.focused = focused
    BY <1>2
<1>4. \A d \in DOMAIN s.channels :
        s.channels[d] = [name |-> s.channels[d].name, fx_chain |-> s.channels[d].fx_chain]
    BY ChainOf
<1>5. IsNext(t, s, Nothing, {})
    BY <1>2, <1>3, <1>4, StateIs, SameChains
<1> QED
    BY <1>3, <1>5 DEF t

\* Of those that change a chain.
LEMMA InsertsModule ==
    ASSUME NEW ui, NEW s, StateFits(s), NEW ids, NEW a, InsertFits(ui, s, ids, a)
    PROVE  LET t == InsertModule(s, a) IN
           IsNext(t, s, a.channel, {a.module}) /\ t.inputs = s.inputs
<1>1. PICK c, m, chain : c = a.channel /\ m = a.module /\ chain = s.channels[c].fx_chain
    OBVIOUS
<1>2. c \in DOMAIN s.channels /\ m \in Module /\ m \notin ToSet(chain) /\ a.pos \in Nat
    BY <1>1 DEF InsertFits, Unseen
<1>3. /\ chain \in Seq(Module) /\ IsInjective(chain) /\ Len(chain) \in Nat
    BY <1>1, <1>2, ChainOf
<1>4. PICK pos : pos = IF a.pos <= Len(chain) THEN a.pos ELSE Len(chain)
    OBVIOUS
<1>5. PICK i : i = pos + 1
    OBVIOUS
<1>6. i \in 1 .. Len(chain) + 1
    BY <1>2, <1>3, <1>4, <1>5
<1>7. PICK list : list = InsertAt(chain, i, m)
    OBVIOUS
<1>8. /\ list \in Seq(Module) /\ IsInjective(list)
      /\ ToSet(list) \subseteq (ToSet(chain) \cup {m})
    BY <1>2, <1>3, <1>6, <1>7, InsertedIs
<1>9. PICK modules, focused :
        /\ modules = s.fx_modules \cup {a.module}
        /\ focused = IF a.show THEN [chain |-> a.channel, module |-> a.module] ELSE s.focused
    OBVIOUS
<1>10. PICK channels, t :
        channels = [s.channels EXCEPT ![c].fx_chain = list] /\ t = InsertModule(s, a)
    OBVIOUS
<1>11. t = [s EXCEPT !.channels[a.channel].fx_chain = InsertAt(chain, pos + 1, a.module),
                     !.fx_modules = modules, !.focused = focused]
    BY <1>1, <1>4, <1>9, <1>10 DEF InsertModule
<1>12. t = [s EXCEPT !.channels = channels, !.fx_modules = modules, !.focused = focused]
    BY <1>1, <1>5, <1>7, <1>10, <1>11
<1>13. t = [channels |-> channels, inputs |-> s.inputs, fx_modules |-> modules,
            focused |-> focused]
    <2>1. s = [channels |-> s.channels, inputs |-> s.inputs, fx_modules |-> s.fx_modules,
               focused |-> s.focused]
        BY StateIs
    <2> QED
        BY <1>12, <2>1
<1>14. t = [channels |-> [s.channels EXCEPT ![c].fx_chain = list], inputs |-> s.inputs,
            fx_modules |-> modules, focused |-> focused]
    BY <1>10, <1>13
<1>15. ToSet(list) \subseteq (ToSet(s.channels[c].fx_chain) \cup {m})
    BY <1>1, <1>8
<1>16. IsNext(t, s, c, {m}) /\ t.inputs = s.inputs
    BY <1>8, <1>14, <1>15, OneChain
<1> QED
    BY <1>1, <1>10, <1>16

LEMMA DeletesModule ==
    ASSUME NEW s, StateFits(s), NEW a, a.channel \in DOMAIN s.channels,
           a.module \in ToSet(s.channels[a.channel].fx_chain)
    PROVE  LET t == DeleteModule(s, a) IN
           /\ IsNext(t, s, a.channel, {}) /\ t.inputs = s.inputs
           /\ DOMAIN t.channels = DOMAIN s.channels
<1>1. PICK c, m, chain : c = a.channel /\ m = a.module /\ chain = s.channels[c].fx_chain
    OBVIOUS
<1>2. c \in DOMAIN s.channels /\ m \in ToSet(chain)
    BY <1>1
<1>3. /\ chain \in Seq(Module) /\ IsInjective(chain) /\ Len(chain) \in Nat
    BY <1>1, <1>2, ChainOf
<1>4. PICK i : i = IndexOf(chain, m)
    OBVIOUS
<1>5. i \in DOMAIN chain
    BY <1>2, <1>4, IndexOfIs
<1>6. PICK list : list = RemoveAt(chain, i)
    OBVIOUS
<1>7. /\ list \in Seq(Module) /\ IsInjective(list) /\ ToSet(list) \subseteq ToSet(chain)
    BY <1>3, <1>5, <1>6, RemovedIs
<1>8. PICK modules, focused :
        /\ modules = s.fx_modules \ {a.module}
        /\ focused = CASE s.focused.module # a.module -> s.focused
                       [] Len(chain) = 1 -> [chain |-> Nothing, module |-> Nothing]
                       [] OTHER -> [s.focused EXCEPT !.module =
                                        chain[IF i < Len(chain) THEN i + 1 ELSE i - 1]]
    OBVIOUS
<1>9. PICK channels, t :
        channels = [s.channels EXCEPT ![c].fx_chain = list] /\ t = DeleteModule(s, a)
    OBVIOUS
<1>10. t = [s EXCEPT !.channels[a.channel].fx_chain = RemoveAt(chain, i),
                     !.fx_modules = modules, !.focused = focused]
    BY <1>1, <1>4, <1>8, <1>9 DEF DeleteModule
<1>11. t = [s EXCEPT !.channels = channels, !.fx_modules = modules, !.focused = focused]
    BY <1>1, <1>6, <1>9, <1>10
<1>12. t = [channels |-> channels, inputs |-> s.inputs, fx_modules |-> modules,
            focused |-> focused]
    <2>1. s = [channels |-> s.channels, inputs |-> s.inputs, fx_modules |-> s.fx_modules,
               focused |-> s.focused]
        BY StateIs
    <2> QED
        BY <1>11, <2>1
<1>13. t = [channels |-> [s.channels EXCEPT ![c].fx_chain = list], inputs |-> s.inputs,
            fx_modules |-> modules, focused |-> focused]
    BY <1>9, <1>12
<1>14. ToSet(list) \subseteq (ToSet(s.channels[c].fx_chain) \cup {})
    BY <1>1, <1>7
<1>15. /\ IsNext(t, s, c, {}) /\ t.inputs = s.inputs
       /\ DOMAIN t.channels = DOMAIN s.channels
    BY <1>7, <1>13, <1>14, OneChain
<1> QED
    BY <1>1, <1>9, <1>15

LEMMA MovesModule ==
    ASSUME NEW s, StateFits(s), NEW a,
           s.focused.chain \in DOMAIN s.channels =>
                a.pos \in 1 .. Len(s.channels[s.focused.chain].fx_chain) - 1
    PROVE  LET t == MoveModule(s, a) IN
           IsNext(t, s, s.focused.chain, {}) /\ t.inputs = s.inputs
<1>1. PICK c, chain : c = s.focused.chain /\ chain = s.channels[c].fx_chain
    OBVIOUS
<1>2. PICK i, j : i = a.pos /\ j = a.pos + 1
    OBVIOUS
<1>3. PICK list : list = Swapped(chain, i, j)
    OBVIOUS
<1>4. ASSUME c \in DOMAIN s.channels
      PROVE  list \in Seq(Module) /\ IsInjective(list) /\ ToSet(list) \subseteq ToSet(chain)
    <2>1. chain \in Seq(Module) /\ IsInjective(chain)
        BY <1>1, <1>4, ChainOf
    <2>2. i \in 1 .. Len(chain) - 1 /\ j = i + 1
        BY <1>1, <1>2, <1>4
    <2> QED
        BY <1>3, <2>1, <2>2, SwappedIs
<1>5. PICK channels, t :
        channels = [s.channels EXCEPT ![c].fx_chain = list] /\ t = MoveModule(s, a)
    OBVIOUS
<1>6. t = [s EXCEPT !.channels[c].fx_chain = list]
    BY <1>1, <1>2, <1>3, <1>5 DEF MoveModule
<1>7. t = [s EXCEPT !.channels = channels]
    BY <1>5, <1>6
<1>8. t = [channels |-> channels, inputs |-> s.inputs, fx_modules |-> s.fx_modules,
           focused |-> s.focused]
    <2>1. s = [channels |-> s.channels, inputs |-> s.inputs, fx_modules |-> s.fx_modules,
               focused |-> s.focused]
        BY StateIs
    <2> QED
        BY <1>7, <2>1
<1>9. t = [channels |-> [s.channels EXCEPT ![c].fx_chain = list], inputs |-> s.inputs,
           fx_modules |-> s.fx_modules, focused |-> s.focused]
    BY <1>5, <1>8
<1>10. c \in DOMAIN s.channels => ToSet(list) \subseteq (ToSet(s.channels[c].fx_chain) \cup {})
    BY <1>1, <1>4
<1>11. IsNext(t, s, c, {}) /\ t.inputs = s.inputs
    BY <1>4, <1>9, <1>10, OneChain
<1> QED
    BY <1>1, <1>5, <1>11

\* Whatever action is reduced, the state and the views still fit.
LEMMA ReducedFits ==
    ASSUME NEW ui, NEW s, NEW ids, StateFits(s), ChainsFit(ui, s), UsedFits(ui, s, ids),
           NEW a, ActionFits(ui, s, ids, a)
    PROVE  LET t == Reduced(s, a) IN
           /\ StateFits(t) /\ ChainsFit(ui, t) /\ UsedFits(ui, t, ids)
           /\ a.do = "delete_module" =>
                \A b : InsertFits(ui, s, ids, b) => InsertFits(ui, t, ids, b)
           /\ a.do # "thunk"
<1>1. PICK t : t = Reduced(s, a)
    OBVIOUS
<1>2. ToSet(s.inputs) \subseteq ids
    BY DEF UsedFits
<1>3. ASSUME NEW c, IsNext(t, s, c, {}), ToSet(t.inputs) \subseteq ids
      PROVE  /\ StateFits(t) /\ ChainsFit(ui, t) /\ UsedFits(ui, t, ids)
             /\ \A m : Unseen(ui, s, m) => Unseen(ui, t, m)
    <2>1. /\ StateFits(t) /\ ChainsFit(ui, t) /\ UsedFits(ui, t, ids)
          /\ \A m : Unseen(ui, s, m) /\ m \notin {} => Unseen(ui, t, m)
        BY <1>3, NextFits
    <2> QED
        BY <2>1
<1>4. CASE a.do = "add_channel"
    <2>1. t = AddChannel(s, a)
        BY <1>1, <1>4 DEF Reduced
    <2>2. a.channel \in MixerChannel /\ a.channel \notin ToSet(s.inputs) /\ a.channel \in ids
        BY <1>4 DEF ActionFits
    <2>3. /\ IsNext(t, s, Nothing, {})
          /\ ToSet(t.inputs) \subseteq (ToSet(s.inputs) \cup {a.channel})
        BY <2>1, <2>2, AddsChannel
    <2>4. ToSet(t.inputs) \subseteq ids
        BY <1>2, <2>2, <2>3
    <2> QED
        BY <1>1, <1>3, <1>4, <2>3, <2>4
<1>5. CASE a.do = "delete_channel"
    <2>1. t = DeleteChannel(s, a)
        BY <1>1, <1>5 DEF Reduced
    <2>2. a.channel \in ToSet(s.inputs)
        BY <1>5 DEF ActionFits
    <2>3. IsNext(t, s, Nothing, {}) /\ ToSet(t.inputs) \subseteq ToSet(s.inputs)
        BY <2>1, <2>2, DeletesChannel
    <2>4. ToSet(t.inputs) \subseteq ids
        BY <1>2, <2>3
    <2> QED
        BY <1>1, <1>3, <1>5, <2>3, <2>4
<1>6. CASE a.do = "move_channel"
    <2>1. t = MoveChannel(s, a)
        BY <1>1, <1>6 DEF Reduced
    <2>2. a.pos \in 1 .. Len(s.inputs) - 1
        BY <1>6 DEF ActionFits
    <2>3. IsNext(t, s, Nothing, {}) /\ ToSet(t.inputs) \subseteq ToSet(s.inputs)
        BY <2>1, <2>2, MovesChannel
    <2>4. ToSet(t.inputs) \subseteq ids
        BY <1>2, <2>3
    <2> QED
        BY <1>1, <1>3, <1>6, <2>3, <2>4
<1>7. CASE a.do = "set_channel_name"
    <2>1. t = SetChannelName(s, a)
        BY <1>1, <1>7 DEF Reduced
    <2>2. IsNext(t, s, Nothing, {}) /\ ToSet(t.inputs) \subseteq ToSet(s.inputs)
        BY <2>1, NamesChannel
    <2>3. ToSet(t.inputs) \subseteq ids
        BY <1>2, <2>2
    <2> QED
        BY <1>1, <1>3, <1>7, <2>2, <2>3
<1>8. CASE a.do = "insert_module"
    <2>1. t = InsertModule(s, a)
        BY <1>1, <1>8 DEF Reduced
    <2>2. InsertFits(ui, s, ids, a)
        BY <1>8 DEF ActionFits
    <2>3. IsNext(t, s, a.channel, {a.module}) /\ t.inputs = s.inputs
        BY <2>1, <2>2, InsertsModule
    <2>4. \A m \in {a.module} : Unseen(ui, s, m) /\ m \in ids
        BY <2>2 DEF InsertFits
    <2>5. ToSet(t.inputs) \subseteq ids
        BY <1>2, <2>3
    <2>6. StateFits(t) /\ ChainsFit(ui, t) /\ UsedFits(ui, t, ids)
        BY <2>3, <2>4, <2>5, NextFits
    <2> QED
        BY <1>1, <1>8, <2>6
<1>9. CASE a.do = "delete_module"
    <2>1. t = DeleteModule(s, a)
        BY <1>1, <1>9 DEF Reduced
    <2>2. a.channel \in DOMAIN s.channels /\ a.module \in ToSet(s.channels[a.channel].fx_chain)
        BY <1>9 DEF ActionFits
    <2>3. /\ IsNext(t, s, a.channel, {}) /\ t.inputs = s.inputs
          /\ DOMAIN t.channels = DOMAIN s.channels
        BY <2>1, <2>2, DeletesModule
    <2>4. ToSet(t.inputs) \subseteq ids
        BY <1>2, <2>3
    <2>5. /\ StateFits(t) /\ ChainsFit(ui, t) /\ UsedFits(ui, t, ids)
          /\ \A m : Unseen(ui, s, m) => Unseen(ui, t, m)
        BY <1>3, <2>3, <2>4
    <2>6. \A b : InsertFits(ui, s, ids, b) => InsertFits(ui, t, ids, b)
        BY <2>3, <2>5 DEF InsertFits
    <2> QED
        BY <1>1, <1>9, <2>5, <2>6
<1>10. CASE a.do = "move_module"
    <2>1. t = MoveModule(s, a)
        BY <1>1, <1>10 DEF Reduced
    <2>2. s.focused.chain \in DOMAIN s.channels =>
            a.pos \in 1 .. Len(s.channels[s.focused.chain].fx_chain) - 1
        BY <1>10 DEF ActionFits
    <2>3. IsNext(t, s, s.focused.chain, {}) /\ t.inputs = s.inputs
        BY <2>1, <2>2, MovesModule
    <2>4. ToSet(t.inputs) \subseteq ids
        BY <1>2, <2>3
    <2> QED
        BY <1>1, <1>3, <1>10, <2>3, <2>4
<1>11. CASE a.do = "focus_module"
    <2>1. t = FocusModule(s, a)
        BY <1>1, <1>11 DEF Reduced
    <2>2. IsNext(t, s, Nothing, {}) /\ ToSet(t.inputs) \subseteq ToSet(s.inputs)
        BY <2>1, FocusesModule
    <2>3. ToSet(t.inputs) \subseteq ids
        BY <1>2, <2>2
    <2> QED
        BY <1>1, <1>3, <1>11, <2>2, <2>3
<1>12. a.do \in {"add_channel", "delete_channel", "move_channel", "set_channel_name",
                 "insert_module", "delete_module", "move_module", "focus_module"}
    BY DEF ActionFits
<1> QED
    BY <1>4, <1>5, <1>6, <1>7, <1>8, <1>9, <1>10, <1>11, <1>12

-----------------------------------------------------------------------------
(* The store. *)

LEMMA OneBatch ==
    ASSUME NEW ui, NEW s, NEW ids, NEW a, ActionFits(ui, s, ids, a)
    PROVE  BatchFits(ui, s, ids, <<a>>)
<1>1. a \in ToSet(<<a>>)
    BY DEF ToSet
<1> QED
    BY <1>1 DEF BatchFits

LEMMA TwoBatch ==
    ASSUME NEW ui, NEW s, NEW ids, NEW a, ActionFits(ui, s, ids, a), a.do = "delete_module",
           NEW b, InsertFits(ui, s, ids, b)
    PROVE  BatchFits(ui, s, ids, <<a, b>>)
<1>1. a \in ToSet(<<a, b>>) /\ b \in ToSet(<<a, b>>)
    <2>1. DOMAIN <<a, b>> = 1 .. 2 /\ <<a, b>>[1] = a /\ <<a, b>>[2] = b
        OBVIOUS
    <2> QED
        BY <2>1 DEF ToSet
<1> QED
    BY <1>1 DEF BatchFits

\* A batch, or the thunk that dispatches it.
IsDispatched(ui, s, ids, batch) ==
    \/ BatchFits(ui, s, ids, batch)
    \/ \E dispatches : batch = Thunk(dispatches) /\ BatchFits(ui, s, ids, dispatches)

LEMMA OneQueue ==
    ASSUME NEW ui, NEW s, NEW ids, NEW batch, IsDispatched(ui, s, ids, batch)
    PROVE  QueueFits(ui, s, ids, <<batch>>)
<1>1. batch \in ToSet(<<batch>>)
    BY DEF ToSet
<1>2. ASSUME NEW dispatches, batch = Thunk(dispatches), BatchFits(ui, s, ids, dispatches)
      PROVE  QueueFits(ui, s, ids, <<batch>>)
    <2>1. PICK a : a = [do |-> "thunk", dispatches |-> dispatches]
        OBVIOUS
    <2>2. a.do = "thunk" /\ a.dispatches = dispatches
        BY <2>1
    <2>3. batch[1] = a
        BY <1>2, <2>1 DEF Thunk
    <2> QED
        BY <1>1, <1>2, <2>2, <2>3 DEF QueueFits
<1>3. CASE BatchFits(ui, s, ids, batch)
    BY <1>1, <1>3 DEF QueueFits
<1> QED
    BY <1>2, <1>3 DEF IsDispatched

\* The next in the queue is a thunk, or one or two actions.
LEMMA QueueIs ==
    ASSUME NEW ui, NEW s, NEW ids, NEW list, QueueFits(ui, s, ids, list), list # <<>>
    PROVE  \E batch : list = <<batch>> /\ IsDispatched(ui, s, ids, batch)
<1>1. PICK batch \in ToSet(list) :
        /\ list = <<batch>>
        /\ \/ BatchFits(ui, s, ids, batch)
           \/ batch[1].do = "thunk" /\ batch = Thunk(batch[1].dispatches)
              /\ BatchFits(ui, s, ids, batch[1].dispatches)
    BY DEF QueueFits
<1>2. IsDispatched(ui, s, ids, batch)
    BY <1>1 DEF IsDispatched
<1> QED
    BY <1>1, <1>2

LEMMA BatchStarts ==
    ASSUME NEW ui, NEW s, NEW ids, StateFits(s), ChainsFit(ui, s), UsedFits(ui, s, ids),
           NEW batch, BatchFits(ui, s, ids, batch)
    PROVE  /\ batch[1].do # "thunk" /\ batch # <<>>
           /\ LET t == Reduced(s, batch[1]) IN
              /\ StateFits(t) /\ ChainsFit(ui, t) /\ UsedFits(ui, t, ids)
              /\ Tail(batch) # <<>> => BatchFits(ui, t, ids, Tail(batch))
<1>1. CASE \E a \in ToSet(batch) : batch = <<a>> /\ ActionFits(ui, s, ids, a)
    <2>1. PICK a : batch = <<a>> /\ ActionFits(ui, s, ids, a)
        BY <1>1
    <2>2. batch[1] = a /\ Tail(batch) = <<>> /\ batch # <<>>
        BY <2>1
    <2>3. PICK t : t = Reduced(s, a)
        OBVIOUS
    <2>4. StateFits(t) /\ ChainsFit(ui, t) /\ UsedFits(ui, t, ids) /\ a.do # "thunk"
        BY <2>1, <2>3, ReducedFits
    <2> QED
        BY <2>2, <2>3, <2>4
<1>2. CASE \E a, b \in ToSet(batch) :
           /\ batch = <<a, b>> /\ a.do = "delete_module" /\ ActionFits(ui, s, ids, a)
           /\ InsertFits(ui, s, ids, b)
    <2>1. PICK a, b : /\ batch = <<a, b>> /\ a.do = "delete_module"
                      /\ ActionFits(ui, s, ids, a) /\ InsertFits(ui, s, ids, b)
        BY <1>2
    <2>2. batch[1] = a /\ batch # <<>>
        BY <2>1
    <2>3. Tail(batch) = <<b>>
        <3>1. batch \in Seq({a, b}) /\ Len(batch) = 2 /\ batch[2] = b
            BY <2>1
        <3>2. PICK tail : tail = Tail(batch)
            OBVIOUS
        <3>3. /\ tail \in Seq({a, b}) /\ Len(tail) = Len(batch) - 1
              /\ \A i \in 1 .. Len(tail) : tail[i] = batch[i + 1]
            BY <2>2, <3>1, <3>2, HeadTailProperties
        <3>4. Len(tail) = 1 /\ tail[1] = b
            BY <3>1, <3>3
        <3>5. <<b>> \in Seq({a, b}) /\ Len(<<b>>) = 1 /\ <<b>>[1] = b
            OBVIOUS
        <3>6. tail = <<b>>
            BY <3>3, <3>4, <3>5, SeqEqual
        <3> QED
            BY <3>2, <3>6
    <2>4. PICK t : t = Reduced(s, a)
        OBVIOUS
    <2>5. /\ StateFits(t) /\ ChainsFit(ui, t) /\ UsedFits(ui, t, ids) /\ a.do # "thunk"
          /\ InsertFits(ui, t, ids, b)
        BY <2>1, <2>4, ReducedFits
    <2>6. ActionFits(ui, t, ids, b)
        BY <2>5 DEF ActionFits, InsertFits
    <2>7. BatchFits(ui, t, ids, <<b>>)
        BY <2>6, OneBatch
    <2> QED
        BY <2>2, <2>3, <2>4, <2>5, <2>7
<1> QED
    BY <1>1, <1>2 DEF BatchFits

\* More ids may be given.
LEMMA UsedMore ==
    ASSUME NEW ui, NEW s, NEW ids, UsedFits(ui, s, ids), NEW all, ids \subseteq all
    PROVE  UsedFits(ui, s, all)
<1>1. \A o \in DOMAIN ui.rows \ {mixer} : ToSet(ui.shown[o]["chain"]) \subseteq all
    BY DEF UsedFits
<1>2. \A c \in DOMAIN s.channels : ToSet(s.channels[c].fx_chain) \subseteq all
    BY DEF UsedFits
<1>3. ToSet(s.inputs) \subseteq all
    BY DEF UsedFits
<1> QED
    BY <1>1, <1>2, <1>3 DEF UsedFits

LEMMA NotUsed ==
    ASSUME NEW ui, NEW s, NEW ids, UsedFits(ui, s, ids), NEW m, m \notin ids
    PROVE  Unseen(ui, s, m) /\ m \notin ToSet(s.inputs)
<1>1. \A o \in DOMAIN ui.rows \ {mixer} : m \notin ToSet(ui.shown[o]["chain"])
    BY DEF UsedFits
<1>2. \A c \in DOMAIN s.channels : m \notin ToSet(s.channels[c].fx_chain)
    BY DEF UsedFits
<1>3. m \notin ToSet(s.inputs)
    BY DEF UsedFits
<1> QED
    BY <1>1, <1>2, <1>3 DEF Unseen

LEMMA UiIs ==
    /\ IsUi(Ui) /\ Ui.shown = shown /\ Ui.rows = rows /\ Ui.subscribed = subscribed
    /\ Ui.slots = slots /\ Ui.calls = calls
BY DEF Ui, IsUi

LEMMA BecomesIs ==
    ASSUME NEW ui, IsUi(ui), Becomes(ui)
    PROVE  Ui' = ui
<1>1. /\ shown' = ui.shown /\ rows' = ui.rows /\ subscribed' = ui.subscribed
      /\ slots' = ui.slots /\ calls' = ui.calls
    BY DEF Becomes
<1> QED
    BY <1>1 DEF Ui, IsUi

\* What is left of the views when all is known of the next state.
LEMMA HoldsNext ==
    ASSUME NEW ui, ui = Ui', NEW s, s = st', NEW ids, ids = used', NEW list, list = queue',
           ViewsHold(ui, s, ids, list), stray' = FALSE
    PROVE  ViewsInv'
BY DEF ViewsInv

LEMMA Dispatched ==
    ASSUME ViewsInv, NEW batch, NEW ids, Dispatch(batch, ids),
           IsDispatched(Ui, st, used \cup ids, batch)
    PROVE  ViewsInv'
<1>1. PICK ui, s, all, list : ui = Ui /\ s = st /\ all = used \cup ids /\ list = <<batch>>
    OBVIOUS
<1>2. /\ UiFits(ui) /\ SlotsFit(ui) /\ CallsFit(ui)
      /\ StateFits(s) /\ ChainsFit(ui, s) /\ UsedFits(ui, s, used) /\ stray = FALSE
    BY <1>1 DEF ViewsInv, ViewsHold
<1>3. UsedFits(ui, s, all)
    BY <1>1, <1>2, UsedMore
<1>4. QueueFits(ui, s, all, list)
    BY <1>1, OneQueue
<1>5. ui.calls = <<>> /\ list # <<>>
    BY <1>1, UiIs DEF Dispatch, Idle
<1>6. ViewsHold(ui, s, all, list)
    BY <1>2, <1>3, <1>4, <1>5 DEF ViewsHold
<1>7. st' = s /\ used' = all /\ queue' = list /\ uiVars' = uiVars
    BY <1>1 DEF Dispatch
<1>8. Ui' = ui /\ stray' = FALSE
    BY <1>1, <1>2, <1>7 DEF Ui, uiVars
<1> QED
    BY <1>6, <1>7, <1>8, HoldsNext

-----------------------------------------------------------------------------
(* The steps. *)

\* Nothing is there at first but the mixer and the strip of its main channel.
LEMMA InitHolds ==
    ViewsInit => ViewsInv
<1> SUFFICES ASSUME ViewsInit PROVE ViewsInv
    OBVIOUS
<1>1. PICK inputs \in Inputs, chain \in Chains :
        /\ st = [channels |-> [c \in ToSet(inputs) \cup {Main} |->
                      [name |-> Nothing, fx_chain |-> IF c = Main THEN chain ELSE <<>>]],
                 inputs |-> inputs, fx_modules |-> ToSet(chain),
                 focused |-> [chain |-> Nothing, module |-> Nothing]]
        /\ used = ToSet(inputs) \cup ToSet(chain)
    BY DEF ViewsInit
<1>2. PICK ui, s, channels :
        /\ ui = Ui /\ s = st
        /\ channels = [c \in ToSet(inputs) \cup {Main} |->
                          [name |-> Nothing, fx_chain |-> IF c = Main THEN chain ELSE <<>>]]
    OBVIOUS
<1>3. /\ inputs \in Seq(MixerChannel) /\ IsInjective(inputs)
      /\ chain \in Seq(Module) /\ IsInjective(chain)
    BY ViewsAssumption
<1>4. /\ DOMAIN <<>> = {} /\ <<>> \in Seq(Module) /\ <<>> \in Seq(MixerChannel)
      /\ <<>> \in Seq(ToSet(<<>>)) /\ ToSet(<<>>) = {} /\ IsInjective(<<>>)
    <2>1. DOMAIN <<>> = {} /\ \A S : <<>> \in Seq(S)
        OBVIOUS
    <2> QED
        BY <2>1 DEF ToSet, IsInjective
<1>5. /\ queue = <<>> /\ shown = [o \in {mixer, main_strip} |-> Fresh(o)]
      /\ rows = [o \in {mixer, main_strip} |-> <<>>]
      /\ subscribed = {} /\ slots = <<>> /\ calls = <<>> /\ stray = FALSE
    BY DEF ViewsInit
<1>6. /\ IsUi(ui) /\ DOMAIN ui.shown = {mixer, main_strip}
      /\ DOMAIN ui.rows = {mixer, main_strip}
      /\ \A o \in {mixer, main_strip} : ui.shown[o] = Fresh(o) /\ ui.rows[o] = <<>>
      /\ ui.subscribed = {} /\ ui.slots = <<>> /\ ui.calls = <<>>
    BY <1>2, <1>5, UiIs
<1>7. /\ mixer.kind = "mixer" /\ main_strip.kind = "strip"
      /\ mixer \in Models /\ main_strip \in Models
    BY DEF mixer, main_strip, Models
<1>8. \A o \in {mixer, main_strip} : ui.shown[o][ListOf(o)] = <<>> /\ Ids(ui.rows[o]) = <<>>
    BY <1>6, <1>7, FreshIs, NoIds
<1>9. ui.shown[main_strip]["chain"] = <<>>
    BY <1>6, <1>7, FreshIs
<1>10. TreeFits(ui)
    <2>1. DOMAIN ui.rows = {o \in DOMAIN ui.shown : o.kind # "entry"}
        BY <1>6, <1>7
    <2>2. \A o \in DOMAIN ui.rows : ui.rows[o] \in Seq(DOMAIN ui.shown \cap RowsOf(o))
        <3>1. \A S : <<>> \in Seq(S)
            OBVIOUS
        <3> QED
            BY <1>6, <3>1
    <2>3. \A o \in DOMAIN ui.rows : DOMAIN ui.rows[o] = {}
        BY <1>4, <1>6
    <2> QED
        BY <1>6, <1>7, <2>1, <2>2, <2>3 DEF TreeFits
<1>11. ShownFits(ui)
    <2>1. \A o \in DOMAIN ui.shown : DOMAIN ui.shown[o] = Whats(o)
        BY <1>6, FreshIs
    <2>2. \A o \in DOMAIN ui.rows :
            /\ ui.shown[o][ListOf(o)] \in Seq(IdsOf(o)) /\ IsInjective(ui.shown[o][ListOf(o)])
            /\ Ids(ui.rows[o]) = ui.shown[o][ListOf(o)]
        BY <1>4, <1>6, <1>8 DEF IdsOf
    <2>3. \A o \in DOMAIN ui.rows \ {mixer} : o = main_strip
        BY <1>6
    <2> QED
        BY <2>1, <2>2, <2>3 DEF ShownFits
<1>12. SlotsFit(ui)
    BY <1>4, <1>6 DEF SlotsFit
<1>13. CallsFit(ui)
    BY <1>4, <1>6 DEF CallsFit
<1>14. s = [channels |-> channels, inputs |-> inputs, fx_modules |-> ToSet(chain),
            focused |-> [chain |-> Nothing, module |-> Nothing]]
    BY <1>1, <1>2
<1>15. s.channels = channels /\ s.inputs = inputs
    BY <1>14
<1>16. ASSUME NEW c \in DOMAIN channels
       PROVE  /\ channels[c] = [name |-> channels[c].name, fx_chain |-> channels[c].fx_chain]
              /\ channels[c].fx_chain = IF c = Main THEN chain ELSE <<>>
    <2>1. PICK list : list = IF c = Main THEN chain ELSE <<>>
        OBVIOUS
    <2>2. channels[c] = [name |-> Nothing, fx_chain |-> list]
        BY <1>2, <2>1
    <2>3. channels[c].fx_chain = list /\ channels[c].name = Nothing
        BY <2>2
    <2> QED
        BY <2>1, <2>2, <2>3
<1>17. StateFits(s)
    <2>1. s = [channels |-> s.channels, inputs |-> s.inputs, fx_modules |-> s.fx_modules,
               focused |-> s.focused]
        BY <1>14
    <2>2. \A c \in DOMAIN channels :
            channels[c].fx_chain \in Seq(Module) /\ IsInjective(channels[c].fx_chain)
        BY <1>3, <1>4, <1>16
    <2>3. \A c \in DOMAIN channels : ToSet(channels[c].fx_chain) # {} => c = Main
        BY <1>4, <1>16
    <2>4. \A c, d \in DOMAIN channels :
            ToSet(channels[c].fx_chain) \cap ToSet(channels[d].fx_chain) # {} => c = d
        BY <2>3
    <2> QED
        BY <1>3, <1>15, <1>16, <2>1, <2>2, <2>4 DEF StateFits
<1>18. ChainsFit(ui, s)
    BY <1>4, <1>6, <1>9 DEF ChainsFit
<1>19. UsedFits(ui, s, used)
    <2>1. \A c \in DOMAIN channels : ToSet(channels[c].fx_chain) \subseteq used
        BY <1>1, <1>4, <1>16
    <2>2. \A o \in DOMAIN ui.rows \ {mixer} : ToSet(ui.shown[o]["chain"]) = {}
        BY <1>4, <1>6, <1>9
    <2> QED
        BY <1>1, <1>15, <2>1, <2>2 DEF UsedFits
<1>20. SlotsFollow(ui, s) /\ QueueFits(ui, s, used, queue)
    BY <1>4, <1>5, <1>6 DEF SlotsFollow, QueueFits
<1>21. ViewsHold(ui, s, used, queue)
    BY <1>5, <1>6, <1>10, <1>11, <1>12, <1>13, <1>17, <1>18, <1>19, <1>20
        DEF ViewsHold, UiFits
<1> QED
    BY <1>2, <1>5, <1>21 DEF ViewsInv

LEMMA RunThunkHolds ==
    ASSUME ViewsInv, RunThunk
    PROVE  ViewsInv'
<1>1. PICK ui, s, ids, list : ui = Ui /\ s = st /\ ids = used /\ list = queue
    OBVIOUS
<1>2. ViewsHold(ui, s, ids, list) /\ stray = FALSE
    BY <1>1 DEF ViewsInv
<1>3. list # <<>> /\ Head(Head(list)).do = "thunk"
    BY <1>1 DEF RunThunk
<1>4. PICK batch : list = <<batch>> /\ IsDispatched(ui, s, ids, batch)
    BY <1>2, <1>3, QueueIs DEF ViewsHold
<1>5. Head(list) = batch /\ Tail(list) = <<>>
    BY <1>4
<1>6. ~BatchFits(ui, s, ids, batch)
    <2> SUFFICES ASSUME BatchFits(ui, s, ids, batch) PROVE FALSE
        OBVIOUS
    <2>1. batch[1].do # "thunk"
        BY <1>2, BatchStarts DEF ViewsHold
    <2>2. Head(batch) = batch[1]
        OBVIOUS
    <2> QED
        BY <1>3, <1>5, <2>1, <2>2
<1>7. PICK dispatches : batch = Thunk(dispatches) /\ BatchFits(ui, s, ids, dispatches)
    BY <1>4, <1>6 DEF IsDispatched
<1>8. Head(batch).dispatches = dispatches
    BY <1>7 DEF Thunk
<1>9. PICK next : next = <<dispatches>>
    OBVIOUS
<1>10. queue' = next
    <2>1. queue' = Append(Tail(list), Head(Head(list)).dispatches)
        BY <1>1 DEF RunThunk
    <2>2. Append(<<>>, dispatches) = <<dispatches>>
        OBVIOUS
    <2> QED
        BY <1>5, <1>8, <1>9, <2>1, <2>2
<1>11. QueueFits(ui, s, ids, next)
    <2>1. IsDispatched(ui, s, ids, dispatches)
        BY <1>7 DEF IsDispatched
    <2> QED
        BY <1>9, <2>1, OneQueue
<1>12. ui.calls = <<>> /\ next # <<>>
    BY <1>1, <1>9, UiIs DEF RunThunk
<1>13. ViewsHold(ui, s, ids, next)
    BY <1>2, <1>11, <1>12 DEF ViewsHold
<1>14. st' = s /\ used' = ids /\ Ui' = ui /\ stray' = FALSE
    BY <1>1, <1>2 DEF RunThunk, uiVars, Ui
<1> QED
    BY <1>10, <1>13, <1>14, HoldsNext

LEMMA ReduceActionHolds ==
    ASSUME ViewsInv, ReduceAction
    PROVE  ViewsInv'
<1>1. PICK ui, s, ids, list : ui = Ui /\ s = st /\ ids = used /\ list = queue
    OBVIOUS
<1>2. ViewsHold(ui, s, ids, list) /\ stray = FALSE
    BY <1>1 DEF ViewsInv
<1>3. list # <<>> /\ Head(Head(list)).do # "thunk"
    BY <1>1 DEF ReduceAction
<1>4. PICK batch : list = <<batch>> /\ IsDispatched(ui, s, ids, batch)
    BY <1>2, <1>3, QueueIs DEF ViewsHold
<1>5. Head(list) = batch /\ Tail(list) = <<>> /\ Head(batch) = batch[1]
    BY <1>4
<1>6. BatchFits(ui, s, ids, batch)
    <2> SUFFICES ASSUME NEW dispatches, batch = Thunk(dispatches) PROVE FALSE
        BY <1>4 DEF IsDispatched
    <2>1. PICK a : a = [do |-> "thunk", dispatches |-> dispatches]
        OBVIOUS
    <2>2. a.do = "thunk" /\ batch[1] = a
        BY <2>1 DEF Thunk
    <2> QED
        BY <1>3, <1>5, <2>2
<1>7. PICK t, rest : t = Reduced(s, batch[1]) /\ rest = Tail(batch)
    OBVIOUS
<1>8. /\ StateFits(t) /\ ChainsFit(ui, t) /\ UsedFits(ui, t, ids)
      /\ rest # <<>> => BatchFits(ui, t, ids, rest)
    BY <1>2, <1>6, <1>7, BatchStarts DEF ViewsHold
<1>9. st' = t /\ used' = ids /\ stray' = FALSE
    BY <1>1, <1>2, <1>5, <1>7 DEF ReduceAction
<1>10. PICK new : new = Ui'
    OBVIOUS
<1>11. SameButCalls(new, ui) /\ new.calls = calls'
    <2>1. Ui' = [shown |-> ui.shown, rows |-> ui.rows, subscribed |-> ui.subscribed,
                 slots |-> ui.slots, calls |-> calls']
        <3>1. shown' = shown /\ rows' = rows /\ subscribed' = subscribed /\ slots' = slots
            BY DEF ReduceAction
        <3> QED
            BY <1>1, <3>1, UiIs DEF Ui
    <2>2. PICK now : now = calls'
        OBVIOUS
    <2>3. new = [shown |-> ui.shown, rows |-> ui.rows, subscribed |-> ui.subscribed,
                 slots |-> ui.slots, calls |-> now]
        BY <1>10, <2>1, <2>2
    <2>4. /\ new.shown = ui.shown /\ new.rows = ui.rows /\ new.subscribed = ui.subscribed
          /\ new.slots = ui.slots /\ new.calls = now
        BY <2>3
    <2>5. IsUi(new)
        BY <2>3, <2>4 DEF IsUi
    <2> QED
        BY <2>2, <2>4, <2>5 DEF SameButCalls
<1>12. UiFits(new) /\ SlotsFit(new) /\ ChainsFit(new, t) /\ UsedFits(new, t, ids)
    BY <1>2, <1>8, <1>11, SameFits DEF ViewsHold
<1>13. CASE rest = <<>>
    <2>1. queue' = Tail(list) /\ calls' = Notified
        BY <1>1, <1>5, <1>7, <1>13 DEF ReduceAction
    <2>2. PICK next : next = <<>>
        OBVIOUS
    <2>3. queue' = next
        BY <1>5, <2>1, <2>2
    <2>4. new.calls = [i \in DOMAIN ui.slots |->
                        [model |-> ui.slots[i].model, what |-> ui.slots[i].what,
                         last |-> ui.slots[i].last, token |-> "held"]]
        BY <1>1, <1>11, <2>1, UiIs DEF Notified
    <2>5. CallsFit(new) /\ SlotsFollow(new, t)
        BY <1>2, <1>11, <2>4, NotifiedFits DEF ViewsHold
    <2>6. QueueFits(new, t, ids, next)
        BY <2>2 DEF QueueFits
    <2>7. ViewsHold(new, t, ids, next)
        BY <1>8, <1>12, <2>2, <2>5, <2>6 DEF ViewsHold
    <2> QED
        BY <1>9, <1>10, <2>3, <2>7, HoldsNext
<1>14. CASE rest # <<>>
    <2>1. queue' = <<rest>> \o Tail(list) /\ calls' = calls
        BY <1>1, <1>5, <1>7, <1>14 DEF ReduceAction
    <2>2. PICK next : next = <<rest>>
        OBVIOUS
    <2>3. queue' = next
        <3>1. <<rest>> \o <<>> = <<rest>>
            OBVIOUS
        <3> QED
            BY <1>5, <2>1, <2>2, <3>1
    <2>4. new.calls = ui.calls /\ ui.calls = <<>>
        BY <1>1, <1>11, <2>1, UiIs DEF ReduceAction
    <2>5. CallsFit(new)
        <3>1. new.slots = ui.slots
            BY <1>11 DEF SameButCalls
        <3>2. CallsFit(ui)
            BY <1>2 DEF ViewsHold
        <3> QED
            BY <2>4, <3>1, <3>2 DEF CallsFit
    <2>6. BatchFits(new, t, ids, rest)
        <3>1. BatchFits(ui, t, ids, rest)
            BY <1>8, <1>14
        <3>2. new.shown = ui.shown /\ new.rows = ui.rows
            BY <1>11 DEF SameButCalls
        <3>3. \A m : Unseen(ui, t, m) => Unseen(new, t, m)
            BY <3>2 DEF Unseen
        <3>4. \A a : InsertFits(ui, t, ids, a) => InsertFits(new, t, ids, a)
            BY <3>3 DEF InsertFits
        <3>5. \A a : ActionFits(ui, t, ids, a) => ActionFits(new, t, ids, a)
            BY <3>4 DEF ActionFits
        <3> QED
            BY <3>1, <3>4, <3>5 DEF BatchFits
    <2>7. QueueFits(new, t, ids, next)
        <3>1. IsDispatched(new, t, ids, rest)
            BY <2>6 DEF IsDispatched
        <3> QED
            BY <2>2, <3>1, OneQueue
    <2>8. next # <<>> /\ new.calls = <<>>
        BY <2>2, <2>4
    <2>9. ViewsHold(new, t, ids, next)
        BY <1>8, <1>12, <2>5, <2>7, <2>8 DEF ViewsHold
    <2> QED
        BY <1>9, <1>10, <2>3, <2>9, HoldsNext
<1> QED
    BY <1>13, <1>14

LEMMA CallSlotHolds ==
    ASSUME ViewsInv, CallSlot
    PROVE  ViewsInv'
<1>1. PICK ui, s, ids, list : ui = Ui /\ s = st /\ ids = used /\ list = queue
    OBVIOUS
<1>2. ViewsHold(ui, s, ids, list) /\ stray = FALSE
    BY <1>1 DEF ViewsInv
<1>3. ui.calls = calls /\ ui.subscribed = subscribed
    BY <1>1, UiIs
<1>4. ui.calls # <<>> /\ list = <<>>
    BY <1>2, <1>3 DEF CallSlot, ViewsHold
<1>5. /\ UiFits(ui) /\ SlotsFit(ui) /\ CallsFit(ui) /\ StateFits(s) /\ ChainsFit(ui, s)
      /\ UsedFits(ui, s, ids) /\ SlotsFollow(ui, s) /\ IsUi(ui)
    BY <1>2, <1>4 DEF ViewsHold, UiFits
<1>6. PICK slot, value, rest :
        /\ slot = Head(ui.calls) /\ value = Selected(s, slot.model, slot.what)
        /\ rest = [ui EXCEPT !.calls = Tail(ui.calls)]
    OBVIOUS
<1>7. IsTaken(rest, ui, s, slot)
    BY <1>4, <1>5, <1>6, TakenIs
<1>8. /\ SameButCalls(rest, ui) /\ CallsFit(rest)
      /\ SlotsFollowBut(rest, s, Key(slot)) /\ NoneHeld(rest, Key(slot))
      /\ slot.token = "expired" \/ slot.last = value => SlotsFollow(rest, s)
      /\ slot.token # "expired" => slot.model \in ui.subscribed /\ slot.what \in Whats(slot.model)
    BY <1>6, <1>7 DEF IsTaken
<1>9. UiFits(rest) /\ SlotsFit(rest) /\ ChainsFit(rest, s) /\ UsedFits(rest, s, ids)
    BY <1>5, <1>8, SameFits
<1>10. IsUi(rest) /\ rest.subscribed = ui.subscribed
    BY <1>8 DEF SameButCalls
<1>11. st' = s /\ used' = ids /\ queue' = list
    BY <1>1 DEF CallSlot
<1>12. IF slot.token = "expired" \/ value = slot.last
       THEN Becomes(rest) /\ stray' = stray
       ELSE IF slot.model \notin subscribed THEN Becomes(rest) /\ stray' = TRUE
       ELSE Becomes(Called(rest, slot, value)) /\ stray' = stray
    <2>1. rest = [Ui EXCEPT !.calls = Tail(@)]
        <3>1. [ui EXCEPT !.calls = Tail(@)] = [ui EXCEPT !.calls = Tail(ui.calls)]
            BY <1>5 DEF IsUi
        <3> QED
            BY <1>1, <1>6, <3>1
    <2>2. slot = Head(calls) /\ value = Selected(st, slot.model, slot.what)
        BY <1>1, <1>3, <1>6
    <2> QED
        BY <2>1, <2>2 DEF CallSlot
<1>13. CASE slot.token = "expired" \/ value = slot.last
    <2>1. Ui' = rest /\ stray' = FALSE
        BY <1>2, <1>10, <1>12, <1>13, BecomesIs
    <2>2. SlotsFollow(rest, s)
        BY <1>8, <1>13
    <2>3. QueueFits(rest, s, ids, list)
        BY <1>4 DEF QueueFits
    <2>4. ViewsHold(rest, s, ids, list)
        BY <1>4, <1>5, <1>8, <1>9, <2>2, <2>3 DEF ViewsHold
    <2> QED
        BY <1>11, <2>1, <2>4, HoldsNext
<1>14. CASE ~(slot.token = "expired" \/ value = slot.last)
    <2>1. /\ slot.model \in rest.subscribed /\ slot.what \in Whats(slot.model)
          /\ slot.model \in subscribed
        BY <1>3, <1>8, <1>10, <1>14
    <2>2. PICK new : new = Called(rest, slot, value)
        OBVIOUS
    <2>3. Becomes(new) /\ stray' = FALSE
        BY <1>2, <1>12, <1>14, <2>1, <2>2
    <2>4. /\ UiFits(new) /\ SlotsFit(new) /\ CallsFit(new)
          /\ ChainsFit(new, s) /\ SlotsFollow(new, s)
          /\ \A all : UsedFits(rest, s, all) => UsedFits(new, s, all)
        BY <1>5, <1>6, <1>8, <1>9, <2>1, <2>2, CalledFits
    <2>5. Ui' = new
        BY <2>3, <2>4, BecomesIs DEF UiFits
    <2>6. QueueFits(new, s, ids, list)
        BY <1>4 DEF QueueFits
    <2>7. ViewsHold(new, s, ids, list)
        BY <1>4, <1>5, <1>9, <2>4, <2>6 DEF ViewsHold
    <2> QED
        BY <1>11, <2>3, <2>5, <2>7, HoldsNext
<1> QED
    BY <1>13, <1>14

LEMMA SetSubscribedHolds ==
    ASSUME ViewsInv, NEW o \in DOMAIN shown, SetSubscribed(o)
    PROVE  ViewsInv'
<1>1. PICK ui, s, ids, list : ui = Ui /\ s = st /\ ids = used /\ list = queue
    OBVIOUS
<1>2. ViewsHold(ui, s, ids, list) /\ stray = FALSE
    BY <1>1 DEF ViewsInv
<1>3. ui.calls = calls /\ ui.subscribed = subscribed /\ o \in DOMAIN ui.shown
    BY <1>1, UiIs
<1>4. list = <<>>
    BY <1>1, <1>2, <1>3 DEF SetSubscribed, ViewsHold
<1>5. /\ UiFits(ui) /\ SlotsFit(ui) /\ CallsFit(ui) /\ StateFits(s) /\ ChainsFit(ui, s)
      /\ UsedFits(ui, s, ids) /\ SlotsFollow(ui, s) /\ IsUi(ui)
    BY <1>2, <1>4 DEF ViewsHold, UiFits
<1>6. st' = s /\ used' = ids /\ queue' = list /\ stray' = FALSE
    BY <1>1, <1>2 DEF SetSubscribed
<1>7. \A new : QueueFits(new, s, ids, list)
    BY <1>4 DEF QueueFits
<1>8. CASE o \in subscribed
    <2>1. PICK new : new = Unsubscribed(ui, {o})
        OBVIOUS
    <2>2. Becomes(new)
        BY <1>1, <1>8, <2>1 DEF SetSubscribed
    <2>3. IsUi(new) /\ new.shown = ui.shown /\ new.rows = ui.rows
        BY <1>5, <2>1, UnsubscribedIs
    <2>4. /\ SlotsFit(new) /\ CallsFit(new)
          /\ \A key : SlotsFollowBut(ui, s, key) => SlotsFollowBut(new, s, key)
        BY <1>5, <2>1, UnsubscribedFits
    <2>5. \A key : SlotsFollowBut(new, s, key)
        BY <1>5, <2>4 DEF SlotsFollow, SlotsFollowBut
    <2>6. SlotsFollow(new, s)
        <3>1. \A i \in DOMAIN new.slots : Key(new.slots[i]) # <<>>
            BY DEF Key
        <3>2. SlotsFollowBut(new, s, <<>>)
            BY <2>5
        <3> QED
            BY <3>1, <3>2 DEF SlotsFollow, SlotsFollowBut
    <2>7. UiFits(new)
        <3>1. TreeFits(new)
            BY <1>5, <2>3, TreeFitsKept DEF UiFits
        <3>2. ShownFits(new)
            BY <1>5, <2>3 DEF UiFits, ShownFits
        <3> QED
            BY <2>3, <3>1, <3>2 DEF UiFits
    <2>8. ChainsFit(new, s) /\ UsedFits(new, s, ids)
        BY <1>5, <2>3 DEF ChainsFit, UsedFits
    <2>9. Ui' = new
        BY <2>2, <2>3, BecomesIs
    <2>10. ViewsHold(new, s, ids, list)
        BY <1>4, <1>5, <1>7, <2>4, <2>6, <2>7, <2>8 DEF ViewsHold
    <2> QED
        BY <1>6, <2>9, <2>10, HoldsNext
<1>9. CASE o \notin subscribed
    <2>1. PICK new : new = Subscribed(ui, o)
        OBVIOUS
    <2>2. Becomes(new)
        BY <1>1, <1>9, <2>1 DEF SetSubscribed
    <2>3. StateFits(st) /\ ChainsFit(ui, st) /\ SlotsFollow(ui, st) /\ o \notin ui.subscribed
        BY <1>1, <1>3, <1>5, <1>9
    <2>4. /\ UiFits(new) /\ SlotsFit(new) /\ CallsFit(new)
          /\ ChainsFit(new, st) /\ SlotsFollow(new, st)
          /\ \A all : UsedFits(ui, st, all) => UsedFits(new, st, all)
        BY <1>3, <1>5, <2>1, <2>3, SubscribedFits
    <2>5. ChainsFit(new, s) /\ SlotsFollow(new, s) /\ UsedFits(new, s, ids)
        BY <1>1, <1>5, <2>4
    <2>6. Ui' = new
        BY <2>2, <2>4, BecomesIs DEF UiFits
    <2>7. ViewsHold(new, s, ids, list)
        BY <1>4, <1>5, <1>7, <2>4, <2>5 DEF ViewsHold
    <2> QED
        BY <1>6, <2>6, <2>7, HoldsNext
<1> QED
    BY <1>8, <1>9

\* What the user dispatches can be reduced.
LEMMA UserHolds ==
    ASSUME ViewsInv,
           \/ UserAddsChannel \/ UserDeletesChannel \/ UserMovesChannel \/ UserNamesChannel
           \/ UserAppendsModule \/ UserDeletesModule \/ ReplaceModule
           \/ UserMovesModule \/ UserFocusesModule
    PROVE  ViewsInv'
<1>1. PICK ui, s : ui = Ui /\ s = st
    OBVIOUS
<1>2. StateFits(s) /\ UsedFits(ui, s, used)
    BY <1>1 DEF ViewsInv, ViewsHold
<1>3. ASSUME NEW a, NEW ids, ActionFits(ui, s, used \cup ids, a), Dispatch(<<a>>, ids)
      PROVE  ViewsInv'
    <2>1. IsDispatched(ui, s, used \cup ids, <<a>>)
        BY <1>3, OneBatch DEF IsDispatched
    <2> QED
        BY <1>1, <1>3, <2>1, Dispatched
<1>4. \A c, m : {m} \cap used = {} => Unseen(ui, s, m) /\ m \notin ToSet(s.inputs)
    BY <1>2, NotUsed
<1>5. \A batch, ids : Dispatch(batch, ids) => ids \cap used = {}
    BY DEF Dispatch
<1>6. CASE UserAddsChannel
    <2>1. PICK c \in MixerChannel, n \in Name :
            Dispatch(<<[do |-> "add_channel", channel |-> c, name |-> n]>>, {c})
        BY <1>6 DEF UserAddsChannel
    <2>2. PICK a : a = [do |-> "add_channel", channel |-> c, name |-> n]
        OBVIOUS
    <2>3. a.do = "add_channel" /\ a.channel = c
        BY <2>2
    <2>4. c \notin ToSet(s.inputs)
        BY <1>4, <1>5, <2>1
    <2>5. ActionFits(ui, s, used \cup {c}, a)
        BY <2>3, <2>4 DEF ActionFits
    <2> QED
        BY <1>3, <2>1, <2>2, <2>5
<1>7. CASE UserDeletesChannel
    <2>1. PICK c \in ToSet(s.inputs) :
            Dispatch(Thunk(<<[do |-> "delete_channel", channel |-> c]>>), {})
        BY <1>1, <1>7 DEF UserDeletesChannel
    <2>2. PICK a : a = [do |-> "delete_channel", channel |-> c]
        OBVIOUS
    <2>3. a.do = "delete_channel" /\ a.channel = c
        BY <2>2
    <2>4. ActionFits(ui, s, used \cup {}, a)
        BY <2>3 DEF ActionFits
    <2>5. IsDispatched(ui, s, used \cup {}, Thunk(<<a>>))
        BY <2>4, OneBatch DEF IsDispatched
    <2> QED
        BY <1>1, <2>1, <2>2, <2>5, Dispatched
<1>8. CASE UserMovesChannel
    <2>1. PICK i \in 1 .. Len(s.inputs) - 1 :
            Dispatch(<<[do |-> "move_channel", pos |-> i]>>, {})
        BY <1>1, <1>8 DEF UserMovesChannel
    <2>2. PICK a : a = [do |-> "move_channel", pos |-> i]
        OBVIOUS
    <2>3. a.do = "move_channel" /\ a.pos = i
        BY <2>2
    <2>4. ActionFits(ui, s, used \cup {}, a)
        BY <2>3 DEF ActionFits
    <2> QED
        BY <1>3, <2>1, <2>2, <2>4
<1>9. CASE UserNamesChannel
    <2>1. PICK c \in ToSet(st.inputs), n \in Name :
            Dispatch(<<[do |-> "set_channel_name", channel |-> c, name |-> n]>>, {})
        BY <1>9 DEF UserNamesChannel
    <2>2. PICK a : a = [do |-> "set_channel_name", channel |-> c, name |-> n]
        OBVIOUS
    <2>3. a.do = "set_channel_name"
        BY <2>2
    <2>4. ActionFits(ui, s, used \cup {}, a)
        BY <2>3 DEF ActionFits
    <2> QED
        BY <1>3, <2>1, <2>2, <2>4
<1>10. CASE UserAppendsModule
    <2>1. PICK c \in DOMAIN s.channels, m \in Module :
            Dispatch(<<Insert(c, Len(s.channels[c].fx_chain), m, TRUE)>>, {m})
        BY <1>1, <1>10 DEF UserAppendsModule
    <2>2. PICK a : a = Insert(c, Len(s.channels[c].fx_chain), m, TRUE)
        OBVIOUS
    <2>3. /\ a.do = "insert_module" /\ a.channel = c /\ a.module = m
          /\ a.pos = Len(s.channels[c].fx_chain)
        BY <2>2 DEF Insert
    <2>4. Len(s.channels[c].fx_chain) \in Nat
        BY <1>2, ChainOf
    <2>5. Unseen(ui, s, m)
        BY <1>4, <1>5, <2>1
    <2>6. InsertFits(ui, s, used \cup {m}, a)
        BY <2>3, <2>4, <2>5 DEF InsertFits
    <2>7. ActionFits(ui, s, used \cup {m}, a)
        BY <2>3, <2>6 DEF ActionFits
    <2> QED
        BY <1>3, <2>1, <2>2, <2>7
<1>11. CASE UserDeletesModule
    <2>0. PICK c \in DOMAIN s.channels :
            \E m \in ToSet(s.channels[c].fx_chain) : Dispatch(<<Delete(c, m)>>, {})
        BY <1>1, <1>11 DEF UserDeletesModule
    <2>1. PICK m \in ToSet(s.channels[c].fx_chain) : Dispatch(<<Delete(c, m)>>, {})
        BY <2>0
    <2>2. PICK a : a = Delete(c, m)
        OBVIOUS
    <2>3. a.do = "delete_module" /\ a.channel = c /\ a.module = m
        BY <2>2 DEF Delete
    <2>4. ActionFits(ui, s, used \cup {}, a)
        BY <2>1, <2>3 DEF ActionFits
    <2> QED
        BY <1>3, <2>1, <2>2, <2>4
<1>12. CASE ReplaceModule
    <2>0. PICK c \in DOMAIN s.channels, m \in Module :
            \E i \in DOMAIN s.channels[c].fx_chain :
                Dispatch(Thunk(<<Delete(c, s.channels[c].fx_chain[i]),
                                 Insert(c, i - 1, m, FALSE)>>), {m})
        BY <1>1, <1>12 DEF ReplaceModule
    <2>1. PICK i \in DOMAIN s.channels[c].fx_chain :
            Dispatch(Thunk(<<Delete(c, s.channels[c].fx_chain[i]), Insert(c, i - 1, m, FALSE)>>),
                     {m})
        BY <2>0
    <2>2. PICK old, pos : old = s.channels[c].fx_chain[i] /\ pos = i - 1
        OBVIOUS
    <2>3. PICK a, b : a = Delete(c, old) /\ b = Insert(c, pos, m, FALSE)
        OBVIOUS
    <2>4. a.do = "delete_module" /\ a.channel = c /\ a.module = old
        BY <2>3 DEF Delete
    <2>5. b.do = "insert_module" /\ b.channel = c /\ b.module = m /\ b.pos = pos
        BY <2>3 DEF Insert
    <2>6. old \in ToSet(s.channels[c].fx_chain)
        BY <2>2 DEF ToSet
    <2>7. pos \in Nat
        <3>1. i \in 1 .. Len(s.channels[c].fx_chain) /\ Len(s.channels[c].fx_chain) \in Nat
            BY <1>2, ChainOf
        <3> QED
            BY <2>2, <3>1
    <2>8. Unseen(ui, s, m)
        BY <1>4, <1>5, <2>1
    <2>9. ActionFits(ui, s, used \cup {m}, a)
        BY <2>4, <2>6 DEF ActionFits
    <2>10. InsertFits(ui, s, used \cup {m}, b)
        BY <2>5, <2>7, <2>8 DEF InsertFits
    <2>11. IsDispatched(ui, s, used \cup {m}, Thunk(<<a, b>>))
        BY <2>4, <2>9, <2>10, TwoBatch DEF IsDispatched
    <2>12. Dispatch(Thunk(<<a, b>>), {m})
        BY <2>1, <2>2, <2>3
    <2> QED
        BY <1>1, <2>11, <2>12, Dispatched
<1>13. CASE UserMovesModule
    <2>1. PICK i \in 1 .. Len(s.channels[s.focused.chain].fx_chain) - 1 :
            Dispatch(<<[do |-> "move_module", pos |-> i]>>, {})
        BY <1>1, <1>13 DEF UserMovesModule
    <2>2. PICK a : a = [do |-> "move_module", pos |-> i]
        OBVIOUS
    <2>3. a.do = "move_module" /\ a.pos = i
        BY <2>2
    <2>4. ActionFits(ui, s, used \cup {}, a)
        BY <2>3 DEF ActionFits
    <2> QED
        BY <1>3, <2>1, <2>2, <2>4
<1>14. CASE UserFocusesModule
    <2>1. PICK c, m : Dispatch(<<[do |-> "focus_module", channel |-> c, module |-> m]>>, {})
        BY <1>14 DEF UserFocusesModule
    <2>2. PICK a : a = [do |-> "focus_module", channel |-> c, module |-> m]
        OBVIOUS
    <2>3. a.do = "focus_module"
        BY <2>2
    <2>4. ActionFits(ui, s, used \cup {}, a)
        BY <2>3 DEF ActionFits
    <2> QED
        BY <1>3, <2>1, <2>2, <2>4
<1> QED
    BY <1>6, <1>7, <1>8, <1>9, <1>10, <1>11, <1>12, <1>13, <1>14

LEMMA StutterHolds ==
    ASSUME ViewsInv, UNCHANGED viewsVars
    PROVE  ViewsInv'
BY DEF viewsVars, uiVars, ViewsInv, Ui

\* The models, the rows, the slots, the calls that wait and the state fit each
\* other in every state, and a slot that does not select what it was last called
\* with is still to be called.
THEOREM SpecViewsInv ==
    ViewsSpec => []ViewsInv
<1>1. ASSUME ViewsInv, [ViewsNext]_viewsVars
      PROVE  ViewsInv'
    <2>1. CASE \/ UserAddsChannel \/ UserDeletesChannel \/ UserMovesChannel \/ UserNamesChannel
               \/ UserAppendsModule \/ UserDeletesModule \/ ReplaceModule
               \/ UserMovesModule \/ UserFocusesModule
        BY <1>1, <2>1, UserHolds
    <2>2. CASE RunThunk
        BY <1>1, <2>2, RunThunkHolds
    <2>3. CASE ReduceAction
        BY <1>1, <2>3, ReduceActionHolds
    <2>4. CASE CallSlot
        BY <1>1, <2>4, CallSlotHolds
    <2>5. ASSUME NEW o \in DOMAIN shown, SetSubscribed(o) PROVE ViewsInv'
        BY <1>1, <2>5, SetSubscribedHolds
    <2>6. CASE UNCHANGED viewsVars
        BY <1>1, <2>6, StutterHolds
    <2> QED
        BY <1>1, <2>1, <2>2, <2>3, <2>4, <2>5, <2>6 DEF ViewsNext
<1> QED
    BY <1>1, InitHolds, PTL DEF ViewsSpec

\* When the store has nothing left to do, each subscribed model shows what its
\* selectors select, and the rows of each list are those of the list it was last
\* handed, however the edits and the subscriptions came between the calls.
THEOREM SpecViewFollowsState ==
    ViewsSpec => []ViewFollowsState
<1>1. ViewsInv => ViewFollowsState
    <2> SUFFICES ASSUME ViewsInv, Idle PROVE ViewFollowsState
        BY DEF ViewFollowsState
    <2>1. PICK ui, s : ui = Ui /\ s = st
        OBVIOUS
    <2>2. /\ ui.shown = shown /\ ui.rows = rows /\ ui.subscribed = subscribed
          /\ ui.slots = slots /\ ui.calls = calls
        BY <2>1, UiIs
    <2>3. TreeFits(ui) /\ ShownFits(ui) /\ SlotsFit(ui) /\ SlotsFollow(ui, s)
        BY <2>1 DEF Idle, ViewsInv, ViewsHold, UiFits
    <2>4. \A i \in DOMAIN ui.slots :
            ui.slots[i].last = Selected(s, ui.slots[i].model, ui.slots[i].what)
        <3>1. ui.calls = <<>> /\ DOMAIN <<>> = {}
            BY <2>2 DEF Idle
        <3> QED
            BY <2>3, <3>1 DEF SlotsFollow
    <2>5. ASSUME NEW o \in subscribed, NEW what \in Whats(o)
          PROVE  shown[o][what] = Showing(o, what, Selected(s, o, what))
        <3>1. PICK i \in DOMAIN ui.slots : Key(ui.slots[i]) = <<o, what>>
            BY <2>2, <2>3, <2>5 DEF SlotsFit
        <3>2. ui.slots[i].model = o /\ ui.slots[i].what = what
            BY <3>1 DEF Key
        <3>3. ui.shown[ui.slots[i].model][ui.slots[i].what]
                = Showing(ui.slots[i].model, ui.slots[i].what, ui.slots[i].last)
            BY <2>3 DEF SlotsFit
        <3> QED
            BY <2>2, <2>4, <3>2, <3>3
    <2>6. \A o \in subscribed : \A i \in DOMAIN Observed[o.kind] : Observed[o.kind][i] \in Whats(o)
        BY DEF Whats, ToSet
    <2>7. ASSUME NEW o \in DOMAIN rows
          PROVE  Ids(rows[o]) = shown[o][IF o.kind = "mixer" THEN "inputs" ELSE "chain"]
        BY <2>2, <2>3 DEF ShownFits, ListOf
    <2> QED
        BY <2>1, <2>5, <2>6, <2>7 DEF ViewFollowsState
<1> QED
    BY <1>1, SpecViewsInv, PTL

\* No slot calls a model that is gone: a copy of a slot that waits to be called
\* is void as soon as the model it was made for is destroyed or switched off.
THEOREM SpecCallsReachTheLiving ==
    ViewsSpec => []CallsReachTheLiving
<1>1. ViewsInv => CallsReachTheLiving
    BY DEF ViewsInv, CallsReachTheLiving
<1> QED
    BY <1>1, SpecViewsInv, PTL
=============================================================================
