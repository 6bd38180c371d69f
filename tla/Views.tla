------------------------------- MODULE Views -------------------------------
(***************************************************************************)
(* The user interface over the store.  The main thread reduces an action,  *)
(* of a batch one after the other, and then calls the slots of the views'  *)
(* models.  Each reads its part of the state through a selector and, if    *)
(* that changed, hands it to its model.  The list of the mixer's channels  *)
(* and the lists of the effects of their chains are edited: models of rows *)
(* that go are destroyed with their slots while the slots are being        *)
(* called, those of new rows wait for the view to subscribe them.          *)
(*                                                                         *)
(* Modelled are the models Mixer, MixerChannelFx and FxChainModule.  What  *)
(* the view does with a model, QML, is its choice: when it subscribes one  *)
(* and when it gives that up.                                              *)
(***************************************************************************)
EXTENDS Integers, SequencesExt

CONSTANTS
    Main,           \* the main channel
    MixerChannel,   \* ids of the other channels; an id is given once
    Module,         \* ids of effect modules; an id is given once
    Name,           \* names of channels
    Nothing,        \* no channel, no module, no name
    Inputs, Chains, \* what the session has of channels, and of modules on the main one
    MaxActions,     \* bound on what the user dispatches
    MaxSwitches     \* bound on subscriptions made and given up

ASSUME ViewsAssumption ==
    /\ Main \notin MixerChannel
    /\ \A list \in Inputs : list \in Seq(MixerChannel) /\ IsInjective(list)
    /\ \A list \in Chains : list \in Seq(Module) /\ IsInjective(list)

VARIABLES
    st,             \* the state of the store
    queue,          \* what is left of the actions dispatched, one batch each
    shown,          \* the models that exist, and what each one shows
    rows,           \* the models of the rows of each list model
    subscribed,
    slots,          \* those connected to the observer, the oldest first
    calls,          \* the copy of the slots that are still to be called
    stray,          \* a slot was called for a model that is gone
    used,           \* the ids given so far
    actions, switches

uiVars == <<shown, rows, subscribed, slots, calls, stray>>
viewsVars == <<st, queue, uiVars, used, actions, switches>>

-----------------------------------------------------------------------------
(* The selectors.  Of what is not there they select a default. *)

Exists(s, c) == c \in DOMAIN s.channels

SelectInputs(s) == s.inputs

SelectChannelName(s, c) == IF Exists(s, c) THEN s.channels[c].name ELSE Nothing

SelectFxChain(s, c) == IF Exists(s, c) THEN s.channels[c].fx_chain ELSE <<>>

SelectCanMoveUp(s, c) ==
    /\ c = s.focused.chain
    /\ SelectFxChain(s, c) # <<>> /\ Head(SelectFxChain(s, c)) # s.focused.module

SelectCanMoveDown(s, c) ==
    /\ c = s.focused.chain
    /\ SelectFxChain(s, c) # <<>> /\ Last(SelectFxChain(s, c)) # s.focused.module

\* The name of a module is as good as its id.
SelectModuleName(s, m) == IF m \in s.fx_modules THEN m ELSE Nothing

\* What a model of each kind observes, in the order of its slots.
Observed == [mixer |-> <<"inputs">>,
             strip |-> <<"name", "focused_chain", "can_move_up", "can_move_down", "chain">>,
             entry |-> <<"module_name", "focused_module">>]

Selected(s, o, what) ==
    CASE what = "inputs"         -> SelectInputs(s)
      [] what = "name"           -> SelectChannelName(s, o.id)
      [] what = "focused_chain"  -> s.focused.chain
      [] what = "can_move_up"    -> SelectCanMoveUp(s, o.id)
      [] what = "can_move_down"  -> SelectCanMoveDown(s, o.id)
      [] what = "chain"          -> SelectFxChain(s, o.id)
      [] what = "module_name"    -> SelectModuleName(s, o.id)
      [] what = "focused_module" -> s.focused.module

\* A model shows whether the one focused is its own, the rest as selected.
Showing(o, what, value) ==
    IF what \in {"focused_chain", "focused_module"} THEN value = o.id ELSE value

\* What a model shows at first, and before it is subscribed.
Fresh(o) ==
    [what \in ToSet(Observed[o.kind]) |->
        CASE what \in {"inputs", "chain"} -> <<>>
          [] what \in {"name", "module_name"} -> Nothing
          [] OTHER -> FALSE]

-----------------------------------------------------------------------------
(* The edit script that makes one list of another. *)

\* The number of edits that make the first y of dst of the first x of src.
Edits(src, dst) ==
    LET cost[p \in (0..Len(src)) \X (0..Len(dst))] ==
            LET x == p[1]
                y == p[2]
            IN  IF x = 0 THEN y ELSE IF y = 0 THEN x
                ELSE IF src[x] = dst[y] THEN cost[<<x - 1, y - 1>>]
                ELSE 1 + (IF cost[<<x - 1, y>>] < cost[<<x, y - 1>>]
                          THEN cost[<<x - 1, y>>] ELSE cost[<<x, y - 1>>])
    IN  cost

Deletion(pos) == [op |-> "deletion", pos |-> pos]
Insertion(pos, value) == [op |-> "insertion", pos |-> pos, value |-> value]

\* Positions of deletions are those in src, of insertions those in dst.
EditScript(src, dst) ==
    LET cost == Edits(src, dst)
        script[p \in (0..Len(src)) \X (0..Len(dst))] ==
            LET x == p[1]
                y == p[2]
                inserted == Append(script[<<x, y - 1>>], Insertion(y - 1, dst[y]))
                deleted == Append(script[<<x - 1, y>>], Deletion(x - 1))
            IN  CASE x = 0 /\ y = 0 -> <<>>
                  [] x = 0 /\ y > 0 -> inserted
                  [] x > 0 /\ y = 0 -> deleted
                  [] x > 0 /\ y > 0 ->
                       IF src[x] = dst[y] THEN script[<<x - 1, y - 1>>]
                       ELSE IF cost[<<x, y - 1>>] <= cost[<<x - 1, y>>] THEN inserted
                       ELSE deleted
    IN  script[<<Len(src), Len(dst)>>]

-----------------------------------------------------------------------------
(* The user interface, as one record. *)

Ui == [shown |-> shown, rows |-> rows, subscribed |-> subscribed,
       slots |-> slots, calls |-> calls]

Becomes(ui) ==
    /\ shown' = ui.shown /\ rows' = ui.rows /\ subscribed' = ui.subscribed
    /\ slots' = ui.slots /\ calls' = ui.calls

\* The slots that are not those of the models.
Kept(list, gone) ==
    LET kept[n \in 0..Len(list)] ==
            IF n = 0 THEN <<>>
            ELSE IF list[n].model \in gone THEN kept[n - 1]
            ELSE Append(kept[n - 1], list[n])
    IN  kept[Len(list)]

Expired(list, gone) ==
    [i \in DOMAIN list |->
        IF list[i].model \in gone THEN [list[i] EXCEPT !.token = "expired"] ELSE list[i]]

UnsubscribedKeepingCalls(ui, gone) ==   \* mutant: the slots have no token
    [ui EXCEPT !.subscribed = @ \ gone, !.slots = Kept(@, gone)]

\* The slots of the models are disconnected.  Copies of them that are still
\* to be called find their token gone.
Unsubscribed(ui, gone) ==
    [ui EXCEPT !.subscribed = @ \ gone, !.slots = Kept(@, gone), !.calls = Expired(@, gone)]

\* The rows of a model are destroyed with it.
WithRows(ui, o) == {o} \cup (IF o \in DOMAIN ui.rows THEN ToSet(ui.rows[o]) ELSE {})

Destroyed(ui, o) ==
    LET gone == WithRows(ui, o)
    IN  [Unsubscribed(ui, gone) EXCEPT
            !.shown = [p \in DOMAIN ui.shown \ gone |-> ui.shown[p]],
            !.rows = [p \in DOMAIN ui.rows \ gone |-> ui.rows[p]]]

\* Positions count from 0.
RowRemoved(ui, o, pos) ==
    [Destroyed(ui, ui.rows[o][pos + 1]) EXCEPT !.rows[o] = RemoveAt(ui.rows[o], pos + 1)]

\* A row can be there twice while the list is edited.
NewRow(ui, o, id) ==
    LET row(copy) == [kind |-> IF o.kind = "mixer" THEN "strip" ELSE "entry",
                      id |-> id, copy |-> copy]
    IN  row(CHOOSE copy \in 1..2 : row(copy) \notin DOMAIN ui.shown)

RowAdded(ui, o, pos, id) ==
    LET new == NewRow(ui, o, id)
        lists == DOMAIN ui.rows \cup IF new.kind = "strip" THEN {new} ELSE {}
    IN  [ui EXCEPT
            !.shown = [p \in DOMAIN ui.shown \cup {new} |->
                          IF p = new THEN Fresh(new) ELSE ui.shown[p]],
            !.rows = [p \in lists |->
                         CASE p = new -> <<>>
                           [] p = o -> InsertAt(ui.rows[o], pos + 1, new)
                           [] OTHER -> ui.rows[p]]]

RowEditedForDeletions(step, o, edit) == \* mutant: insertions move nothing
    IF edit.op = "deletion"
    THEN [ui |-> RowRemoved(step.ui, o, edit.pos - step.deletion_offset),
          deletion_offset |-> step.deletion_offset + 1]
    ELSE [step EXCEPT !.ui = RowAdded(step.ui, o, edit.pos, edit.value)]

\* A deletion is moved by what was deleted and inserted before it.
RowEdited(step, o, edit) ==
    IF edit.op = "deletion"
    THEN [ui |-> RowRemoved(step.ui, o, edit.pos - step.deletion_offset),
          deletion_offset |-> step.deletion_offset + 1]
    ELSE [ui |-> RowAdded(step.ui, o, edit.pos, edit.value),
          deletion_offset |-> step.deletion_offset - 1]

\* GenericListModel is edited to the list that was selected.
RowsEdited(ui, o, script) ==
    LET edited[n \in 0..Len(script)] ==
            IF n = 0 THEN [ui |-> ui, deletion_offset |-> 0]
            ELSE RowEdited(edited[n - 1], o, script[n])
    IN  edited[Len(script)].ui

ListEdited(ui, o, what, value) ==
    IF what \in {"inputs", "chain"}
    THEN RowsEdited(ui, o, EditScript(ui.shown[o][what], value)) ELSE ui

\* What the handlers of Mixer, MixerChannelFx and FxChainModule do.
Handled(ui, o, what, value) ==
    [ListEdited(ui, o, what, value) EXCEPT !.shown[o][what] = Showing(o, what, value)]

\* The slots of a model are connected one after the other, each when its
\* handler has been called with what is selected; the last may edit its list.
Subscribed(ui, o) ==
    LET observed == Observed[o.kind]
        connected == [i \in DOMAIN observed |->
            [model |-> o, what |-> observed[i], last |-> Selected(st, o, observed[i])]]
        last == Last(observed)
    IN  [ListEdited(ui, o, last, Selected(st, o, last)) EXCEPT
            !.shown[o] = [what \in ToSet(observed) |-> Showing(o, what, Selected(st, o, what))],
            !.subscribed = @ \cup {o},
            !.slots = @ \o connected]

\* The view's ModelSubscription switches the model on or off: when a page is
\* shown or left, and when the slots that are called change what is visible.
SetSubscribed(o) ==
    /\ queue = <<>> \/ calls # <<>>
    /\ switches < MaxSwitches /\ switches' = switches + 1
    /\ IF o \in subscribed THEN Becomes(Unsubscribed(Ui, {o})) ELSE Becomes(Subscribed(Ui, o))
    /\ UNCHANGED <<st, queue, stray, used, actions>>

\* The handler of a slot was called with the value.
Called(ui, slot, value) ==
    [Handled(ui, slot.model, slot.what, value) EXCEPT
        !.slots = [i \in DOMAIN @ |->
                      IF @[i].model = slot.model /\ @[i].what = slot.what
                      THEN [@[i] EXCEPT !.last = value] ELSE @[i]]]

\* A slot whose token is held calls its handler if what it selects changed.
CallSlot ==
    /\ calls # <<>>
    /\ LET slot == Head(calls)
           value == Selected(st, slot.model, slot.what)
           rest == [Ui EXCEPT !.calls = Tail(@)]
       IN  IF slot.token = "expired" \/ value = slot.last
           THEN Becomes(rest) /\ UNCHANGED stray
           ELSE IF slot.model \notin subscribed THEN Becomes(rest) /\ stray' = TRUE
           ELSE Becomes(Called(rest, slot, value)) /\ UNCHANGED stray
    /\ UNCHANGED <<st, queue, used, actions, switches>>

-----------------------------------------------------------------------------
(* The reducers, as far as these models can see what they do. *)

IndexOf(list, e) == CHOOSE i \in DOMAIN list : list[i] = e

Swapped(s, i, j) == [s EXCEPT ![i] = s[j], ![j] = s[i]]

AddChannel(s, a) ==
    [s EXCEPT !.channels = [c \in DOMAIN @ \cup {a.channel} |->
                  IF c = a.channel THEN [name |-> a.name, fx_chain |-> <<>>]
                  ELSE s.channels[c]],
              !.inputs = Append(@, a.channel)]

DeleteChannel(s, a) ==
    [s EXCEPT !.channels = [c \in DOMAIN @ \ {a.channel} |-> s.channels[c]],
              !.inputs = RemoveAt(@, IndexOf(@, a.channel))]

MoveChannel(s, a) == [s EXCEPT !.inputs = Swapped(@, a.pos, a.pos + 1)]

SetChannelName(s, a) == [s EXCEPT !.channels[a.channel].name = a.name]

InsertModule(s, a) ==
    LET chain == s.channels[a.channel].fx_chain
        pos == IF a.pos <= Len(chain) THEN a.pos ELSE Len(chain)
    IN  [s EXCEPT !.channels[a.channel].fx_chain = InsertAt(@, pos + 1, a.module),
                  !.fx_modules = @ \cup {a.module},
                  !.focused = IF a.show THEN [chain |-> a.channel, module |-> a.module] ELSE @]

\* The focus goes to the next module, or to the one before the last.
DeleteModule(s, a) ==
    LET chain == s.channels[a.channel].fx_chain
        i == IndexOf(chain, a.module)
    IN  [s EXCEPT
            !.channels[a.channel].fx_chain = RemoveAt(@, i),
            !.fx_modules = @ \ {a.module},
            !.focused =
                CASE s.focused.module # a.module -> @
                  [] Len(chain) = 1 -> [chain |-> Nothing, module |-> Nothing]
                  [] OTHER -> [@ EXCEPT !.module =
                                  chain[IF i < Len(chain) THEN i + 1 ELSE i - 1]]]

MoveModule(s, a) ==
    [s EXCEPT !.channels[s.focused.chain].fx_chain = Swapped(@, a.pos, a.pos + 1)]

FocusModule(s, a) == [s EXCEPT !.focused = [chain |-> a.channel, module |-> a.module]]

Reduced(s, a) ==
    CASE a.do = "add_channel"      -> AddChannel(s, a)
      [] a.do = "delete_channel"   -> DeleteChannel(s, a)
      [] a.do = "move_channel"     -> MoveChannel(s, a)
      [] a.do = "set_channel_name" -> SetChannelName(s, a)
      [] a.do = "insert_module"    -> InsertModule(s, a)
      [] a.do = "delete_module"    -> DeleteModule(s, a)
      [] a.do = "move_module"      -> MoveModule(s, a)
      [] a.do = "focus_module"     -> FocusModule(s, a)

-----------------------------------------------------------------------------
(* The store and its middlewares. *)

Notified == [i \in DOMAIN slots |->
                [model |-> slots[i].model, what |-> slots[i].what,
                 last |-> slots[i].last, token |-> "held"]]

\* A thunk is called instead of being reduced; what it dispatches is queued.
RunThunk ==
    /\ queue # <<>> /\ calls = <<>> /\ Head(Head(queue)).do = "thunk"
    /\ queue' = Append(Tail(queue), Head(Head(queue)).dispatches)
    /\ UNCHANGED <<st, uiVars, used, actions, switches>>

\* Only the last action of a batch notifies.
ReduceAction ==
    /\ queue # <<>> /\ calls = <<>> /\ Head(Head(queue)).do # "thunk"
    /\ st' = Reduced(st, Head(Head(queue)))
    /\ LET batch == Tail(Head(queue)) IN
       IF batch = <<>>
       THEN queue' = Tail(queue) /\ calls' = Notified
       ELSE queue' = <<batch>> \o Tail(queue) /\ calls' = calls
    /\ UNCHANGED <<shown, rows, subscribed, slots, stray, used, actions, switches>>

-----------------------------------------------------------------------------
(* What the user dispatches through the models. *)

Idle == queue = <<>> /\ calls = <<>>

Dispatch(batch, ids) ==
    /\ Idle
    /\ ids \cap used = {} /\ used' = used \cup ids
    /\ actions < MaxActions /\ actions' = actions + 1
    /\ queue' = <<batch>>
    /\ UNCHANGED <<st, uiVars, switches>>

UserAddsChannel ==
    \E c \in MixerChannel, n \in Name :
        Dispatch(<<[do |-> "add_channel", channel |-> c, name |-> n]>>, {c})

\* Nothing is reduced between the dispatch of a thunk and its call: what it
\* makes of the state it makes of the state of now.
Thunk(batch) == <<[do |-> "thunk", dispatches |-> batch]>>

\* A channel with effects is another matter: see FxChains.
UserDeletesChannel ==
    \E c \in ToSet(st.inputs) :
        /\ st.channels[c].fx_chain = <<>>
        /\ Dispatch(Thunk(<<[do |-> "delete_channel", channel |-> c]>>), {})

UserMovesChannel ==
    \E i \in 1..Len(st.inputs) - 1 : Dispatch(<<[do |-> "move_channel", pos |-> i]>>, {})

UserNamesChannel ==
    \E c \in ToSet(st.inputs), n \in Name :
        Dispatch(<<[do |-> "set_channel_name", channel |-> c, name |-> n]>>, {})

Insert(c, pos, m, show) ==
    [do |-> "insert_module", channel |-> c, pos |-> pos, module |-> m, show |-> show]

Delete(c, m) == [do |-> "delete_module", channel |-> c, module |-> m]

UserAppendsModule ==
    \E c \in DOMAIN st.channels, m \in Module :
        Dispatch(<<Insert(c, Len(st.channels[c].fx_chain), m, TRUE)>>, {m})

UserDeletesModule ==
    \E c \in DOMAIN st.channels : \E m \in ToSet(st.channels[c].fx_chain) :
        Dispatch(<<Delete(c, m)>>, {})

\* A module takes the place of another: one is deleted, the other inserted, as
\* for the plugins that the scan has found.
ReplaceModule ==
    \E c \in DOMAIN st.channels, m \in Module : \E i \in DOMAIN st.channels[c].fx_chain :
        Dispatch(Thunk(<<Delete(c, st.channels[c].fx_chain[i]), Insert(c, i - 1, m, FALSE)>>),
                 {m})

UserMovesModule ==
    /\ st.focused.chain # Nothing
    /\ LET chain == st.channels[st.focused.chain].fx_chain IN
       \E i \in 1..Len(chain) - 1 :
           /\ st.focused.module \in {chain[i], chain[i + 1]}
           /\ Dispatch(<<[do |-> "move_module", pos |-> i]>>, {})

UserFocusesModule ==
    \E c \in DOMAIN st.channels : \E m \in ToSet(st.channels[c].fx_chain) :
        Dispatch(<<[do |-> "focus_module", channel |-> c, module |-> m]>>, {})

-----------------------------------------------------------------------------

mixer == [kind |-> "mixer", id |-> Main, copy |-> 1]
main_strip == [kind |-> "strip", id |-> Main, copy |-> 1]

\* The mixer's model makes the strip of the main channel, which has no row.
ViewsInit ==
    /\ \E inputs \in Inputs, chain \in Chains :
           /\ st = [channels |-> [c \in ToSet(inputs) \cup {Main} |->
                                [name |-> Nothing, fx_chain |-> IF c = Main THEN chain ELSE <<>>]],
                    inputs |-> inputs, fx_modules |-> ToSet(chain),
                    focused |-> [chain |-> Nothing, module |-> Nothing]]
           /\ used = ToSet(inputs) \cup ToSet(chain)
    /\ queue = <<>>
    /\ shown = [o \in {mixer, main_strip} |-> Fresh(o)]
    /\ rows = [o \in {mixer, main_strip} |-> <<>>]
    /\ subscribed = {} /\ slots = <<>> /\ calls = <<>> /\ stray = FALSE
    /\ actions = 0 /\ switches = 0

ViewsNext ==
    \/ UserAddsChannel \/ UserDeletesChannel \/ UserMovesChannel \/ UserNamesChannel
    \/ UserAppendsModule \/ UserDeletesModule \/ ReplaceModule
    \/ UserMovesModule \/ UserFocusesModule
    \/ RunThunk \/ ReduceAction \/ CallSlot
    \/ \E o \in DOMAIN shown : SetSubscribed(o)

ViewsSpec == ViewsInit /\ [][ViewsNext]_viewsVars

-----------------------------------------------------------------------------

Ids(models) == [i \in DOMAIN models |-> models[i].id]

\* When the store has nothing left to do, a subscribed model shows what its
\* selectors select, and the rows of a list are those of the list it was
\* last handed: edits applied during the notification, subscriptions made
\* and given up in its course, and batches leave no model behind the state.
ViewFollowsState ==
    Idle =>
        /\ \A o \in subscribed : \A i \in DOMAIN Observed[o.kind] :
               LET what == Observed[o.kind][i]
               IN  shown[o][what] = Showing(o, what, Selected(st, o, what))
        /\ \A o \in DOMAIN rows :
               Ids(rows[o]) = shown[o][IF o.kind = "mixer" THEN "inputs" ELSE "chain"]

\* No slot calls the handler of a model that has been destroyed or that gave
\* up its subscription after the notification began.
CallsReachTheLiving == ~stray
=============================================================================
