# piejam: models, checks and proofs

piejam is an audio mixer for small computers. One thread must finish a period of
audio every few milliseconds; another one runs the user interface and changes
what that thread works on; worker threads, a scan thread and the devices take
part. This directory holds TLA+ models of the parts where those meet and of the
logic between them, the TLC configurations that check them, proofs that TLAPS
checks, and `PROJECT.json`, which lists for each definition the lines of code it
stands for, for each run its properties, for each property a mutated definition
that breaks it, and the hazards that the properties are for. Paths below are
under `src/piejam_libs/`.

## 1. The system

### Threads

- **main thread**: user interface, store with its reducers and middlewares,
  rebuilds of the audio engine, opening and closing of devices, timers.
- **audio thread** (`audio/process_thread.h`): one call of
  `process::operator()` per period, around the ioctls of its devices.
- **worker threads** (`thread/worker.h`), three of them in `piejam_app/src/main.cpp`:
  they help the audio thread to run a graph of processors.
- **scan thread**: looks for LADSPA plugins once after the start and hands its
  result to the main thread.

### Components

| component | state | operations | hard behaviour | what makes it correct |
|---|---|---|---|---|
| `spsc_slot` | three cells, two private positions, one atomic position with a mark bit | `push`, `consume` | two threads, no lock | values whole, newest first, none that is newest lost |
| `worker` | two binary semaphores, a task, a stop token | `wakeup`, destructor, thread loop | hand-over, stop against a pending task | each task runs once, in order; the destructor returns |
| dag and executors | parent counters, counter of nodes, lock-free stack, threads | one cycle per period | unsynchronised push, workers that linger | each node once per cycle, after its parents; the cycle ends |
| `process`, `process_thread`, engine rebuild | executor in use, executor offered, promise of the previous one, processors kept by the engine | `swap_executor`, `rebuild`, open, close, device failure | time-out against a late answer, failure in between | what runs uses processors that exist, but for one kind of wire (finding 3); the engine follows the state; everything ends |
| engine graph | processors and wires of a state | `make_graph`, finalize, `graph_to_dag` | rewriting in place while walking | the device and the recorders hear what the routes lead there |
| parameters, mute and solo | values in the state, in slots, in processors; solo groups | set by user, by MIDI, initialised by a rebuild | three writers, rebuilds that fail | state and engine come to agree; a solo silences the others of its group |
| `stream_ring_buffer`, `stream_processor` | buffer, read and write index | `write`, `consume` | two threads, wrap-around, unsigned arithmetic | a bounded queue of frames |
| mixer routing (`mixer.cpp`) | none: functions of the channels | `has_cycle`, `valid_io_channels` | depth-first search with two marks | exact answer; only routes without a cycle are offered |
| channels and buses (`state.cpp`, `mixer_actions.cpp`) | channels with their addresses, lists, buses | add, delete, move, route, rename | long sequences of edits | lists, addresses and graph agree |
| strips of the mixer (`selectors.cpp`, `MixerChannelEdit.cpp`) | menus, remembered as lists | choose the n-th entry | an index that means something else than was shown | the entry shown is the route set |
| effect chains and LADSPA modules of the state | chains, modules, loaded plugins, focus | insert, delete, move, focus, replace, load, unload, scan, reload | batches, plugins that fail to load, unloading beside the audio thread | chains, modules, plugins, engine agree |
| MIDI learning and assignment | parameter being learned, assignments, learning processor | start, stop, event, assign | an event of the audio thread arrives later | assignments are of parameters that exist |
| redux store, reselect, list models | queue of actions, subscribers, cached values, models of rows | dispatch, batch, notify, subscribe, edit script | nested dispatch, rows destroyed inside a notification | views show what is selected; no slot of a dead model is called |
| scope and spectrum | windows, triggers, generators, lines drawn | frames, switch, freeze, resize, bypass | generators made anew between two chunks | all streams of a view show one moment |
| session and configuration | files | save, restore action by action | partial restore, routes found by name, truncated files | what was saved comes back |
| recorder | takes, files, streams | start, stop, update | failing files, device changes, crashes | a take is whole, but for what a ring or a write loses |
| MIDI devices | devices known, present, active | plug, unplug, enable | updates against stale state | enabled devices are active and known to the engine |
| ALSA period loop | two linked streams, ring of the kernel | open, step, restart | xruns between any two ioctls | the latency is that of the configuration |
| choice of devices | devices, rates, sizes, counts, channels of buses | list, select, configure | lists that are stale, values that no device has | what is selected is possible; buses name channels that exist |
| output of a channel | events, smoothers, meters | cut periods at events, ramp, multiply, mix | two events at one frame, ramps over periods | at each frame the signal that the parameters say |
| filter effect | biquads, last values | events of type, cutoff, resonance | coefficients change while memory stays | at each frame the answer of the filter that is set |
| LADSPA plugins | ports, parameters, processors | scan, describe, run, bypass | one control value per run, so periods are cut | a plugin hears its parameters at each frame |
| system and log; application, setup and tools | | | | |

They interact as follows. A user action is dispatched to the **store**. Its
middlewares handle it one after another: the LADSPA middleware loads and
unloads plugins around it, the MIDI and recorder middlewares keep their devices
and files, and the engine middleware passes it on to the reducers and then
**rebuilds** the engine from the new state: it makes a **graph** of processors,
a **dag**, an **executor** over the **workers**, and hands the executor to the
audio thread (**process**), waiting for the previous one. When the store is
done with an action, **selectors** compare what they select, and the **models**
of the user interface follow. Values go from the main thread to the audio
thread and back through **spsc_slot**s; recorded audio, scopes and spectra go
back through **stream_ring_buffer**s, which the main thread polls with a timer.
At the end of a run the state is written to the **session** file, and restored
from it by actions at the next start.

## 2. Plan

In this order, the parts on which the others rest first; all are done.

1. `SpscSlot` (abstract: `LatestValue`), `Worker` (abstract: `Handoff`): the two
   synchronisation primitives. *Checked and proved.*
2. `DagExecutor` (abstract: `DagSchedule`): uses the hand-over that `Worker`
   implements. *Checked and proved.*
3. `EngineRebuild`: main and audio thread around `process`. *Checked and proved.*
4. `StreamRingBuffer` (abstract: `FrameQueue`). *Checked and proved.*
5. `IoGraph`, `HasCycleSearch`, `MixerRouting`: the search against the
   definition of a cycle, then the routes that it guards. *Checked and proved.*
   `ChannelStrips`, composed with `MixerRouting`. *Checked and proved.*
6. `FxChains`: chains, plugins, MIDI learning and the engine. *Checked and proved.*
7. `EngineGraph` (uses `IoGraph`), `ParameterFlow`: what the engine is built of,
   and how values reach it. *Checked; `ParameterFlow` proved.*
8. `EventProcessing`, `FilterFx`, `LadspaFx`: what the engine plays. *Checked;
   `FilterFx` proved.*
9. `Views`, `ScopeView`, `SpectrumView`: what the user sees. *Checked; `Views` and
   `SpectrumView` proved.*
10. `SessionRestore`, `Recorder`, `MidiDevices`: what outlives a run, and what
    comes and goes during one. *Checked; `Recorder` and `MidiDevices` proved.*
11. `AlsaStream`, `DeviceSelection`: the devices. *Checked and proved.*

What could follow: the composition of engine and executor, in which an executor
is destroyed while one of its workers is still in its loop (`dag.cpp:204`), and
proofs for `EngineGraph`, whose graph is a fold of rewrites.

## 3. The modules

`PROJECT.json` maps every definition to its lines; this section says how to
read each module.

### Threads and their hand-overs

**SpscSlot** models `thread/spsc_slot.h`. A step is one access to shared memory:
`PushBegin` and `PushEnd` are the begin and the end of the assignment to the
cell (0 in between), `Commit` the exchange that parks it, `ConsumeLoad`,
`ConsumeExchange` and `ConsumeInvoke` the test of the mark, the exchange and
the callback. A value is the number of its push. Copying and moving push are
one. **LatestValue** is what the slot promises.

**Worker** models `thread/worker.h`: `Wakeup*` is the caller, `Destroy*` the
destructor with the join of the `jthread`, `Thread*` the thread. A task is its
number. **Handoff** is what it promises: accept, complete, stop, one at a time.

**DagExecutor** models `dag_executor_mt` of `audio/engine/dag.cpp`. The caller's
steps are those of `operator()`; `unsynchronized_push` is a read and a write,
because that is where another thread gets between. A thread's steps are those
of `dag_worker`: the load of the node counter, the pop, the task, one
`fetch_sub` per child, the `fetch_sub` of the node counter. Counters wrap at
`CounterSize`, `%` standing for the width of `size_t`. A worker's parking is
one state, which the proof of `Worker` justifies. The graph is a constant;
`GraphAssumption` is what `add_child` asserts of it. **DagSchedule** is what a
cycle promises.

**EngineRebuild** models `process.cpp`, `process_thread.h`, and the parts of
`audio_engine.cpp` and `audio_engine_middleware.cpp` around a swap. An executor
has the number of its build. A processor is a pair: what it is of, and the build
that made it. Those of an effect are taken over from build to build while it is in
use, those of the solos and the rest of a graph are made anew (`TakenOver`,
`MakeComponents`), so a processor of an old build may be part of a new graph and
one of the newest may be gone. Three places know processors: the components that
the engine keeps (`comps`, and `new_comps` during a rebuild), which own them; the
weak registrations of the factories (`m_procs`, `m_param_procs`), which forget a
processor when its last owner goes; and what an executor runs, which nothing
keeps alive (`parts`, and `wired` for the ends of MIDI wires). `ConnectMidi` wires
whatever is registered and owned at that moment, by whichever engine, as
`connect_midi` does with `find_processor`. The steps of the main thread are those of
`rebuild` and `swap_executor`, the audio thread's those of its loop, and the
device may fail at any test of the loop.

**StreamRingBuffer** models `stream_ring_buffer.h`, and `stream_processor.cpp`
as the one who writes. The channels of a frame move together, so a frame is one
number. `write` and `consume` load both indices, copy, and store their index;
the begin of a copy wipes the cells, so a reader that is let in too early sees
it. The subtraction of indices is unsigned (`ToSize`). **FrameQueue** is a
bounded queue whose frames are accepted, taken, and delivered in the block that
was taken.

**ParameterFlow** has the values of mute and solo: in the state, in the two slots
of a `value_io_processor`, in the processors of the engine that runs and of the
one being built, and in the weak pointers by which the factory finds them
(`parameter_processor_factory.h`). A user sets a value, MIDI sets one in the
audio thread, the timer reads them back, and a rebuild initialises what it makes
and may fail. `crossed` keeps the parameters two sides set before either had
read the other; for them no agreement is claimed. `SoloGroupsAgree` compares
what `solo_group` processors silence with the routes and the solo switches.

### The mixer of the state

**IoGraph** is the graph of routes that `mixer.cpp` builds, and the definition
of a cycle: a set of nodes in which every node has a child. **HasCycleSearch**
is the recursive search of `mixer.cpp` with its stack made explicit; it starts
on any graph.

**MixerRouting** has the channels, lists and buses of `state.cpp`, the reducers
that change them, and as their guards what the user interface offers
(`selectors.cpp`, `MixerChannelEdit.cpp`) by asking `valid_io_channels`. The
search is used by its definition, which `SpecAnswersHasCycle` justifies. A
deleted id may be used again, where the code always makes new ids: the model
allows more than the code does, and every reference to a deleted id is seen as
a wrong reference to the new one or as a dangling one.

**ChannelStrips** adds to `MixerRouting` what a strip shows: the names of routes,
the entries of the menus with their states, and the index by which the strip
hands an entry back. `StripsShowRoutes` says that choosing an entry leads to a
strip that shows it.

**FxChains** has the chains, modules, plugins, assignments and focus of the
state, the actions of `runtime/actions` and of `ladspa_fx_middleware.cpp`, and
an engine that holds what its last build was made of. What a user, the scan
thread or the start dispatches becomes a batch, `pending`; its steps are
reduced one by one, each followed by the rebuild that the middleware does
(`EngineAction`), which succeeds, is skipped, or times out. Between two steps
the audio thread may learn an event (`MidiEvent`). A module, the plugin behind
it and its parameter have one id; a module stands for one of its parameters, a
channel for its volume. Some details follow the code where one might not
expect it: `remove_fx_module` reads `fx_mod` after removing it, so what is
erased from `fx_ladspa_instances` is left open; deleting a channel with
effects addresses the chain of no channel; `midi_learning` is dereferenced
without a test. A failed assertion ends the program (`aborted`).

### The engine and what it plays

**EngineGraph** makes, of a mixer and its effects, the components that
`audio_engine.cpp` connects, the wires between their processors, the graph in
which identities are bypassed and mixers inserted (`graph_algorithms.cpp`), and
the dag (`graph_to_dag.cpp`). The steps are those of a rebuild. In
`GraphFollowsRoutes` the signal paths of the last graph are those of the routes,
and the order of the jobs is one in which each source is before what reads it.

**EventProcessing** is the output of a stereo channel in cycles: events of volume
and balance, multiplied into a gain for each side, `smoother` with its ramps,
slices that are a constant or a buffer, the multiplication, the level meter, the
mixing and clipping. A period is cut at each event, as
`single_event_input_processor.h` does. `SignalFollowsParameters` says what is
heard at each frame from the events before it.

**FilterFx** is the filter module: three parameters, the converter that makes
coefficients of them, one or two biquads per channel with what they remember,
and the stream of the view. `FilterFollowsParameters` compares each frame with
the direct form of the filter that is set at it.

**LadspaFx** reads the ports of a plugin, makes parameters of its hints, chooses
one processor or two, and runs them over a period cut at the earliest next
event. The plugin returns what it was given, so `PluginHearsParameters` can say
which value each frame was computed with.

### What the user sees

**Views** has the store (queue, batches, thunks), selectors with their cached
values, the signals that are copied before they are called, and three kinds of
models: the list of channels, the lists of effects, and the rows. A list is
changed by an edit script (`algorithm/edit_script.h`), read off a table of costs
(`EditScript`) and run edit by edit, with the offset of the deletions counted on
the way (`RowEdited`). The code moves the deletions of the whole script first
and runs it then; no edit reads a position but its own, so that is the same.
`deletion_offset` is unsigned in the code and wraps below 0 when an
insertion comes first; the difference it is used for wraps back.
The user interface is one record, `Ui`, which the operations of a model take and
return. What QML does, to subscribe a model and to give that up, is open.

**ScopeView** and **SpectrumView** have the models of the two views, the streams
they amplify, and their generators, fed by chunks of frames between which the
user switches, freezes and resizes. Frames are numbers, so the properties can
tell which of them each stream shows. While the trigger waits, `Dropped` takes one
sample more than it is asked for, as the `erase` of the code does
(`ScopeDataGenerator.cpp:51` and `:116`).

### What outlives a run

**SessionRestore** saves a mixer at the end of a run and restores it at the start
of the next one: names in place of ids, action by action, with plugins and
devices that are missing and files that a crash left half written.

**Recorder** has `recorder_middleware.cpp`, its files and directories, the
streams of a take, the number of the take, and the engine only as far as it
feeds streams. A write to a file may take any part of what it is given, as
`writef` does on a disk that is full; the rest is lost, and `cut_short` has the
streams to which that happened. **MidiDevices** has the ALSA sequencer's announcements
(`midi/alsa.cpp`), the list of devices, the
middleware that enables again what was enabled, and the map the engine is built
with.

### The devices

**AlsaStream** has `process_step.cpp`, `pcm_io.cpp` and the thread around
them. The hardware ticks between any two ioctls; the kernel's side follows the
parameters that `open_pcm` sets and is marked external. **DeviceSelection** has
the actions of `audio_engine_middleware.cpp` that choose a device, a rate, a
size or a count, and the channels of the buses.

### MC and Proofs modules

The `...MC` modules give the constants values; the `...Proofs` modules hold
theorems. A `...MC` module may have several *subjects*: instances of modules that
do not interact, of which `subject` chooses one at the start while the others
rest in a fixed state. Each behaviour of the run is a behaviour of one
subject, so a property of one subject says what it would in a run of its own.
Subjects that theorems are about are extended where they can be, so that TLC
evaluates their assumptions and a theorem names the very property of the run:
`SpscSlotMC` extends `SpscSlot`, `ParameterFlow`, `HasCycleSearch` and `Views`,
`EngineRebuildMC` extends `EngineRebuild`, `AlsaStream` and `DeviceSelection`,
`FxChainsMC` extends `FxChains`, `Recorder` and `SpectrumView`, `WorkerMC`
extends `Worker`, `StreamRingBuffer` and `ChannelStrips`, `MixerRoutingMC` extends
`MixerRouting` and `MidiDevices`, and `DagExecutorMC` extends
`DagExecutor` and `FilterFx`, whose constants get their
values in the `.cfg`. Their specifications have names of their own (`FlowSpec`,
`RingSpec`, `StreamSpec`, `DevicesSpec`, `TakesSpec`, `MidiSpec`, `ViewsSpec`, `FilterSpec`...).
`EventProcessingMC`, `EngineGraphMC` and `LadspaFxMC` are extended by
`DagExecutorMC`.
Definitions that a comment calls a mutant, or that it introduces as a way to go
wrong ("A commit that forgets ..."), are not part of any specification: they
are the mutated forms that `PROJECT.json` names.

## 4. The runs

Each passing property is broken by at least one mutated definition.

| run | subject and bounds | shows |
|---|---|---|
| `spsc_slot` | slot: 6 pushes | `NoTornRead`; implements `LatestValue`; `EveryPushIsSuperseded`: each push or a later one arrives |
| | `ParameterFlow`: 2 channels, 3 changes, 2 rebuilds, MIDI on one mute and one solo | `ParametersAgree`, `SoloGroupsAgree` |
| | `HasCycleSearch`: all 512 graphs of 3 nodes | `AnswersHasCycle`, `Answers` |
| | `Views`: main and 2 channels, 1 at first, 4 modules, 3 at first, 2 actions, 3 switches of subscriptions | `ViewFollowsState`, `CallsReachTheLiving` |
| `worker` | worker: 4 tasks | `TaskIsNotRaced`, `NoTaskLostAtStop`, implements `Handoff`, `TasksAndDestroyEnd` |
| | `StreamRingBuffer`: capacity 4, blocks of 1, 3, 4 and 7, 22 frames, sizes up to 15 | implements `FrameQueue`, `EveryFrameDelivered` |
| | `ChannelStrips`: main and 2 channels, 3 buses, 3 actions | `StripsShowRoutes` |
| `dag_executor` | executor: 5 nodes, 3 workers, 2 cycles, workers parked before a cycle begins | implements `DagSchedule`, `CycleEnds` |
| | `EngineGraph`: every routing of 2 channels, in 2 orders of addresses, every pair of effects | `GraphFollowsRoutes` |
| | `EventProcessing`: periods of 3 frames, 2 cycles, ramps of 2 steps, up to 2 events of volume and 1 of balance in a cycle | `SignalFollowsParameters` |
| | `LadspaFx`: periods of 3 frames, 2 cycles, 1 change, 3 rebuilds, up to 2 control changes in a cycle | `PluginHearsParameters` |
| | `FilterFx`: periods of 3 frames, 3 cycles, 7 kinds of events | `FilterFollowsParameters` |
| `dag_executor_underflow` | executor with 1 worker, not assumed to be parked | **violation**, finding 1 |
| `engine_rebuild` | engine: 1 stream, parameters of an effect and of a solo, 4 builds, 2 engines, answers in time | `OnlyMidiWiresDangle`, `EngineFollowsState`, `RebuildsAndClosesEnd` |
| | `AlsaStream`: 2 periods of 2 frames, 3 starts, 9 ticks | `LatencySurvivesXruns` |
| | `DeviceSelection`: 2 inputs, 1 output, 1 plug, 2 buses | `SelectionFits` |
| `engine_rebuild_timeout` | 1 stream, 2 builds, any time | **violation**, finding 2 |
| `engine_rebuild_midi` | 1 effect with a parameter, 3 builds, 1 engine, answers in time | **violation**, finding 3 |
| `mixer_routing` | main and 2 channels, 1 bus, 2 names a user may type | `ListsAgree`, `RoutesResolve`, `OnlyRemovalClosesCycles`, `NamedBusTakesWaiting` |
| | `SessionRestore`: main and 2 channels; one family of states varies routes, names and buses, another effects and MIDI | `SessionComesBack` |
| | `MidiDevices`: 2 devices, 2 ports, 2 plugs, 1 restart | `EnabledDevicesWork` |
| `mixer_routing_cycles` | main and 3 channels | **violation**, finding 4 |
| `fx_chains` | chains: session of up to 2 modules, fewer than 3 ids given by the user, 1 plugin, 1 control, rebuilds succeed, nothing is removed while it is learned | `ChainsAgree`, `PluginsAgree`, `ReferencesResolve`, `MissingIsReloaded` |
| | `Recorder`: 2 channels, 2 starts, 1 restart, 3 frames over rings of 2, 1 stream of which writes lose frames, in runs without the restart | `TakesAreWhole` |
| | `ScopeView`: views of 2 and 3 pixels, 6 chunks of 5 frames, resolutions 1 and 3, pixels of 1 and 8 frames, 2 changes | `StreamsShowOneMoment` |
| | `SpectrumView`: window of 4, chunks of 3 and 5 up to 13 frames, 3 changes | `SpectraShowOneMoment` |
| `fx_chains_learning` | chains: no session, 2 ids | **violation**, finding 5 |
| `scope_drops` | `ScopeView` as above | **violation**, finding 6 |

Why the bounds are enough:

- `SpscSlot`: the behaviour repeats when each cell has been in each of three
  roles; six pushes go through the cells twice. The proofs need no bound.
- `Worker`: two tasks would do; four show that nothing adds up. Proved for any
  number.
- `DagExecutor`: the graph has two initial nodes, two nodes with two parents
  each, one of which gets both of its parents from different threads, and a
  node whose children can become ready together. Two cycles let the state of
  one leak into the next. Safety is proved for any graph, threads and cycles.
- `EngineRebuild`: a stream can be captured, dropped and captured again, an
  effect and a solo can come into use, leave it and come back, with a MIDI
  control or without; an engine can fail and be followed by another. Proved for
  any bounds, streams and parameters.
- `StreamRingBuffer`: blocks are smaller than, equal to and larger than the
  ring and than what is left to its end; 22 frames are more than four times
  around. Proved for any sizes.
- `HasCycleSearch`: three nodes have self-loops, two-cycles, three-cycles,
  diamonds and unconnected parts. Proved for any set of nodes.
- `MixerRouting`: a cycle needs two channels besides the one that closes it.
  One bus is enough for a bus to appear in the other direction, since it can be
  deleted and added again. The lists and routes are proved for any bound.
- `ChannelStrips`: with three buses, mono and stereo in and out, every menu has
  entries before and after the sections it skips; three actions let a route be
  set, what it names be removed, and be chosen again.
- `FxChains`: with three modules in one chain the focus has a module before and
  one after it; two missing modules of a session are both replaced, and
  could shift each other's place; a batch that has begun is not bounded, so each
  one ends. A second plugin only multiplies the first; with one control, an
  assignment always takes over the one before. Proved for any bounds.
- `EngineGraph`: two channels and the main one have chains of routes, splits and
  joins; a pair of effects has an identity before, after and beside another.
- `ParameterFlow`: three changes are one by each writer; of two rebuilds either
  may fail. Proved for any bounds.
- `EventProcessing`, `LadspaFx`, `FilterFx`: a period of three frames has a
  first, a middle and a last one, so that events meet, follow and leave a
  remainder; the second and third cycle begin with what the one before left.
  A smoother of two steps ends inside a period or in the next one. `FilterFx` is
  proved for any periods, signals and events.
- `Views`: an edit script of two actions inserts, erases and moves; three
  switches subscribe, give up and subscribe again. Proved for any of them.
- `ScopeView`, `SpectrumView`: chunks are longer and shorter than a window and
  not its multiples, so that edges fall at, before and after a cut.
  `SpectrumView` is proved for any window, chunks and changes.
- `SessionRestore`: two channels can name each other, so that one is named before
  it is restored; runs follow each other without a bound, each with or without
  the plugin and the devices, since what a run leaves are two files of few forms.
- `Recorder`, `MidiDevices`: one restart shows what is carried over; of two
  streams, one that loses frames stands beside one that does not; such a loss is
  not combined with a restart, since what a start does depends on the directories
  and not on what the files hold; two devices can swap their ports. `Recorder` is proved for any bounds and any capacity,
  `MidiDevices` for any devices, ports and bounds.
- `AlsaStream`: nine ticks are more than four periods, so each ioctl is delayed
  by more than the whole buffer, and a second xrun meets the restart of a first.
  Proved for any periods, starts and ticks.
- `DeviceSelection`: inputs with and without a configuration in common with
  the output, and one that goes between listing and opening. Proved for any
  devices and anything they can be set to.

Symmetry is used by the runs of `MixerRouting` only: the module chooses no
channel or bus by its id (`Erased` chooses an index), the main channel is kept
out of the permutations, and the runs check no liveness. Deadlock is not
checked where a bound on the number of operations ends a subject, where the
search has answered, where a worker was destroyed, or where a failed assertion
has ended the program. `MixerRouting` checks it.

### Fairness, and assumptions on time

- `SpscSlot`: the consumer is polled (each audio period, or each tick of a
  timer). The producer owes nothing.
- `Worker`: the thread runs, and an owner that is inside a call goes on. Nobody
  has to call.
- `DagExecutor`: each thread, and a caller inside `operator()`, goes on.
  Whether to start another period is open.
- `EngineRebuild`: a main thread inside a rebuild or a close goes on, and the
  audio thread runs. User actions are open.
- `StreamRingBuffer`: a block that was begun is finished, and the main thread
  polls.
- `HasCycleSearch`: the recursion goes on.

All of it is weak fairness of one thread: what a scheduler gives to a thread
that can run. The other modules have safety properties only, and no fairness.

Three specifications restrict the steps by an assumption that the code does not
enforce. They are stated in the modules as `TimelyNext`, and of each there is a
run without it (`dag_executor_underflow`, `engine_rebuild_timeout`,
`fx_chains_learning`):

- `DagExecutor`: all workers are parked when a cycle begins. A period later
  they nearly always are; nothing waits for it.
- `EngineRebuild`: an audio thread that runs answers an offer within the 200 ms
  of `process.cpp:54`.
- `FxChains`: a rebuild succeeds, and nothing is removed while its parameter is
  being learned.

## 5. The proofs

All theorems are proved by TLAPS to the last leaf. The only assumptions are the
named ASSUMEs on the constants, each in the module that declares them, which TLC
evaluates in the runs.

**DagExecutorProofs** (any graph, threads, cycles and size of the stack, under the
assumption that the workers have parked before a cycle begins). The threads share
three things, and `IInv` says what each is: the counter of a node is the number
of parents that have not told it yet (`ParentsAreCounted`), the counter of the
cycle the number of nodes not counted down (`NodesAreCounted`), and a node whose
parents have all told it is in one place at most, to be pushed, on the stack or
with one thread (`ReadyHavePlaces`). The caller's unsynchronised push is safe
because every thread is parked until all initial nodes are on the stack
(`CallerPushesAlone`); that is where the assumption on time is used. A node that does not fit on the
stack is lost, which delays the cycle for ever but runs nothing twice or early.
From it: `SpecIInv`, `SpecImplementsDagSchedule`, and
`SpecCounterNeverUnderflows`: the assumption on time is all that finding 1 takes.

*Workers* (`Worker`, any number of tasks), the threads of the executor, are in the
same module. The argument is that of a token: exactly one of the finished
semaphore, the owner, the work semaphore and the thread holds the right to touch
the task. `TokenInv` says for each holder what the others are, how many tasks have
run, and what a stop that is under way means. From it:
`SpecSemaphoresStayBinary`, `SpecTaskIsNotRaced`, `SpecTasksRunInOrder`,
`SpecNoTaskLostAtStop`, `SpecImplementsHandoff`.

*The filter* (`FilterFx`, any length of a period, coefficients, signals and events;
`FilterAssumption` says that events are in the period and numbers are whole). The
property states the difference equation over a whole period, the second biquad over
those frames only at which there is one; the code keeps two numbers per biquad and
runs from cut to cut. `IsReference` is between the two: after each frame, what either
biquad remembers. The equation has it (`ResponseFacts`, and `AnswersAreReference`,
where the frames of the second biquad are counted), one sample is one step of it
(`SampleIs`), hence a slice in which the values stay is a piece of it (`SliceIs`);
between two events the values stay (`ValuesBetween`), an event changes the
coefficients and nothing that is remembered (`EventIs`), and so the events of a
period, wherever they cut, end at its last frame (`SlicedIs`). That a bypass passes
takes two frames after which nothing of what was before is remembered
(`BypassPasses`). The invariant `FilterInv` adds that the processors have the
coefficients of the values that the converter remembers. Equation, slices, events
and the order of the offsets are recursive functions: that there is one, and which,
is shown by the least place where it would not be so. From it:
`SpecFilterFollowsParameters`.

**StreamRingBufferProofs** (any capacity and blocks, and any `size_t` that holds
`2 * capacity + 2`, as `SizesAssumption` says: an index is not reduced before the
capacity is added to it). The indices alone do not say how full the ring
is. `IInv` counts what is held, says that the write index is that many cells
ahead of the read index (`IndicesSpanHeld`), that these cells hold the next
frames in order (`CellsHoldNext`), that a write under way fits behind them and
that a read under way lies within them, though its view of the write index may
be old. The lemmas are about cells modulo the size. From it: `SpecIInv`, and
step by step `SpecImplementsFrameQueue`.

*Takes* (`Recorder`, any channels, capacity, cycles, starts and restarts). What was
recorded of a stream is in the ring of its processor, in what an update has
collected, or in its file. `Data` is the three in a row: moving frames from one to
the next leaves it as it is, or marks the stream as cut short and takes a piece
out of the middle (`PieceIsLost`); a cycle appends its frame, or marks the stream
as overflowed. `DataIsWhole` says that it ascends, whatever was lost; that it has
no gap and reaches the last cycle if nothing was; and that those streams of a take
that no write has cut short began with the same frame, which is why what their
files hold starts together although they are filled one after another.
It rests on three kinds of bookkeeping: the streams of a take and no others write
to the files of its directory (`TakeIsOpen`), an engine that runs records those
whose channels exist, and one that failed has nothing of a later take
(`EngineIsOfTake`), and each stream is asked once per update (`CallIsOfTake`).
From it: `SpecTakesAreWhole`.

*Spectra* (`SpectrumView`, any window function, waves, chunks and changes). Shifting
two chunks into a window one after the other is shifting in both at once
(`ShiftedTwice`), so a window is a function of all that came since the generator
was made, and the windows of two streams agree because a change makes both
generators anew, even that of a stream that is off (`UpdatePropertyKeeps`). A stream
that is off keeps an old window, and is made anew before it is on again: hence the
condition in `WindowIsRecent`. The level falls towards the magnitude of the
window and not below it (`EnvelopeFalls`). The magnitude is a sum, defined by
recursion over the window; that there is such a sum, and that it is a number, is
shown by the least place where it would fail (`SumIsThere`, `SumStaysIn`). From it:
`SpecSpectraShowOneMoment`.

**EngineRebuildProofs** (any streams, builds and engines, under the assumption on
time). The two threads share no lock. The argument is where the executor of the
newest build is: nowhere yet (`Settled`), offered, taken while the one before
is on its way back, or returned for (`ExecutorsHavePlaces`); the promise is new
when the offer is made; a device that runs has its thread; and what is
registered is what the processors capture (`StreamsAreHeld`), except after a
failure, when nothing runs. What an executor runs is compared with what is owned:
`KeptFits` says that the components of the executor in use are those the engine
keeps, with its MIDI wires to them where they have one, `NewFits` the same of
the one that is built, and `BuildsAreCounted` that no processor is of a build to
come, so that a processor made now is no other one. From it:
`SpecOnlyMidiWiresDangle` and `SpecEngineFollowsState`, for `FairTimelySpec`. That
every processor exists cannot be proved, as finding 3 is within that assumption.

The same module has the device. *Period loop* (`AlsaStream`, any sizes and numbers
of periods, starts and ticks): a frame waits for the reader, is in the buffer of the
transfer, or waits to be played, and the three add up to `buffer_size`
(`FramesAddUp`). Along them the ticks of capture ascend without a gap
(`CapturedInOrder`, `ReadInOrder`, `WriteInOrder`, `QueuedInOrder`), so what a
tick plays is older by `buffer_size`, whichever ioctls come between. After an
xrun the same has to be built up from nothing: `SilenceFills` counts the silence
that the writer queues before the streams start, and no error but one of the
device leaves the loop (`StreamPlaces`). From it: `SpecLatencySurvivesXruns`.
*Choice* (`DeviceSelection`, any finite sets of devices, whatever each can be set to):
each value is chosen among those that both devices offer together with the ones
chosen before it (`ChosenCanBeSet`, `BothCanBeSet`), also when the list of devices
is old and the device is found by its index; the buses are checked against the
number of channels that was asked for last. `Min` of the library is a CHOOSE;
that a set of numbers has a least one comes from well-foundedness
(`MinIsOneOfThem`). From it: `SpecSelectionFits`.

**ParameterFlowProofs** (any channels, targets, groups, assignments, changes and
rebuilds; `FlowAssumption` says that an empty slot is told from a value and an
expired pointer from a processor). The
argument is where the newest value of a parameter is (`Arrives`): in the slot
towards the engine, then it is the state's; in the slot towards the state, then
it is the engine's; or in neither, and they agree. A parameter can only be in
both after it crossed a value. A rebuild must not break this, although the
factory's pointer, the slots and the switches change at different steps:
`FoundAreOwn`, `FoundAreWired` and `OfferedAreInitialized` say which generation
is found, which runs, and that the one on offer has the values of the state.
`GroupsAreTold` says that a channel whose switch is new has an event waiting that
will tell its group. From it: `SpecIInv`, `SpecParametersAgree` and
`SpecSoloGroupsAgree`. The proofs do without the run's restriction that the
channel whose solo MIDI controls stays in its group.

*Slots* (`SpscSlot`, any number of pushes), through which the values go, are in the
same module. That the three positions are three different cells
(`CellsAreOwned`) is inductive by itself. What the cells hold is
not: that the parked cell, when marked, holds the newest value needs that an
assignment to the producer's cell touches neither the parked cell nor the
consumer's, which is ownership. `SlotInv` adds that a finished assignment holds the
next number, that the mark a consumer has seen is still there when it exchanges
(a commit sets it again, only the consumer removes it), and that without a mark
the consumer has the newest value. From it: `SpecTypeOK`, `SpecCellsAreOwned`,
`SpecNoTornRead`, and step by step `SpecImplementsLatestValue`.

**MixerRoutingProofs** has three parts. *Routes* (any channels, buses and names):
`IInv` is the types with `ListsAgree`, `RoutesResolve` and `MonoTakesNoChannel`: a bus can only be
redirected in one direction because it is in one list, so routes need lists.
Lemmas say what appending, erasing and swapping do to a list without
repetitions, and what redirecting does to routes. `SpecOnlyRemovalClosesCycles`
compares the graphs: of the steps that keep all channels, a route is checked
before it is set, a bus has no edges, and a new channel has no edge into it
(`NewChannelClosesNoCycle`, `FewerRoutes`). For `SpecNamedBusTakesWaiting`, a
step names no bus (`NothingNamed`) or one, with the routes of its direction that
waited for the name redirected to it (`OneNamed`).

*The search* (any graph): `SearchInv` says that the stack is a path of the graph,
that its nodes are the visited ones that are not finished, that each frame still
has to visit what is not visited below it, that below a finished node everything
is finished, and that no set of finished nodes circles. A call that meets a node
of the stack closes a circle, the piece of the stack from there on
(`PathClosesCircle`); one that finishes a node cannot close one
(`FinishedStaysAcyclic`). From it: `SpecMarksAreRight`, `SpecAnswersHasCycle`.

*The strips* (any channels, buses and names a user can give; `UserNameAssumption`
says that no bus is called "Mix", the text that a strip shows for the mix, and
`LoadedAssumption` what a session can hold). An action of a strip is an action
of the mixer or leaves the routes alone, so `IInv` of *Routes* carries over, and
`StripInv` adds what the menus leave out: a target is stereo, a name a route
waits for is one that a bus has had, and no channel sends to itself. A menu is
a list that is built in an order of its own, and the entry handed back is an
index into it, so the proof says what each list holds and in which order
(`DeviceRoutesFacts`, `MenusFacts`). What is offered is what `valid_io_channels`
allows, and what is shown is always among it (`ShownIsOfferedHolds`,
`NotMixedAgreesHolds`). An entry that was chosen is followed through its action
to the text of the new state (`InputActions`, `OutputActions`); every other
action forgets the choice. From it: `SpecStripsShowRoutes`.

**FxChainsProofs** (any channels, plugins, controls, ids and size of a session).
Between the first and the last action of a batch the state need not be one that
a user could have made, so the invariant `FxInv` has to say what a batch may
still hold. `StateFits` is about the state alone: each module has one place
(`PlacesAgree`) and the focus is on one of them. `PendingFits` says that the
batch is one of three kinds: one that begins with the deletion without a chain
that asserts (`Aborts`), the session or one action of a user with the unloading
it leaves (`Plain`), or the rest of a reload (`Reload`): deletions, each followed
by the load into its place, where a load whose deletion has been reduced makes
the places behind it one too low (`PlaceNow`). `Covers` says that a module that
waits for a plugin that can be loaded is going to be deleted by what is left.
The lemmas say what opening and closing a place does to the others (`Opens`,
`PlacesAfterInsert`, `PlacesAfterRemove`); `ReloadAfterDelete` and
`ReloadAfterLoad` carry the places of the rest over to the next state. From it,
for `Spec` with every rebuild that fails: `ChainsStayApart`, `ReloadMissesNone`.
For `TimelySpec`, `TimelyInv` adds that the plugins loaded are those of the
modules and of the unloading that is next, that the engine runs plugins of the
state, and that what is learned and assigned exists: `PluginsStayLoaded`,
`ReferencesStayResolved`. The proof of the former shows where the assumption on
the rebuild is needed: an `unload` comes after the rebuild that made an engine
without the plugin.

**MidiDevicesProofs** (any finite sets of devices and ports, any number of plugs
and restarts; `MidiAssumption` says that the constant for nothing is no device
and no set of names). What the user wants reaches a device through five places
that know of each other only by ids and names: the ports, what is announced of
them and not read, the manager's list, the updates that were read and not
handled, and the queue. `MidiInv` goes from one to the next.

- `KernelInv`: what is announced of a port alternates, and the last of it is how
  the port is. So a start that is read late names what is there now, or is
  followed by an exit.
- `KnownInv`: a port that the manager knows leaves before it starts again, under
  whatever name; a port of which nothing is announced is known if and only if
  something is plugged there; a device is known at one port that it is not going
  to leave. With it each port has one id (`PortsHaveOneId`).
- `UpdatesFit`, `AwaitedAreAway`: what the updates make of the devices, the
  awaited names and the actions is fixed as they are read, not when they are
  handled, and none of it loses or repeats a name (`AdditionFits`, `RemovalFits`).
  `Updated` is a recursion over the updates; that it has a value for each
  length, and a last step, is shown by the least place where that would fail
  (`AfterOneMore`).
- `StateFits`, `ActionsFit`, `WishesFit`: a name that is kept is at one place,
  enabled, awaited, or on its way in an action. Of devices with names of their own
  these also give what the handlers assert of `m_enabled_devices` (`midi_control_middleware.cpp:116`, `:129`).
- `EnabledAreConnected`: an enabled device is subscribed unless its leaving is
  announced, and the engine that was opened last knows its port under its id.

All but the types and the kernel is claimed while no port is both scanned and
announced, as the property is. From it: `SpecMidiInv`, `SpecEnabledDevicesWork`.

**ViewsProofs** (any channels, modules, names, session, actions and switches;
`ViewsAssumption` says that the main channel is told from the others and that a
list of the session names nothing twice). A property of all the models at rest
has to be said of a user interface in the middle of a notification, and of one
in the middle of an edit of a list. So the invariant is about the record `Ui`,
each operation takes one that fits to one that fits, and the actions are put
together from them.

- `TreeFits`, `ShownFits`: each model but two is one row of one list, the ids of
  the rows are the list that was last handed over, and no module is in two
  chains: so a module has one row, except while an edit moves it.
- `SlotsFit`: a model that is subscribed has one slot for each thing it observes,
  and shows what that slot was last called with.
- `CallsFit`: a copy whose token is held is that of a slot that is still
  connected, which has not been called since the copy was made. This is why
  nothing is called that is gone, even when a handler destroys models whose
  copies are behind its own.
- `SlotsFollow`: a slot was last called with what it would select now, or has a
  copy that is still to be called. A batch breaks this between its actions, and
  nothing is claimed then; its last action makes copies of all slots.
- `StateFits`, `UsedFits`, `QueueFits`: no module is in two chains, ids are given
  once, and what is queued can be reduced as it was meant.

The scripts are the hard part. `EditScript` and `RowsEdited` are recursions over
two lists; that they have a value for every pair of positions is shown by the
least one where that would fail. Along the script, after the edits that
belong to the first `x` of the old list and the first `y` of the new one, the rows
are those `y`, followed by what is left of the old list after `x`, and the offset
of the deletions is `x - y`; a deletion meets its row there, an insertion its
place, whichever of two equal costs was chosen. So the result does not depend on
the costs at all. In between, a row that moves exists twice, and the lemmas say
that there is a name for the second (`NewRow`), that what is destroyed takes its
rows, slots and tokens with it and nothing else, and that the slot that is being
called survives the edit of its own list. From it: `SpecViewsInv`,
`SpecViewFollowsState`, `SpecCallsReachTheLiving`.

**Model-checked only.** Liveness and everything with ENABLED is beyond the
prover: `TasksAndDestroyEnd`, `CycleEnds`, `RebuildsAndClosesEnd`,
`EveryFrameDelivered`, `EveryPushIsSuperseded`, `Answers`. Induction over data by
the theorems of the library is too, since they take an operator as a parameter.
The proofs of the views, the filter, the spectra and the MIDI devices go around
that with functions, and the least place where a claim would fail. The following
properties compare the end of folds, most of them nested, with a definition of
their own, and have not been taken through: `GraphFollowsRoutes` (the paths of a
graph that is rewritten while it is walked), `SignalFollowsParameters`,
`PluginHearsParameters` (a period that is cut again and again), `SessionComesBack` (a session restored action by action),
`StreamsShowOneMoment` (triggers, cuts and pixels). The models of the second and the
third need RECURSIVE operators as well, in whose modules arithmetic is out of reach. Their bounds are
those of section 4.

## 6. Findings

1. **Counter below zero** (`dag_executor_underflow`, `dag.cpp:283`). A worker
   tests the node counter, and is delayed; the cycle ends without it, since
   `operator()` waits for nobody; the next cycle pushes its first node; the
   worker pops it and counts it down before the new count is stored. The
   code verifies that the counter was positive.
2. **A swap that failed and happened** (`engine_rebuild_timeout`,
   `process.cpp:61`). The wait for the audio thread times out, the audio thread
   takes the executor, the main thread finds nothing to withdraw and reports
   failure. The new processors are destroyed; the executor that runs uses them.
3. **A wire to a processor that is gone** (`engine_rebuild_midi`,
   `audio_engine.cpp:609`). `connect_midi` asks the factory for the processor of a
   parameter with a MIDI control and wires it. When the effect has just been
   bypassed, or the channel has left its solo group, the new graph has none of
   that parameter; the one found is of the engine that is being replaced, which is
   destroyed when the swap has succeeded (`audio_engine.cpp:874`). The executor
   that runs from then on has it among its jobs. No time-out is needed.
   `OnlyMidiWiresDangle` says that this is the only way: whatever else is
   executed exists, and a wire to a parameter of the graph leads to its own
   processor.
4. **A deleted channel closes a cycle** (`mixer_routing_cycles`, `state.cpp:578`).
   A channel that took its input from the deleted one falls back to the default
   input and thereby mixes what is sent to it. No check is made, and the dag
   asserts that there is no cycle. `OnlyRemovalClosesCycles` says that this is
   the only way.
5. **Learning for a parameter that is gone** (`fx_chains_learning`,
   `audio_engine.cpp:255`). Deleting a module or a channel forgets its
   assignments, and not that one of its parameters is being learned. The next
   event is assigned to it, and the rebuild asserts that it exists.
6. **More dropped than there is** (`scope_drops`, `ScopeDataGenerator.cpp:113`).
   With the trigger on a stream that is off and a resolution above 1, the
   generator of that stream counts every frame, the other one a sample of
   several. The samples to drop are counted by the first and dropped from both;
   the code asserts that they are there.

### Seen while modelling, without a run of their own

Engine and executor:

- After a swap that timed out, the ids of the dropped stream processors stay
  registered, expired, until the next success, and the retry emplaces them
  again (`stream_processor_factory.cpp:28`).
- Closing a device after finding 1's interleaving destroys an executor under a
  worker that is still in its loop (`dag.cpp:204`).
- `insert_mixer` looks for the end of a group of wires without testing for the
  end of the map (`graph_algorithms.cpp:185`): behind the last group it
  dereferences `end()`. What it reads there is the size of the map, taken for the
  address of a processor, so the group ends; `EngineGraph.InsertMixers` takes
  the groups as the walk finds them then.
- A recorder is wired behind the last effect and before the fader
  (`audio_engine.cpp:346-360`): a take does not hear volume, pan or mute.
- A channel that is muted by the solo of another and then leaves its group stays
  silent until a rebuild that succeeds tells it otherwise.
- When a user sets a value while one of MIDI is not read yet, or a rebuild
  initialises it then, state and engine hold different values until the next
  change (`ParameterFlow.crossed`).
- A rebuild that failed leaves new, expired weak pointers in the factories: solo
  and effect parameters do not reach the engine that runs until a success.
- The streams of internal modules (`state.streams`) are never removed.

State and effects:

- Deleting a channel with effects (`mixer_actions.cpp:76-89`) does not set
  `fx_chain_id` of its actions; the first one asserts. `FxChains` follows this
  into `aborted`.
- When a rebuild times out after a module was deleted, its plugin is unloaded
  all the same (`ladspa_fx_middleware.cpp:104`) while the old engine has its
  processor. `PluginsAgree` holds under the assumption only.
- `remove_fx_module` reads `fx_mod` after its removal (`state.cpp:446`); when
  what it reads is not the instance any more, an entry stays in
  `fx_ladspa_instances`. `PluginsAgree` therefore says that the store knows at
  least the plugins that are loaded.
- `mixer_actions.cpp:138` asserts of the successor of a channel that it is not
  `begin()`, which is always so; `end()` was meant.
- Two buses can get one name (`add_bus.cpp:29`), and two channels "In n": the
  number comes from the length of the list.
- A device route is shown as valid even when its bus has no device channels.
- A stereo bus renamed to the name that a mono channel waits for gives that
  channel a bus of the other type (`ChannelStrips.ShownIsOffered` leaves it out).
- LADSPA: a plugin without control inputs takes the minimum of an empty range in
  its first cycle (`plugin.cpp:514-519`); an integer port with a logarithmic
  hint asserts (`ladspa_fx_module.cpp:91`), as does a sample-rate hint; default
  hints of integer ports use bounds the port does not have; a logarithmic hint
  with a negative bound has no number as its default; a saved value is not
  clamped to the bounds of a newer plugin, and one of another type asserts.

What is played and shown:

- `smoother` copies n values with n - 1 increments of its generator: each
  slice repeats the last value of the one before, and slices of one frame
  never advance.
- One sample that is no number stays in the sums of `level_meter` until the
  engine is rebuilt.
- A bypassed filter keeps the memory of its biquads: up to two frames after the
  switch still carry it, and what is left is heard at a later change. The
  second biquad keeps its own from one use with four poles to the next. The view
  of a stereo filter shows the right side only.
- Scope: a stream that is off beside a trigger that waits grows without bound
  while none comes; one sample more is dropped than was asked for
  (`ScopeDataGenerator.cpp:51` and `:116`), so less than a window is left, and an
  edge at a cut or a sample behind it is missed; the hold time is counted in
  samples of the resolution. A session with stream A off leaves its generator
  on, and one with stream B on the left side leaves its generator on the right;
  the spectrum does the same (`SpectrumView.NotTold`). A spectrum's window joins
  frames from before and after a freeze.
- The view of a module reads the names of its chain and module once, when it is
  subscribed; parameters made later would not be subscribed.
- A batch whose last action a middleware consumes does not notify.

What outlives a run:

- Channels of one name: a route is restored to another one of that name
  (`apply_session.cpp:154-172`). A bus is looked for by its name in both
  directions.
- The session is saved into a truncated file: a crash or a full disk in between
  leaves one that cannot be read, the next start begins an empty session, and its
  end saves that. A run without its device saves no device and buses without
  channels. A missing plugin's MIDI control may duplicate one that is in use.
- A start of a take that opened no file blocks its number until a restart,
  because `create_directories` returns false for a directory that exists
  (`recorder_middleware.cpp:67`); `rec_session` advances only at a clean end
  (`access.cpp:82`), so after a crash the takes of the next run meet those of
  the last. What `writef` does not take, on a full disk, is logged and lost, and
  the recording goes on (`recorder_middleware.cpp:194-205`): the file has a gap, or
  starts later than the others of its take. Quitting while recording loses the frames since the last update.
- MIDI: a device that is plugged and gone again loses that it was enabled; a port
  that starts between the subscription and the scan is added twice; one enabled
  by an id that was unplugged and plugged in the same second is connected, and
  its activation fails later; two devices of one name can fail the assertions
  of `midi_control_middleware.cpp:116` and `:129`. Every activation closes and
  reopens the audio device.

Devices:

- Selecting a device after another one was unplugged, from a list that is old:
  `hw_params` throws `system_error` (`audio_engine_middleware.cpp:185`, `:222`)
  and nothing catches it. Lines 220-246 index the list with `npos` when a rate
  is left of a device that is gone.
- `get_hw_params` prefers access that is not interleaved
  (`get_set_hw_params.cpp:246-251`), for which there are no converters; the
  assertions at `audio_engine.cpp:898` and `:904` fail then.
- When a device has fewer channels, those of the buses are cut, and do not come
  back.

## 7. What is left out of the modelled parts

The single-threaded executor, which the application never chooses. Rounding, and
the SIMD variants of the dsp functions: numbers are integers, and exact. The
transform of the spectrum is a function of the window that is not looked into.
The measured load, thread priorities and affinities. Colors of channels. The
parsing of MIDI bytes. Models of the user interface that show one value by one
selector, after the pattern that `Views` has. Memory ordering weaker than
interleaving: `spsc_slot`, the ring buffer and the executor use acquire and
release where data is handed over; the relaxed load of `spsc_slot::consume` is
modelled as one that may be early.

## 8. What is not modelled

- **The stack of 1024 ready nodes** (`dag.cpp:274`) ignores a failing push.
  `Pushed` has it; a graph that reaches the limit is out of TLC's reach, and the
  effect, a cycle that never ends, needs no checker.
- **Hardware parameters**: which configurations a device has comes from the
  kernel, and is a constant of `DeviceSelection`.
- **Files, dlopen, system calls, logging**: input and output. That a call fails is
  a choice in the modules that make it.
- **Upgrades of session files of older versions**: a function from JSON to JSON.
- **Qt items that paint**, setup and tools: output, and programs of their own.

## 9. Running it

`tlc -config X.cfg M` for each run's module and configuration in `PROJECT.json`;
`tlapm M.tla` for the eight `...Proofs` modules, of which
`DagExecutorProofs` has the workers and the filter as well, `MixerRoutingProofs` the
search for cycles and the strips, `EngineRebuildProofs` the audio devices, and
`StreamRingBufferProofs` the takes and the spectra. With two TLC workers a passing run
takes between half a minute and four minutes, a violation seconds.
