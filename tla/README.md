# WarcraftXL in TLA+

WarcraftXL is a library loaded into a 3.3.5a game client. It detours the
client's functions, fills tables that extensions (separately loaded DLLs) use,
and does some jobs of its own: it answers file opens, keeps memory for large
models, queues network messages, serialises asynchronous reads, and installs
functions into the client's Lua states. Extensions draw quest markers, pings,
outlines and a post-process chain; converters bring textures and models of
later formats into the client's. A patcher edits the executable so that the
client loads the library.

This directory is the formal development of those parts that keep state,
depend on an order of events, or compute something that must agree with
something else. Paths below are relative to the repository root (first-party
code lies in `src/`, `include/wxl/` and `extensions/`).

## 1. Inventory

| Component | State | Operations | What is hard | What makes it correct |
| --- | --- | --- | --- | --- |
| Hook engine `src/engine/hook/Hook.cpp` | chains of parties per address, MinHook's one slot, the parties' `original` cells | `Install`, `Enable`, `EnableAll` | no lock; client threads run through a chain while `Relink` stores its cells one by one | the documented order; no call through an empty cell; nobody linked is skipped |
| Boot, registry, extension loader `runtime/Main.cpp`, `engine/hook/Registry.cpp`, `runtime/Extensions.cpp` | two threads' progress, loaded DLLs, published services | `DllMain`, `MainThread`, phases, engine-init detour, `LoadAll`, service table | the client's thread and `MainThread` patch at once; a wait that runs out; a `WXL_Load` that fails half way | all that was installed ends up live; nothing callable is missing or unmapped |
| Patcher and PE image `src/patcher` | target, backup, sibling file, image bytes | one run of the program, `WriteVa`, `AddImport` | failure, kill or power loss between any two file operations; section arithmetic | the target is never torn; a way back exists; edits land where the address says |
| M2 arena `client/CM2Shared/Memory.cpp` | free list, blocks | `Alloc`, `Free` | commit and decommit outside the mutex, 32-bit sizes | blocks are disjoint, committed, never lost |
| Storage interception `engine/storage`, `runtime/StorageBridge.cpp` | four registries, buffered handles | open, size, read, seek, close; registration | registration while other threads open; speculative reads | first claimant wins; a handle is whole and at its start |
| Terrain phasing `client/CWorldScene/Phasing.cpp` | active phase, its tile table | set, clear, tile load | a change that fails half way; map changes | tiles agree with map and phase |
| Reads and uploads `client/SFile/Streaming.cpp`, `client/CGxDevice/Textures.cpp` | drain depth, mip table, pending counter | nested drain, guarded upload | reentrancy; a fault that unwinds through a drain | each completion served once |
| Network bridge, FrameScript bridge `extensions/wxl-runtime` | registrations, bounded queue; registry with a generation | register, queue, drain; `InstallCurrent` | two threads, budgets, throwing handlers; states replaced or cleared, faults | bounds, order, delivery; functions before scripts, everything arrives |
| Quest tracker `extensions/wxl-quest-marker` (server, native, Lua) | requests and updates in flight, native queue, addon's cache and selection | request, snapshot, select, render, transfer | stale answers, cooldowns, a full queue | what is rendered is the selected quest's marker on this map |
| Radial ping `extensions/wxl-radial-ping` (server, native, Lua) | rate limits, queue, picks, markers | pick, send, relay, drain, show | two limits that disagree, journeys, scripts of other extensions | the newest accepted ping is shown; a ping points at what was picked |
| Device and its guests `client/CWorldScene/Render.cpp`, `engine/ui`, outline, marker, water | hooked device, objects made on it | present, reset, device change | device loss and replacement, failed creations | hooks follow the device; no object of another device is drawn with |
| Post-process `extensions/wxl-modern-render` | targets, barriers, fence | one frame, resets, panel | the GPU works behind the client | borrowed surfaces come back whole; the right picture is shown |
| What extensions draw and read: marker pass, quest circles, glue zoom, ping wheel, ping frames, world shapes, grass | device states, matrices, cursor, shader copies | a pass, a circle, a draw, a script | faults in the client's code, draws in unexpected order | each draw finds the state it needs and leaves none behind |
| Process services: configuration, log, profiler, d3d9 proxy | threshold, buffer, windows, the real library | read a knob, write a line, record, create | two threads finding out a flag; sudden end of the process | no warning lost, no line dropped, one load of the runtime |
| In-place patches: blend states, texture scratch, particle budget, archive guard | the client's own tables, pools and gate of archives | repoint, resize, limit, patch and hook | a change half done, a build that is not the one expected | never worse than what shipped |
| Event bus and event sources `engine/events`, `src/client` | subscriber lists | subscribe, emit from nine detours | handlers that call the client back | each event heard once, at the time its name says |
| Converters `engine/assets/shared` | files and images | transcode, compress, bake, build | holes, cuts, limits and rounding | the result is the picture or model of the source |
| Hook point table `runtime/HookPoints.cpp` | names and addresses | attach by name | two names of one address | an extension's detour runs where the name says, once it has loaded |
| Bindings, offsets | | | none: addresses and typed views | |

`PROJECT.json` lists every component with its files and, where it is only partly
modelled, what is left out.

## 2. Modules

A component's module has its VARIABLES, one action per operation and its
properties. An `MC` module gives constants that a configuration cannot write;
those that join several components (`MCRuntime`, `MCGraphics`, `MCClientIO`,
`MCScreen`, `MCConverters`) choose one part per behaviour in the initial state
and leave the others at rest, because these parts share no state.
`Startup`, `Phasing` and `HookChain`, by contrast, really compose: the loader
runs inside a boot action, phases are read through the storage detours, the
chains implement `HookDispatch`.

| Module | Code |
| --- | --- |
| `HookDispatch`, `HookChain` | the promise of `Hook.hpp`; `Hook.cpp` |
| `Boot`, `Extensions`, `Startup` | `Main.cpp`, `Registry.cpp`; `Extensions.cpp`; both in one start, with `HookPoints.cpp` |
| `Patcher` | `PeImage.cpp`, `patcher/Main.cpp` and the patch scripts |
| `M2Arena` | `CM2Shared/Memory.cpp` |
| `AsyncDrain` | `SFile/Streaming.cpp`, `CGxDevice/Textures.cpp` |
| `ClientPatches` | `BlendState.cpp`, `TextureScratch.cpp`, `EmitterBudget.cpp`, `ZSource.cpp`, the archive guard of `StorageHook.cpp` |
| `ProcessServices` | `Config.cpp`, `Log.cpp`, `AssetProfile.cpp`, `gpu/Proxy.cpp` |
| `Storage`, `Phasing` | `StorageHook.cpp`, `StorageBridge.cpp`; `Phasing.cpp` |
| `NetworkBridge`, `FrameScript` | the two bridges of `wxl-runtime` |
| `QuestTracker` | server, native side and addon of the quest marker |
| `MarkerPass`, `QuestHighlight` | the pass of `QuestMarker.cpp`; `QuestHighlight.cpp` |
| `RadialPing`, `PingApi`, `PingAddon` | the service end to end; one ping byte for byte; `Wheel.lua`, `Init.lua`, `World.lua` |
| `RenderDevice`, `PostProcess` | device, overlay, outline, marker, water; the pipeline |
| `GlueZoom`, `Shapes`, `GrassMotion`, `ClientEvents` | `WxlGlueZoom.cpp`; `Gfx.cpp`; `GrassMotion.cpp`; `Event.cpp` and the event sources |
| `TextureConverters` | which bytes are which level; what becomes of a pixel |
| `ModelConverter` | sequences and tracks; vertex formats, regions, batches, materials |

Theorems and their proofs are in eight modules: `HookChainProofs`,
`StartupProofs` (start, in-place patches, process services), `StorageProofs`
(opens, phases, patcher, texture converters), `RuntimeProofs` (both bridges), `ClientProofs` (arena,
reads), `QuestTrackerProofs`, `DeviceProofs` (device and outline, post-process
pipeline, events, ping markers) and `ScreenProofs` (what extensions draw and show,
ping packets).

How the state corresponds to the code:

**HookChain.** `links` is `Chain::links`, `head` what `MH_CreateHook` was given
(`Chain::patched` is `head # Null`), `live` what MinHook enabled, `original`
the parties' cells. `Relink` is a loop of pointer stores in the code and a step
per store here, so callers run between any two. A caller is a client thread
inside a call: `at` is the detour it executes, `seen` those it ran, `due` those
whose cells were linked when it entered. `LiveTargets` are the addresses that
parties may join when they are already live: `EngineInitDetour` arms what the
extensions attached while `MainThread` still installs features.

**Startup.** `EnableAll` is a set of chains to patch; `CreateHook` and
`CloseTail` are the halves of patching one, and the batch ends with
`MH_ALL_HOOKS`, which also enables what the other thread has created. A folder
is its place in the sorted order; `Kinds` are the early returns of `LoadOne`.
`kPoints` is the table of hook points, of which two names may share an address,
and `Asks` the names an extension attaches to while it loads.

**ClientPatches.** One behaviour changes one part of the client. `archives` is the
gate as it was found and as it is now, the hook at the expansion setting, and
how far the client's own startup has come.

**Storage and Phasing.** An open goes through redirect, provider, native open
and transform, each stage with the registry as it is then; a registration of a
transform is two steps under two mutexes. Contents are reduced to origin, size
and position. `SetTerrainPhase` opens its WDT through this very path.

**NetworkBridge, FrameScript.** `ProcessMessage` and `QueuePacket` are the
critical sections of the network thread, `OnUpdate` ... `PacketDone` those of a
frame. `InstallCurrent` calls the client once per entry, so a registration or a
fault can come between any two calls; `owed` is the gap between pushing an
entry and bumping the generation.

**QuestTracker, RadialPing.** Connections are FIFO queues in both directions
(`requests`, `updates`); the map transfer travels in them. The native queue is
bounded and drops its oldest entry. Timers fire at any time after they are set.

**AsyncDrain.** `stack` holds the calls of the client's thread, innermost
first; a fault drops those above the guard that catches it, and with them the
decrements they owed.

**RenderDevice, PostProcess.** `on` says on which device each object was made; a
device stays alive while one of its objects is. A frame of the pipeline is a
sequence of steps over `state` (what a resource is in) and `pic` (what it
shows); `flight` is what the GPU may still be using. The `Init` of
an effect is the tables it uploads on the frame's list and its passes, each for
one format of target; a pass that meets another format shows nothing. Depth is
bound for the frame after the one that asked for it (`needsDepth`), so it comes
one frame late and stays one frame longer.

**MarkerPass, QuestHighlight, Shapes, GrassMotion, GlueZoom.** One step is one
callback of the client. A draw is recorded with the settings it met; a matrix is
the list of scales multiplied on to it; a shader is its address. The circles'
cache of guids (`QuestHighlight`) and what hangs on the zoomed character's
attachment 29 (`GlueZoom`) follow the client's objects as these come and go.

**PingApi.** Packets are sequences of named bytes, so that a reader who shifts,
cuts or swaps a field gets another value, not a wrong number.

**ProcessServices.** A knob's text is its first character, its number and its
length; of a log level only the first character counts. The threshold is found
out in three steps per thread.

**ClientEvents.** `calls` nests calls of the client; every handler may start one.
`emissions` keeps of each emission the list it began with and who heard it, in
order, for the property alone.

**Converters.** A level's bytes are known by the width and height they were
written for, a key by its time and the keys it was sampled between. Pixels and
palette entries keep their full range, blocks and palettes are smaller.

## 3. Runs

| Run | Shows | Instance, and why it is enough |
| --- | --- | --- |
| `hook` | no jump through an empty cell where parties install before their address is patched, refinement of `HookDispatch` there, complete and returning calls, cells that spell out the chain | a chain of three joined live with equal and different priorities, one of three patched afterwards, one caller of both: any interleaving of caller, relink and batch. Two callers share nothing but the cells, which only the installing thread writes |
| `startup` | what may be called and when, no detour attached by name before its extension has loaded, no table points into an unmapped DLL, all that can come up does | one address of each kind, two names of one address, two folders of four kinds of DLL, one address refused by MinHook, the wait for the device ends at any moment |
| `storage` | claim order, whole handles at their start, tiles that agree with map and phase | one opening thread against the registrations of another (redirect, two providers, two transforms, filter): opens share nothing but the registries. Two phases, two maps (symmetric), two tiles |
| `runtime` | accounting and delivery of the packets, functions before scripts, everything registered arrives | three messages into a queue of two packets and three bytes with a budget of two, three features of which two share a name; one function, script and CVar, one new state, one clearing, one refusal, one fault |
| `quest` | the rendered marker is the selected quest's cached one; the cache settles; a quest at hand gets its marker | two quests, two maps, a native queue of two, two requests and updates in flight, two events of the player: enough for an answer to be overtaken by an accept, a removal, a selection and a transfer |
| `ping` | an accepted ping is shown, markers settle on what the server last relayed | two players, two pings of one and one of the other, one event (journey, change of group, reload, logout), queues of one |
| `graphics` | hooks and objects follow the device; the outline shows this frame's units; borrowed surfaces come back; the pipeline shows this frame | two device addresses; three backbuffer descriptions, two resets, one failing creation anywhere |
| `memory_and_reads` | the arena stays partitioned; every completion is served once and uploads find their mips; patches are at worst what shipped, and no build but the expected one has its archive gate written over; warnings, windows and the proxy's single load | three threads, five pages, requests of one and two pages and one that wraps to zero; four reads, two direct uploads, two faults; two writers, a flush every three lines, one knob set at a time |
| `screen` | each draw meets its settings, circles keep their textures, a head is zoomed once, the cursor is where it is said to be, a ping frame shows marker or pointer and never both, shapes as asked, only grass moves, a ping arrives as picked, events tell the truth | two quests, three units, two devices, four models on three screens, two slots, two shapes, two grass shaders and another, calls nested two deep, names of at most three characters |
| `files` | pictures and models survive conversion; edits of the image land where they should; the target is never torn and a way back exists | three runs of the patcher over three builds with two changes and one update; pictures of at most eight texels, four levels, three conversions; libraries of two collections under maps of up to eight entries, three bands of twenty vertices and three bones |
| `hook_live` (violation) | a party published before its own cell is filled | the live chain alone |
| `runtime_faults` (violation) | a fault makes a script run twice in one state | as `runtime` |

Bounds called `Max...` cap counters (messages, faults, resets, runs, events).
They stop the environment, never the code: a bound ends what players, devices,
users and the other threads do to it. `QueueLimit`, `FlushAt`, `Levels`,
`VertexLimit` and `BoneLimit` are the code's own limits, made small so that
they are met. Each property of a passing run has at least one mutant in
`PROJECT.json`: a plausible wrong version of a definition under which the same
run fails. Deadlock checking is off where the system stops: a start, a patcher
or a conversion ends, and the others have used up what their bounds allow.

### What the violations say

* `hook_live`: the comment at `Hook.cpp:73` promises that a call in flight reads
  the old or the new successor. `Relink` runs from the head, so the predecessor
  leads to the new party before the new party's own cell is stored; a call in
  between jumps through null. Storing from the tail would avoid it.
* `runtime_faults`: after a fault in the middle of the scripts nothing is
  booked, and those that ran run again in the same state, which
  `FrameScriptBridge.cpp:82` excludes.

### Met while modelling, without a run

Where the code and its documents, or two parts of the code, disagree; the models
follow the code.

Start, hooks and storage
* Extensions load in folder order (`Extensions.cpp:258`), so `wxl-quest-marker`
  and `wxl-radial-ping` ask `wxl-runtime` for services it has not published yet
  and decline for good; `wxl-runtime/README.md` and `wxl-radial-ping/wxl.json:10`
  expect otherwise.
* After 600 ticks `MainThread` installs the Normal features without a device.
* Storage detours are installed on `MainThread`, against the comment at
  `Main.cpp:38`, and another thread's `EnableAll` can make some of them live
  before the others.
* A phase change that fails has cleared the tiles of the phase that stays
  active (`Phasing.cpp:61`), and a base map loaded before a journey is used
  after it (`:137`). `PhaseShown` says when tiles do agree.
* `Alloc` of a size within 0x20 of 2^32 gets one page; no caller asks for it.
* A completion that faults is unwound without its decrement
  (`Streaming.cpp:180`), so the depth stays up.
* A virtual address in the zero-filled tail of a section maps to file bytes of
  the next (`PeImage.cpp:84`); `Further` names the places where edits may land.
* The patcher finds a backup by name: a torn copy, or one of an earlier build,
  counts (`patcher/Main.cpp:122`).

Runtime, quests, pings
* A world entry that faults loses cleared functions until the next state, and a
  new Lua state at the address of the old one is taken for the old one.
* `FrameScriptApi.h:23` names the arguments of `Execute` in another order than
  the bridge takes them.
* `QuestMarker.cpp` returns early in ways that hide the corpse and leave a stale
  label; the flag of a flat camera keeps the last corpse position valid; a null
  device is recorded as ready.
* In `QuestHighlight.cpp` a fault leaves a pushed render state unpopped, the
  retry timer wraps with `GetTickCount`, and the cache of units is never read.
* The server's and the sender's rate limits of the radial ping differ, a sender
  may mark what nobody else was shown, and an addon loaded before the bridge
  hears nothing (`World.lua:499`).
* `RadialPing.cpp:450` reports success for a refused ping (`World.lua:435` relies
  on it), and `SetHitTestTargetAndSendPing` (`:535`) uses whatever another script
  put into the hit test. Guid 0 counts as true in `World.lua:471`.
* `Wheel.lua` does not reset `clickArmed` when it closes; the options promise that
  releasing the hotkey fires, but no binding is run on a release (`Bindings.xml`).

Drawing
* A new device at the old one's address is not hooked (`Render.cpp:228`).
* The water band's two objects are never released and block a `Reset`
  (`WaterBand.cpp:35`); marker and water may draw with objects of the old
  device. When its targets fail, the outline's mask is not wiped
  (`Outline.cpp:354`).
* `Smaa` and `Cmaa2` have no pass-through when they cannot draw
  (`SmaaEffect.cpp:221`), and one of two targets that failed is not made again
  (`Pipeline.cpp:139`).
* `Gfx.cpp:364` sets a vertex format it does not put back, against `Gfx.hpp:140`;
  `Pending` counts triangles.
* `WxlGlueZoom.cpp` keeps the zoom when the same model is entered again.
* `GrassMotion.cpp:357` substitutes by the shader's address, which a later shader
  may have; captures outlive a new device, and a draw slot that could not be hooked
  is never retried.

Services and patches
* An environment value longer than its buffer falls through to the file
  (`Config.cpp:77` against `:33`), and a sentinel file disables what the
  environment enables.
* Loads before the first frame count in a window that starts with that frame.
* `TextureScratch.cpp` ignores whether its patches were written; the way back of
  `BlendState.cpp` may itself fail; a rate that is no number exempts an emitter
  (`EmitterBudget.cpp`).
* `OnItemSlotClear` is emitted before the slot is cleared (`CharModel.cpp:68`),
  where `Event.hpp:61` says that it "was cleared". `EventsTellTheTruth` claims
  nothing of what is in the slot then; order and completeness of the emission are
  claimed of it as of every other.
* A handler that calls the client back has the event of that call told to all
  before the handlers behind it hear of the outer one: each emission keeps its
  order, the stream that one subscriber sees does not.

Converters (no code in the repository calls them)
* `TranscodeBlp` and `DdsToBlp` succeed with no level left; `LoadBlpTexture` tears
  rows whose pitch is not the width; `Unpack565` rounds differently in `Dds.cpp`
  and `Dxt.hpp`.
* The frequency split among variations (`M2Build.cpp:576`, announced at `:564`) is
  computed and never written, duplicate key times and ambient keys keep source times, more than
  three opaque materials share slot 13, and images of one base name share a path.
* Model image and skin take a slot without source weight differently: the model
  gives the first slot what rounding the weights left and the bone of that slot
  (`M2Build.cpp:728`, `:736`), the skin bone 0 (`:1143`, "zeroed on unweighted
  slots"). `ModelsMatch` asks for one bone only where the source has a weight, and
  bounds what the first slot gets without one; the run meets the case.

## 4. Fairness

* `HookChain`: a thread inside a detour or an engine function goes on (weak
  fairness of `Progress`, per caller). Nobody has to call, install or enable.
* `Startup`: both threads are scheduled. Their waits are bounded loops.
* `MCRuntime`: `OnUpdate` is the client's per-frame event and its steps are taken
  by the thread that emits it; the network thread leaves its critical section; a
  registration that pushed its entry also bumps the generation; a transition that
  cleared the globals ends in a world entry.
* `AsyncDrain` (in `MCClientIO`): the client's thread goes on, and a read that was
  asked for is answered.
* `QuestTracker`: connections deliver, handlers run, timers that are set go off,
  and a transfer arrives and loads the addon.
* `RadialPing`: the connection of each player delivers.
* All others have safety properties only.

Arrivals, registrations, faults, resets, journeys and what players do are never
fair: nothing that is proved to happen depends on them.

## 5. Proofs

A theorem here says of every value of the constants what a run of TLC says of
one instance. Each is `Spec => []Property` for the specification of the
component (two excepted: `ImplementsDispatch` is a refinement and `ShapesAsAsked`
speaks of steps), and rests on the named `ASSUME` of its module and on nothing else.
The argument is always the same: the property is part of, or follows from, an
inductive invariant, which the initial states have and every action keeps; there
is a step of the proof for each action. What follows says what each invariant adds to its
property, because that is where the reason lies why the code is right.

**Hooks** (`HookChainProofs`, from `HookAssumption`).

* `CellsAreLinks`: the cells spell out the chain, or the part of it that a
  running `Relink` has stored. `HeadInSlot`: MinHook's slot is the first link.
  `PhasedCallsAreSafe`: no call jumps through an empty cell of an address that
  is not joined live, also while others are. All from `ChainInvariant`: a party
  occurs once, in the chain of its own address and only after its `Install`
  (`LinkedOnce`: otherwise a store could change another chain's cell); a running
  `Relink` is inside its chain (`WorkInRange`); and at an address not joined live
  nobody relinks while it is live (`LiveSettled`).
* `CallsAreComplete`, also for chains joined live. `CallInv` adds that cells lead
  forward in the order of priority and installation, so that a call that is at
  a party still has before it every party it owes (`OwedAhead`).
* `ImplementsDispatch`: `Spec => DispatchSpec`, the refinement of `HookDispatch`:
  what remains of a call is the rest of the chain behind its party, and each step
  is one of the dispatcher or none.

**Start, patches, services** (`StartupProofs`).

* `SafeToCallAlways`: a cell is empty only between the creation and the relink of
  the thread that is at it; the loader's address is live or refused before the
  client initialises; a DLL that is not mapped has left every table; what a loading
  extension attached by name is live only at an address of the boot sequence or
  after `MainThread`'s wait ran out.
* `PatchesServeAlways`: the client's instructions name the complete tables or the
  shipped ones, whichever write failed, and the archive gate was only written over
  where its old bytes were found. `ProcessServesAlways`: `pending` counts
  the buffer, in which nothing warns; a level that is stored is the user's; a
  window's sums and the reported ones are all samples; the proxy serves only what
  the real library has.

**Storage** (`StorageProofs`). `OpensServedAlways`: the registries only grow at
their ends, so whoever came first when an open began is still first when its
stage looks. `PhasedIsStorage` makes that a fact about the composition with
`Phasing`. `PhaseShownAlways`: of the active phase's tiles the detour sees all
or, while another WDT is read or after it was not found, none.

**Bridges** (`RuntimeProofs`). `OwedIsDeliveredAlways`: `NetInv` keeps the byte
count of the queue, its order, and for each packet on its way that those it is
due to are registered and still to be called. `ScriptsRunOnceAlways`: the counts
that are booked, or those of the pass under way, are exactly what the state in
force has behind it.

**Arena and reads** (`ClientProofs`). `PartitionAlways`: each byte is free,
handed out, or inside one call, where the free list as `Ensure` leaves it is
sorted and has no two neighbours (`Canonical`); the rounding of sizes is done
modulo the word. `UploadSeesItsMipsAlways`: the stack alternates as the calls
nest, the wait guard and the depth follow from what is on it, and the table is
that of the innermost build; the queue holds each completion once.

**Quests** (`QuestTrackerProofs`). `MirrorAlways`: every handler ends in the same
refresh, which restores the mirror from any cache and selection. `SettlesAlways`:
a player is in a world, in a transfer with the notice on its way, or in a world
the server has not heard of yet; in the first case the last update under way of
each quest, or the cache if there is none, is of the log and the map. A queue
that drops its oldest entry does no harm, because it can only be full before the
addon is loaded, and a world is then entered with an empty cache.

**Device, events, ping markers** (`DeviceProofs`). `DeviceFollowedAlways`,
`OutlineShowsItsFrameAlways`: a device with an object on it is hooked until the
object is gone. `EventsTellTheTruthAlways`: a call that walks a list has a
record of its own, on whatever level of nesting, which holds the list and as many
hearers as the walk has passed, and a record that no call walks is full; what the
innermost call found or did still holds when it is told. `MarkersSettleAlways`: the pings of one sender keep their order from its
requests over what each client is sent to the client's queue, and the last
one relayed is the last on the way.

**Screen** (`ScreenProofs`). `DrawsInPlaceAlways` (the settings the device was
left with, told by every setter that went through, are those each draw meets),
`CirclesKeepTexturesAlways` (a swap is undone before the call returns, also by
its fault), `ZoomsOnlyOnceAlways`, `CursorTellsTheTruthAlways`,
`OneRepresentationAlways`, `OnlyGrassMovesAlways` (the shader bound is the one
asked for, or its copy) and `PingsAreAimedAlways` (a reader stops at the first
byte that is missing, one too many is refused).
`ShapesAsAskedAlways` is about the shapes: `ShapesInv` says that each of the four lists
is the pieces of the shapes asked for, in their order, so that a flush draws
exactly those and leaves nothing for the next; and what a flush sets is in the
list of what it puts back. Lists of lists are flattened by a function defined by
itself; that there is one, and only one, is shown from the least prefix at which
two would differ or none would exist (`OneUnfolds`, `SomeUnfolds`). That a shape
closes is counted: `FlattenHits` adds up, list by list, how many pieces have
given corners; a corner of a ring is in two pieces of it (`RingCloses`), and an
edge of a disc is either a spoke of the first ring, a piece of some ring, or
lies across a further ring, each in the one or two bands that can have it
(`SpokeUses`, `PieceUses`, `AcrossUses`), so that it lies between two triangles
or, on the rim, at one (`DiscCloses`). Where the index wraps, `After` and
`Before` are used for the remainder. The lemmas about flattening are the one
place where the proofs need induction over data.

**Patcher** (`StorageProofs`, from `FileAssumption` and `LayoutAssumption`).
`BackupIsWayBackAlways` and `TargetReplacedWholeAlways`: `PatchInv` says how far
a run is by what it has on disk. The target is untouched until the move and the
new image is the edited one of it; what is moved is flushed and written whole;
backups and unpatched targets are images of the client's maker.
`PatchedImagesSoundAlways` needs no state: every image in `Executables` is sound
by what `AddImport` and the scripts do to a linked build.

**Texture converters** (`StorageProofs`, from `LevelsAssumption`,
`SourcesAssumption`, `PixelsAssumption`). `PicturesSurviveAlways`: `FilesInv` says of
a file what its table may promise and of a conversion under way what it has
appended so far (`Written`: levels apart from each other, each of the size its
dimensions ask for and holding the picture of those dimensions). `PixelsInv`
follows a block or an image: the alpha steps lie between a block's end points, and
a texel takes the entry nearest to it among those that will be decoded. A box of
the median cut (`Boxed`) is never empty, shares no colour with another, and
together they hold every colour of the image; the cut stops at a full palette or
where no box has two colours left, so an image of few colours has an entry for each.

**Post-process** (`DeviceProofs`, from `PostAssumption`). `SurfacesKeptAlways`
and `ShowsThisFrameAlways`: `PostInv` gives the state of each resource at each
step of the frame (`StatesKnown`: a target of an effect rests in the state it is
made in, a borrowed one is COMMON outside a command list and in use inside), what
is borrowed (`FrameKnown`), that the GPU is at work only with everything made
(`FlightKnown`, so that no creation races with it) and that the picture holds the
effects that are done, which precede the others (`PictureKnown`). The barriers
of a step are shown to be a path (`Brings`) from the state a resource is in to
the one the next step needs.

What the assumptions ask for: sentinels differ from values, tables have the
functions' domains, limits and bounds are natural numbers, what the code
truncates or divides by is not zero, the log's quests and the drawn markers are
finite. They hold of any client. Five are about the code's world: that the page
size divides the word and the arena (`ArenaAssumption`); that "nan" is no place a
client is told (`PingAssumption`); that a shipped executable has sections that do
not overlap in the file and none with the patcher's tag (`FileAssumption`);
that it is laid out as a linker does, sections in order and apart also with their
raw sizes, an edit inside one section and not on the import descriptors
(`LayoutAssumption`), which the addresses in the scripts are chosen for; and that a
texture file is laid out by its format, where it may be cut short or lack levels
(`SourcesAssumption`).

Only model-checked:

* liveness under fairness (`CallsReturn`, `ComesUp`, `NothingForgotten`,
  `MarkerAppears`, `EveryReadServed` and `PingIsShown`), which is
  beyond the prover, like `ENABLED`;
* `ModelsMatch`: what folds and sorts over a whole file compute. Apart from
  `ShapesAsAskedAlways` the proofs avoid induction over data: the models they are
  about speak of sets of positions and of the least or last of them where the code
  loops.
* `OldOrNewSuccessor` and `RerunForNewStateOnly`, which are false.

## 6. Not modelled

* Data races inside containers. `Chains()` is a `std::deque` without a lock, and
  the event bus's vectors can be pushed to by the thread that walks them: both are
  undefined behaviour whose outcomes have no useful bound. An `Install` is one
  step on the list; nothing in the repository subscribes while emitting.
* The bindings and the offsets, and the addresses in the hook point table: typed
  views of the client's memory, a good third of the code's lines, without state
  or control.
* Code switched off with `#if 0` in `QuestMarker.cpp` and `QuestHighlight.cpp`.
* Pass-through calls (sending an opcode, `Execute`, the overlay's panels), the
  pointer validation detour, the sound-kit detour that only logs, and the byte
  patch of the liquid guard.
* The corpse marker's packets: their order against the corpse's removal is
  AzerothCore's.
* Which window messages the overlay swallows. Read, not run: of F9 it swallows
  `WM_KEYUP` alone, so the key-down still reaches the client, where
  `ImGuiHost.cpp:159` says the key "cannot also reach the game".
* Console and debugger sinks of the log, the text of lines, sums and maxima of
  the profiler, sentinel files.
* What shaders compute, quality tiers and sliders, positions and track values and
  the container bytes of models, and the parameter blocks of particles and ribbons.
* `AppendCode` of the executable editor, which nothing calls.

## 7. Plan

Proofs: two refinements that are still to be stated, an abstract reader for
`AsyncDrain` and an abstract log for `QuestTracker`; of `ModelsMatch` the parts that
need no fold (`VerticesAgree`). Liveness stays with TLC.

Modules: the track values of the model converter against a reference reader; the
bus under subscription once something in the repository subscribes late; the
corpse marker with an explicit assumption on the server's hooks.
