--------------------------------- MODULE Boot ---------------------------------
(***************************************************************************)
(* Bringing the library up inside the client (src/runtime/Main.cpp,        *)
(* Extensions.cpp, engine/hook/Registry.cpp).  DllMain runs on the         *)
(* client's own thread before the client's first instruction.  From then   *)
(* on two threads run at once: the client, which reaches its engine        *)
(* initialisation and there loads the extensions, and MainThread, which    *)
(* installs the storage detours, waits for the graphics device and         *)
(* installs the features.  Both install and enable through the one hook    *)
(* engine, which has no lock.                                              *)
(***************************************************************************)
EXTENDS Integers, Sequences, FiniteSets

CONSTANTS
    BootPoints,    \* what the archive guard, the loader and the Boot features detour
    EngineInit,    \* the loader's own address, one of BootPoints
    StoragePoints, \* the storage detours, in installation order
    NormalPoints,  \* what the Normal features detour
    ExtPoints,     \* what the extensions detour
    Timeout,       \* TRUE: the wait for the device may run out
    MaxInits,      \* bound: times the client runs its engine initialisation
    MaxFailures    \* bound: addresses MinHook refuses

Storage == {StoragePoints[n] : n \in DOMAIN StoragePoints}
Points == BootPoints \cup Storage \cup NormalPoints \cup ExtPoints
Threads == {"client", "main"}

ASSUME BootAssumption ==
    /\ EngineInit \in BootPoints
    /\ StoragePoints \in Seq(Storage)
    /\ "none" \notin Points
    /\ Timeout \in BOOLEAN
    /\ MaxInits \in Nat /\ MaxFailures \in Nat

VARIABLES
    linked,  \* the addresses that have a chain
    patched, \* those handed to MinHook
    stored,  \* those whose `original` cell holds the trampoline
    live,    \* those MinHook enabled
    refused, \* those MinHook will refuse
    batch,   \* per thread, the chains its EnableAll has still to patch
    current, \* per thread, the chain it patched but did not relink yet
    client,  \* where the client's thread is
    main,    \* where MainThread is
    next,    \* MainThread: the next storage detour
    device,  \* the graphics device exists
    ready,   \* PostEnable steps ran
    loads,   \* how often the extensions were loaded
    inits    \* how often the client ran its engine initialisation

hooks == <<linked, patched, stored, live, refused>>
boot == <<hooks, batch, current, client, main, next, device, ready, loads, inits>>

None == "none"

BootInit ==
    /\ linked = {} /\ patched = {} /\ stored = {} /\ live = {}
    /\ refused \in {S \in SUBSET Points : Cardinality(S) <= MaxFailures}
    /\ batch = [t \in Threads |-> {}]
    /\ current = [t \in Threads |-> None]
    /\ client = "attach" /\ main = "absent" /\ next = 1
    /\ device = FALSE /\ ready = FALSE /\ loads = 0 /\ inits = 0

-----------------------------------------------------------------------------
(* The hook engine.  EnableAll patches the chains it finds, one after the  *)
(* other: MH_CreateHook, then the Relink that fills the cell.  It ends     *)
(* with MH_EnableHook(MH_ALL_HOOKS).                                       *)

InstallAll(points) == linked' = linked \cup points

BeginEnable(t) == batch' = [batch EXCEPT ![t] = linked']

CreateHook(t, p) ==
    /\ p \in batch[t] /\ current[t] = None
    /\ batch' = [batch EXCEPT ![t] = @ \ {p}]
    /\ IF p \in patched \cup refused
       THEN UNCHANGED <<patched, current>>
       ELSE /\ patched' = patched \cup {p}
            /\ current' = [current EXCEPT ![t] = p]
    /\ UNCHANGED <<linked, stored, live, refused, client, main, next, device,
                   ready, loads, inits>>

StoredUnlessLive(t) == stored \cup ({current[t]} \ live)
Stored(t) == stored \cup {current[t]}

CloseTail(t) ==
    /\ current[t] # None
    /\ stored' = Stored(t)
    /\ current' = [current EXCEPT ![t] = None]
    /\ UNCHANGED <<linked, patched, live, refused, batch, client, main, next,
                   device, ready, loads, inits>>

Batched(t) == batch[t] = {} /\ current[t] = None
EnabledNow == patched
EnableHooks(t) == Batched(t) /\ live' = EnabledNow

-----------------------------------------------------------------------------
(* The client's thread.                                                    *)

(* DllMain: the archive guard, the loader and the Boot features, then      *)
(* EnableAll, then the thread.  Nothing else runs yet.                     *)
Attach ==
    /\ client = "attach"
    /\ InstallAll(BootPoints)
    /\ BeginEnable("client")
    /\ client' = "arming"
    /\ UNCHANGED <<patched, stored, live, refused, current, main, next, device,
                   ready, loads, inits>>

Attached ==
    /\ client = "arming" /\ EnableHooks("client")
    /\ client' = "booting" /\ main' = "storage"
    /\ UNCHANGED <<linked, patched, stored, refused, batch, current, next, device,
                   ready, loads, inits>>

(* The client reaches its engine initialisation.  A live detour loads the  *)
(* extensions, once, before it lets the client go on; whatever their       *)
(* WXL_Load attached is enabled at the end of that.                        *)
EnterEngineInit ==
    /\ client \in {"booting", "playing"} /\ inits < MaxInits
    /\ inits' = inits + 1
    /\ IF EngineInit \in live /\ loads = 0
       THEN loads' = loads + 1 /\ client' = "loading"
       ELSE client' = "initialising" /\ UNCHANGED loads
    /\ UNCHANGED <<hooks, batch, current, main, next, device, ready>>

Attaching(points) ==
    /\ client = "loading"
    /\ InstallAll(points)
    /\ UNCHANGED <<patched, stored, live, refused, batch, current, client, main, next, device,
                   ready, loads, inits>>

EndLoadAll ==
    /\ client = "loading"
    /\ UNCHANGED hooks /\ BeginEnable("client")
    /\ client' = "enabling"
    /\ UNCHANGED <<current, main, next, device, ready, loads, inits>>

Loaded ==
    /\ client = "enabling" /\ EnableHooks("client")
    /\ client' = "initialising"
    /\ UNCHANGED <<linked, patched, stored, refused, batch, current, main, next,
                   device, ready, loads, inits>>

(* g_origEngineInit, after which the client creates its device and plays.  *)
InitialiseWhileLoading == client \in {"loading", "initialising"}
MayInitialise == client = "initialising"
Initialise ==
    /\ MayInitialise
    /\ client' = "playing" /\ device' = TRUE
    /\ UNCHANGED <<hooks, batch, current, main, next, ready, loads, inits>>

-----------------------------------------------------------------------------
(* MainThread.                                                             *)

InstallStorage ==
    /\ main = "storage"
    /\ IF next <= Len(StoragePoints)
       THEN InstallAll({StoragePoints[next]}) /\ next' = next + 1 /\ UNCHANGED main
       ELSE main' = "waiting" /\ UNCHANGED <<linked, next>>
    /\ UNCHANGED <<patched, stored, live, refused, batch, current, client, device,
                   ready, loads, inits>>

WaitIsOver == device \/ Timeout

InstallNormal ==
    /\ main = "waiting" /\ WaitIsOver
    /\ InstallAll(NormalPoints)
    /\ BeginEnable("main")
    /\ main' = "enabling"
    /\ UNCHANGED <<patched, stored, live, refused, current, client, next, device,
                   ready, loads, inits>>

Enabled ==
    /\ main = "enabling" /\ EnableHooks("main")
    /\ main' = "post"
    /\ UNCHANGED <<linked, patched, stored, refused, batch, current, client, next,
                   device, ready, loads, inits>>

PostEnable ==
    /\ main = "post"
    /\ ready' = TRUE /\ main' = "done"
    /\ UNCHANGED <<hooks, batch, current, client, next, device, loads, inits>>

-----------------------------------------------------------------------------

Patch(t) == (\E p \in Points : CreateHook(t, p)) \/ CloseTail(t)

ClientStep == Attach \/ Attached \/ EnterEngineInit \/ Loaded \/ Initialise \/ Patch("client")
MainStep   == InstallStorage \/ InstallNormal \/ Enabled \/ PostEnable \/ Patch("main")

-----------------------------------------------------------------------------

BootTypeOK ==
    /\ live \subseteq patched /\ patched \subseteq linked /\ linked \subseteq Points
    /\ stored \subseteq patched /\ patched \cap refused = {}
    /\ batch \in [Threads -> SUBSET Points]
    /\ current \in [Threads -> Points \cup {None}]
    /\ client \in {"attach", "arming", "booting", "loading", "enabling",
                  "initialising", "playing"}
    /\ main \in {"absent", "storage", "waiting", "enabling", "post", "done"}
    /\ next \in 1 .. Len(StoragePoints) + 1
    /\ device \in BOOLEAN /\ ready \in BOOLEAN
    /\ loads \in 0 .. 1 /\ inits \in 0 .. MaxInits

(* An address is live before the cell its detour calls through is filled   *)
(* only while the thread that created its hook is between MH_CreateHook    *)
(* and Relink, and the other thread's EnableAll came in between.           *)
NullOnlyInPatch == BootTypeOK /\ live \ stored \subseteq {current[t] : t \in Threads}
=============================================================================
