---------------------------- MODULE StartupProofs ----------------------------
(***************************************************************************)
(* Proofs about one start of the client (Startup, over Boot and            *)
(* Extensions): nothing can be called that is not there yet or not there   *)
(* any more, however the client's thread and MainThread interleave.  About *)
(* the patches of the client's own tables and pools (ClientPatches): at    *)
(* worst they leave what shipped.  And about the services of the process   *)
(* (ProcessServices): the configuration, the log, the profiler, the proxy. *)
(***************************************************************************)
EXTENDS Startup, ClientPatches, ProcessServices, FiniteSetTheorems, SequenceTheorems,
        WellFoundedInduction, TLAPS

USE BootAssumption, LoaderAssumption, StartupAssumption
    DEF BootAssumption, LoaderAssumption, StartupAssumption

-----------------------------------------------------------------------------
(* The hook engine under two threads.                                      *)

(* A cell is still empty only between the MH_CreateHook and the Relink of  *)
(* a thread; what a thread has to patch is installed.                      *)
HookInv ==
    /\ BootTypeOK
    /\ patched \ stored \subseteq {current[t] : t \in Threads}
    /\ \A t \in Threads : current[t] \in patched \cup {None} /\ batch[t] \subseteq linked

(* The loader's own address is patched by DllMain unless MinHook refuses   *)
(* it, so that the extensions load in the client's first initialisation,   *)
(* before it creates its device, or never.                                 *)
LoaderHooked ==
    /\ client = "attach" => linked = {} /\ live = {} /\ patched = {}
    /\ client = "arming" => EngineInit \in batch["client"] \cup patched \cup refused
    /\ client \notin {"attach", "arming"} => EngineInit \in live \cup refused
    /\ client \in {"initialising", "playing"} \/ device => loads = 1 \/ EngineInit \in refused
    /\ client \in {"loading", "enabling"} => loads = 1
    /\ client = "loading" => ~device

(* Until MainThread enables something or the extensions are loaded, only   *)
(* what the boot sequence detours is patched.                              *)
OnlyBootPatched ==
    /\ client \in {"attach", "arming"} => main = "absent"
    /\ main \in {"absent", "storage", "waiting"} => batch["main"] = {}
    /\ (main \in {"absent", "storage", "waiting"} /\ client \in {"attach", "arming", "booting", "loading"}) =>
          patched \subseteq BootPoints /\ batch["client"] \subseteq BootPoints

(* A WXL_Load runs only while the client is in LoadAll.                    *)
LoadingInside == \A f \in Folders : stage[f] = "loading" => client = "loading"

(* Who published or is called has been in WXL_Load and was not unmapped.   *)
Stays(f) == f = core \/ (f \in Folders /\ stage[f] \in {"loading", "loaded", "declined"})
LoaderInv ==
    /\ LoaderTypeOK
    /\ \A i \in DOMAIN services : Stays(services[i].owner)
    /\ \A b \in bound : Stays(b[3])
    /\ \A f \in armed : Stays(f)

BootInv == HookInv /\ LoaderHooked /\ OnlyBootPatched
StartupInv == BootInv /\ LoadingInside /\ LoaderInv

-----------------------------------------------------------------------------
(* The boot sequence, whatever the extensions do meanwhile.                *)

LEMMA InitBootInv == BootInit => BootInv
<1> SUFFICES ASSUME BootInit PROVE BootInv
  OBVIOUS
<1>1. 1 \in 1 .. Len(StoragePoints) + 1
  OBVIOUS
<1>2. HookInv
  <2>1. loads \in 0 .. 1 /\ inits \in 0 .. MaxInits
    BY DEF BootInit
  <2>2. BootTypeOK
    BY <1>1, <2>1 DEF BootInit, BootTypeOK
  <2>3. QED
    BY <2>2 DEF BootInit, HookInv
<1>3. LoaderHooked /\ OnlyBootPatched
  BY DEF BootInit, LoaderHooked, OnlyBootPatched, Threads
<1>4. QED
  BY <1>2, <1>3 DEF BootInv

LEMMA CreateHookInv ==
    ASSUME BootInv, NEW t \in Threads, NEW p \in Points, CreateHook(t, p)
    PROVE  BootInv'
<1>1. /\ p \in batch[t] /\ current[t] = None
      /\ batch' = [batch EXCEPT ![t] = @ \ {p}]
      /\ UNCHANGED <<linked, stored, live, refused, client, main, next, device, ready, loads, inits>>
  BY DEF CreateHook
<1>2. \/ p \in patched \cup refused /\ UNCHANGED <<patched, current>>
      \/ /\ p \notin patched \cup refused
         /\ patched' = patched \cup {p} /\ current' = [current EXCEPT ![t] = p]
  BY DEF CreateHook
<1>3. HookInv'
  <2>1. p \in linked /\ p # None
    BY <1>1 DEF BootInv, HookInv, None
  <2>2. BootTypeOK'
    BY <1>1, <1>2, <2>1 DEF BootInv, HookInv, BootTypeOK
  <2>3. patched' \ stored' \subseteq {current'[s] : s \in Threads}
    <3>1. \A q \in patched \ stored : \E s \in Threads \ {t} : current[s] = q
      BY <1>1 DEF BootInv, HookInv, BootTypeOK, None
    <3>2. current \in [Threads -> Points \cup {None}]
      BY DEF BootInv, HookInv, BootTypeOK
    <3>3. \A s \in Threads \ {t} : current'[s] = current[s]
      BY <1>2, <3>2
    <3>4. CASE patched' = patched
      BY <1>1, <3>1, <3>3, <3>4
    <3>5. CASE patched' = patched \cup {p} /\ current'[t] = p
      BY <1>1, <3>1, <3>3, <3>5
    <3>6. QED
      BY <1>2, <3>2, <3>4, <3>5
  <2>4. \A s \in Threads : current'[s] \in patched' \cup {None} /\ batch'[s] \subseteq linked'
    BY <1>1, <1>2 DEF BootInv, HookInv, BootTypeOK
  <2>5. QED
    BY <2>2, <2>3, <2>4 DEF HookInv
<1>4. LoaderHooked'
  BY <1>1, <1>2 DEF BootInv, HookInv, BootTypeOK, LoaderHooked, Threads
<1>5. OnlyBootPatched'
  BY <1>1, <1>2 DEF BootInv, HookInv, BootTypeOK, OnlyBootPatched, Threads
<1>6. QED
  BY <1>3, <1>4, <1>5 DEF BootInv

LEMMA CloseTailInv ==
    ASSUME BootInv, NEW t \in Threads, CloseTail(t)
    PROVE  BootInv'
<1>1. /\ current[t] # None
      /\ stored' = stored \cup {current[t]}
      /\ current' = [current EXCEPT ![t] = None]
      /\ UNCHANGED <<linked, patched, live, refused, batch, client, main, next, device, ready, loads, inits>>
  BY DEF CloseTail, Stored
<1>2. current \in [Threads -> Points \cup {None}]
  BY DEF BootInv, HookInv, BootTypeOK
<1>3. HookInv'
  <2>1. current[t] \in patched
    BY <1>1 DEF BootInv, HookInv
  <2>2. BootTypeOK'
    BY <1>1, <1>2, <2>1 DEF BootInv, HookInv, BootTypeOK
  <2>3. patched' \ stored' \subseteq {current'[s] : s \in Threads}
    <3>1. \A s \in Threads \ {t} : current'[s] = current[s]
      BY <1>1, <1>2
    <3>2. QED
      BY <1>1, <3>1 DEF BootInv, HookInv
  <2>4. \A s \in Threads : current'[s] \in patched' \cup {None} /\ batch'[s] \subseteq linked'
    BY <1>1, <1>2 DEF BootInv, HookInv
  <2>5. QED
    BY <2>2, <2>3, <2>4 DEF HookInv
<1>4. LoaderHooked' /\ OnlyBootPatched'
  BY <1>1 DEF BootInv, LoaderHooked, OnlyBootPatched
<1>5. QED
  BY <1>3, <1>4 DEF BootInv

(* What an EnableAll leaves: everything its thread had to patch is, but    *)
(* for what MinHook refused.                                               *)
LEMMA EnableInv ==
    ASSUME BootInv, NEW t \in Threads, EnableHooks(t),
           UNCHANGED <<linked, patched, stored, refused, batch, current, next, device, loads, inits>>,
           ready' \in BOOLEAN, client' \in {"booting", "initialising"} \/ UNCHANGED client,
           main' \in {"storage", "post"} \/ UNCHANGED main
    PROVE  HookInv'
<1>1. live' = patched
  BY DEF EnableHooks, EnabledNow
<1>2. BootTypeOK'
  BY <1>1 DEF BootInv, HookInv, BootTypeOK
<1>3. QED
  BY <1>1, <1>2 DEF BootInv, HookInv

LEMMA AttachInv == BootInv /\ Attach => BootInv'
<1> SUFFICES ASSUME BootInv, Attach PROVE BootInv'
  OBVIOUS
<1>1. /\ client = "attach" /\ client' = "arming" /\ linked' = linked \cup BootPoints
      /\ batch' = [batch EXCEPT !["client"] = linked']
      /\ UNCHANGED <<patched, stored, live, refused, current, main, next, device, ready, loads, inits>>
  BY DEF Attach, InstallAll, BeginEnable
<1>2. linked' = BootPoints /\ "client" \in Threads /\ "main" \in Threads
  BY <1>1 DEF BootInv, LoaderHooked, Threads
<1>3. HookInv'
  BY <1>1, <1>2 DEF BootInv, HookInv, BootTypeOK, Points
<1>4. batch'["client"] = BootPoints /\ batch'["main"] = batch["main"]
  BY <1>1, <1>2 DEF BootInv, HookInv, BootTypeOK
<1>5. LoaderHooked'
  BY <1>1, <1>4 DEF BootInv, LoaderHooked
<1>6. OnlyBootPatched'
  BY <1>1, <1>4 DEF BootInv, LoaderHooked, OnlyBootPatched
<1>7. QED
  BY <1>3, <1>5, <1>6 DEF BootInv

LEMMA AttachedInv == BootInv /\ Attached => BootInv'
<1> SUFFICES ASSUME BootInv, Attached PROVE BootInv'
  OBVIOUS
<1>1. /\ client = "arming" /\ client' = "booting" /\ main' = "storage"
      /\ batch["client"] = {} /\ live' = patched
      /\ UNCHANGED <<linked, patched, stored, refused, batch, current, next, device, ready, loads, inits>>
  BY DEF Attached, EnableHooks, Batched, EnabledNow
<1>2. HookInv'
  BY <1>1, EnableInv DEF Attached, Threads, BootInv, HookInv, BootTypeOK
<1>3. main = "absent"
  BY <1>1 DEF BootInv, OnlyBootPatched
<1>4. LoaderHooked' /\ OnlyBootPatched'
  BY <1>1, <1>3 DEF BootInv, LoaderHooked, OnlyBootPatched
<1>5. QED
  BY <1>2, <1>4 DEF BootInv

(* A detour that is live was not refused: so the loader's, if the client   *)
(* loads in an initialisation, does so in its first one.                   *)
LEMMA EnterEngineInitInv == BootInv /\ EnterEngineInit => BootInv'
<1> SUFFICES ASSUME BootInv, EnterEngineInit PROVE BootInv'
  OBVIOUS
<1>1. /\ client \in {"booting", "playing"} /\ inits < MaxInits /\ inits' = inits + 1
      /\ UNCHANGED <<linked, patched, stored, live, refused, batch, current, main, next, device, ready>>
  BY DEF EnterEngineInit, hooks
<1>2. \/ /\ EngineInit \in live /\ loads = 0 /\ loads' = 1 /\ client' = "loading"
      \/ /\ ~(EngineInit \in live /\ loads = 0) /\ client' = "initialising" /\ loads' = loads
  BY DEF EnterEngineInit
<1>3. inits' \in 0 .. MaxInits /\ loads' \in 0 .. 1
  BY <1>1, <1>2 DEF BootInv, HookInv, BootTypeOK
<1>4. HookInv'
  BY <1>1, <1>2, <1>3 DEF BootInv, HookInv, BootTypeOK
<1>5. live \cap refused = {} /\ loads \in {0, 1}
  BY DEF BootInv, HookInv, BootTypeOK
<1>6. client' = "loading" => ~device /\ client = "booting"
  BY <1>1, <1>2, <1>5 DEF BootInv, LoaderHooked
<1>7. LoaderHooked'
  BY <1>1, <1>2, <1>5, <1>6 DEF BootInv, LoaderHooked
<1>8. OnlyBootPatched'
  BY <1>1, <1>2, <1>6 DEF BootInv, OnlyBootPatched
<1>9. QED
  BY <1>4, <1>7, <1>8 DEF BootInv

LEMMA AttachingInv ==
    ASSUME BootInv, NEW points \in SUBSET ExtPoints, Attaching(points)
    PROVE  BootInv' /\ client' = "loading"
<1>1. /\ client = "loading" /\ linked' = linked \cup points
      /\ UNCHANGED <<patched, stored, live, refused, batch, current, client, main, next, device, ready,
                     loads, inits>>
  BY DEF Attaching, InstallAll
<1>2. HookInv'
  BY <1>1 DEF BootInv, HookInv, BootTypeOK, Points
<1>3. LoaderHooked' /\ OnlyBootPatched'
  BY <1>1 DEF BootInv, LoaderHooked, OnlyBootPatched
<1>4. QED
  BY <1>1, <1>2, <1>3 DEF BootInv

LEMMA EndLoadAllInv == BootInv /\ EndLoadAll => BootInv'
<1> SUFFICES ASSUME BootInv, EndLoadAll PROVE BootInv'
  OBVIOUS
<1>1. /\ client = "loading" /\ client' = "enabling"
      /\ batch' = [batch EXCEPT !["client"] = linked'] /\ linked' = linked
      /\ UNCHANGED <<patched, stored, live, refused, current, main, next, device, ready, loads, inits>>
  BY DEF EndLoadAll, BeginEnable, hooks
<1>2. HookInv'
  BY <1>1 DEF BootInv, HookInv, BootTypeOK
<1>3. batch'["main"] = batch["main"]
  BY <1>1 DEF BootInv, HookInv, BootTypeOK, Threads
<1>4. OnlyBootPatched'
  BY <1>1, <1>3 DEF BootInv, OnlyBootPatched
<1>5. LoaderHooked'
  BY <1>1 DEF BootInv, LoaderHooked
<1>6. QED
  BY <1>2, <1>4, <1>5 DEF BootInv

LEMMA LoadedInv == BootInv /\ Loaded => BootInv'
<1> SUFFICES ASSUME BootInv, Loaded PROVE BootInv'
  OBVIOUS
<1>1. /\ client = "enabling" /\ client' = "initialising" /\ live' = patched
      /\ UNCHANGED <<linked, patched, stored, refused, batch, current, main, next, device, ready, loads, inits>>
  BY DEF Loaded, EnableHooks, EnabledNow
<1>2. HookInv'
  BY <1>1, EnableInv DEF Loaded, Threads, BootInv, HookInv, BootTypeOK
<1>3. LoaderHooked' /\ OnlyBootPatched'
  BY <1>1 DEF BootInv, HookInv, BootTypeOK, LoaderHooked, OnlyBootPatched
<1>4. QED
  BY <1>2, <1>3 DEF BootInv

LEMMA InitialiseInv == BootInv /\ Initialise => BootInv'
<1> SUFFICES ASSUME BootInv, Initialise PROVE BootInv'
  OBVIOUS
<1>1. /\ client = "initialising" /\ client' = "playing" /\ device' = TRUE
      /\ UNCHANGED <<linked, patched, stored, live, refused, batch, current, main, next, ready, loads, inits>>
  BY DEF Initialise, MayInitialise, hooks
<1>2. HookInv'
  BY <1>1 DEF BootInv, HookInv, BootTypeOK
<1>3. LoaderHooked' /\ OnlyBootPatched'
  BY <1>1 DEF BootInv, LoaderHooked, OnlyBootPatched
<1>4. QED
  BY <1>2, <1>3 DEF BootInv

LEMMA InstallStorageInv == BootInv /\ InstallStorage => BootInv'
<1> SUFFICES ASSUME BootInv, InstallStorage PROVE BootInv'
  OBVIOUS
<1>1. /\ main = "storage"
      /\ UNCHANGED <<patched, stored, live, refused, batch, current, client, device, ready, loads, inits>>
  BY DEF InstallStorage
<1>2. \/ /\ next <= Len(StoragePoints) /\ linked' = linked \cup {StoragePoints[next]}
         /\ next' = next + 1 /\ main' = main
      \/ main' = "waiting" /\ linked' = linked /\ next' = next
  BY DEF InstallStorage, InstallAll
<1>3. HookInv'
  <2>1. next \in 1 .. Len(StoragePoints) + 1 /\ Len(StoragePoints) \in Nat
    BY DEF BootInv, HookInv, BootTypeOK
  <2>2. next <= Len(StoragePoints) => StoragePoints[next] \in Points
    BY <2>1 DEF Storage, Points
  <2>3. next' \in 1 .. Len(StoragePoints) + 1
    BY <1>2, <2>1
  <2>4. linked \subseteq linked' /\ linked' \subseteq Points
    BY <1>2, <2>2 DEF BootInv, HookInv, BootTypeOK
  <2>5. main' \in {"absent", "storage", "waiting", "enabling", "post", "done"}
    BY <1>1, <1>2
  <2>6. BootTypeOK'
    BY <1>1, <2>3, <2>4, <2>5 DEF BootInv, HookInv, BootTypeOK
  <2>7. QED
    BY <1>1, <2>4, <2>6 DEF BootInv, HookInv
<1>4. LoaderHooked' /\ OnlyBootPatched'
  BY <1>1, <1>2 DEF BootInv, LoaderHooked, OnlyBootPatched
<1>5. QED
  BY <1>3, <1>4 DEF BootInv

LEMMA InstallNormalInv == BootInv /\ InstallNormal => BootInv'
<1> SUFFICES ASSUME BootInv, InstallNormal PROVE BootInv'
  OBVIOUS
<1>1. /\ main = "waiting" /\ main' = "enabling" /\ linked' = linked \cup NormalPoints
      /\ batch' = [batch EXCEPT !["main"] = linked']
      /\ UNCHANGED <<patched, stored, live, refused, current, client, next, device, ready, loads, inits>>
  BY DEF InstallNormal, InstallAll, BeginEnable
<1>2. batch \in [Threads -> SUBSET Points] /\ linked' \subseteq Points
  BY <1>1 DEF BootInv, HookInv, BootTypeOK, Points
<1>3. batch'["client"] = batch["client"] /\ batch'["main"] = linked'
  BY <1>1, <1>2 DEF Threads
<1>4. HookInv'
  BY <1>1, <1>2 DEF BootInv, HookInv, BootTypeOK
<1>5. LoaderHooked'
  BY <1>1, <1>3 DEF BootInv, LoaderHooked, OnlyBootPatched
<1>6. OnlyBootPatched'
  BY <1>1, <1>3 DEF BootInv, OnlyBootPatched
<1>7. QED
  BY <1>4, <1>5, <1>6 DEF BootInv

LEMMA EnabledInv == BootInv /\ Enabled => BootInv'
<1> SUFFICES ASSUME BootInv, Enabled PROVE BootInv'
  OBVIOUS
<1>1. /\ main = "enabling" /\ main' = "post" /\ live' = patched
      /\ UNCHANGED <<linked, patched, stored, refused, batch, current, client, next, device, ready, loads, inits>>
  BY DEF Enabled, EnableHooks, EnabledNow
<1>2. HookInv'
  BY <1>1, EnableInv DEF Enabled, Threads, BootInv, HookInv, BootTypeOK
<1>3. LoaderHooked' /\ OnlyBootPatched'
  BY <1>1 DEF BootInv, HookInv, BootTypeOK, LoaderHooked, OnlyBootPatched
<1>4. QED
  BY <1>2, <1>3 DEF BootInv

LEMMA PostEnableInv == BootInv /\ PostEnable => BootInv'
<1> SUFFICES ASSUME BootInv, PostEnable PROVE BootInv'
  OBVIOUS
<1>1. /\ main = "post" /\ main' = "done" /\ ready' = TRUE
      /\ UNCHANGED <<linked, patched, stored, live, refused, batch, current, client, next, device, loads, inits>>
  BY DEF PostEnable, hooks
<1>2. HookInv'
  BY <1>1 DEF BootInv, HookInv, BootTypeOK
<1>3. LoaderHooked' /\ OnlyBootPatched'
  BY <1>1 DEF BootInv, LoaderHooked, OnlyBootPatched
<1>4. QED
  BY <1>2, <1>3 DEF BootInv

LEMMA BootStepInv ==
    ASSUME BootInv,
           \/ ClientStep \/ MainStep \/ EndLoadAll \/ UNCHANGED boot
           \/ \E points \in SUBSET ExtPoints : Attaching(points)
    PROVE  BootInv'
<1>1. ASSUME NEW t \in Threads, Patch(t) PROVE BootInv'
  BY <1>1, CreateHookInv, CloseTailInv DEF Patch
<1>2. CASE ClientStep
  BY <1>1, <1>2, AttachInv, AttachedInv, EnterEngineInitInv, LoadedInv, InitialiseInv DEF ClientStep, Threads
<1>3. CASE MainStep
  BY <1>1, <1>3, InstallStorageInv, InstallNormalInv, EnabledInv, PostEnableInv DEF MainStep, Threads
<1>4. CASE UNCHANGED boot
  BY <1>4 DEF BootInv, HookInv, BootTypeOK, LoaderHooked, OnlyBootPatched, boot, hooks
<1>5. QED
  BY <1>2, <1>3, <1>4, EndLoadAllInv, AttachingInv

-----------------------------------------------------------------------------
(* The loader.                                                             *)

LEMMA LeastOfFinite ==
    ASSUME NEW S, S \subseteq Nat, S # {}
    PROVE  \E x \in S : \A y \in S : x <= y
<1> DEFINE R == OpToRel(<, Nat)
<1>1. IsWellFoundedOn(R, Nat)
  BY NatLessThanWellFounded
<1>2. R = {ss \in Nat \X Nat : ss[1] < ss[2]}
  BY DEF OpToRel
<1> HIDE DEF R
<1>3. PICK x \in S : \A y \in S : ~(<<y, x>> \in R)
  BY <1>1, WFMin
<1>4. \A y \in S : ~(y < x)
  BY <1>2, <1>3
<1>5. QED
  BY <1>3, <1>4

(* A finite set can be listed.                                             *)
LEMMA SetToSeqIsSeq ==
    ASSUME NEW S, IsFiniteSet(S)
    PROVE  SetToSeq(S) \in Seq(S)
<1>1. Cardinality(S) \in Nat /\ ExistsBijection(1 .. Cardinality(S), S)
  BY FS_CardinalityType
<1>2. \E f \in [1 .. Cardinality(S) -> S] : IsInjective(f)
  BY <1>1 DEF ExistsBijection, Bijection, Injection
<1>3. SetToSeq(S) \in [1 .. Cardinality(S) -> S]
  BY <1>2 DEF SetToSeq
<1>4. QED
  BY <1>1, <1>3

(* What the core publishes comes from the core.                            *)
LEMMA InitLoaderInv == LoaderInit => LoaderInv /\ LoadingInside
<1> SUFFICES ASSUME LoaderInit PROVE LoaderInv /\ LoadingInside
  OBVIOUS
<1> DEFINE S == {[key |-> k, owner |-> core] : k \in CoreKeys}
<1>1. IsFiniteSet(S)
  <2> DEFINE give == [k \in CoreKeys |-> [key |-> k, owner |-> core]]
  <2>1. give \in Surjection(CoreKeys, S)
    BY DEF Surjection
  <2> HIDE DEF give, S
  <2>2. QED
    BY <2>1, FS_Surjection
<1>2. services \in Seq(S)
  <2> HIDE DEF S
  <2>1. SetToSeq(S) \in Seq(S)
    BY <1>1, SetToSeqIsSeq
  <2>2. services = SetToSeq(S)
    BY DEF LoaderInit, S
  <2>3. QED
    BY <2>1, <2>2
<1>3. S \subseteq Service
  BY DEF Service
<1>4. \A s \in S : s.owner = core
  OBVIOUS
<1> HIDE DEF S
<1>5. services \in Seq(Service)
  BY <1>2, <1>3
<1>6. \A i \in DOMAIN services : services[i].owner = core
  BY <1>2, <1>4
<1>7. /\ image \in [Folders -> Images] /\ stage = [f \in Folders |-> "unseen"]
      /\ bound = {} /\ armed = {}
  BY DEF LoaderInit
<1>8. LoaderTypeOK
  BY <1>5, <1>7 DEF LoaderTypeOK, Stages
<1>9. QED
  BY <1>6, <1>7, <1>8 DEF LoaderInv, LoadingInside, Stays

(* Where a folder may come to without a service, a handler or an interface *)
(* of its own being lost: not from WXL_Load to unmapped.                   *)
LEMMA StageInv ==
    ASSUME LoaderInv, NEW f \in Folders, NEW s \in Stages, StageIs(f, s),
           Stays(f) => s \in {"loading", "loaded", "declined"},
           UNCHANGED <<image, services, bound, armed>>
    PROVE  LoaderInv'
<1>1. stage \in [Folders -> Stages] /\ stage' = [stage EXCEPT ![f] = s]
  BY DEF LoaderInv, LoaderTypeOK, StageIs
<1>2. ASSUME NEW g, Stays(g) PROVE Stays(g)'
  BY <1>1, <1>2 DEF Stays, core, Folders
<1>3. LoaderTypeOK'
  BY <1>1 DEF LoaderInv, LoaderTypeOK
<1>4. QED
  BY <1>2, <1>3 DEF LoaderInv

LEMMA FolderIsNotCore ==
    ASSUME NEW f \in Folders, Stays(f)
    PROVE  stage[f] \in {"loading", "loaded", "declined"}
BY DEF Stays, core, Folders

LEMMA GetInterfaceInv ==
    ASSUME LoaderInv, NEW f \in Folders, NEW k \in Keys, GetInterface(f, k)
    PROVE  LoaderInv'
<1>1. Served(k) /\ bound' = bound \cup {<<f, k, Server(k)>>} /\ UNCHANGED <<image, stage, services, armed>>
  BY DEF GetInterface
<1>2. Offering(k) # {} /\ Offering(k) \subseteq Nat /\ Offering(k) \subseteq DOMAIN services
  BY <1>1 DEF Served, Offering, LoaderInv, LoaderTypeOK
<1>3. \E i \in Offering(k) : \A j \in Offering(k) : i <= j
  BY <1>2, LeastOfFinite
<1>4. PICK i \in Offering(k) : Server(k) = services[i].owner
  BY <1>3 DEF Server
<1>5. i \in DOMAIN services /\ services[i] \in Service
  BY <1>2, <1>4 DEF LoaderInv, LoaderTypeOK
<1>6. Server(k) \in Folders \cup {core} /\ Stays(Server(k))
  BY <1>4, <1>5 DEF Service, LoaderInv
<1>7. bound' \subseteq Folders \X Keys \X (Folders \cup {core})
  BY <1>1, <1>6 DEF LoaderInv, LoaderTypeOK
<1>8. \A b \in bound' : Stays(b[3])
  BY <1>1, <1>6 DEF LoaderInv
<1>9. QED
  BY <1>1, <1>7, <1>8 DEF LoaderInv, LoaderTypeOK, Stays

LEMMA PublishInv ==
    ASSUME LoaderInv, NEW f \in Folders, NEW k \in Keys, Publish(f, k)
    PROVE  LoaderInv'
<1>1. /\ stage[f] = "loading" /\ services' = Append(services, [key |-> k, owner |-> f])
      /\ UNCHANGED <<image, stage, bound, armed>>
  BY DEF Publish
<1>2. services \in Seq(Service) /\ [key |-> k, owner |-> f] \in Service
  BY DEF LoaderInv, LoaderTypeOK, Service
<1>3. services' \in Seq(Service)
  BY <1>1, <1>2
<1>4. Stays(f)
  BY <1>1 DEF Stays
<1>5. \A i \in DOMAIN services' : Stays(services'[i].owner)
  BY <1>1, <1>2, <1>4 DEF LoaderInv
<1>6. QED
  BY <1>1, <1>3, <1>5 DEF LoaderInv, LoaderTypeOK, Stays

LEMMA ArmInv ==
    ASSUME LoaderInv, NEW f \in Folders, Arm(f)
    PROVE  LoaderInv'
BY DEF Arm, LoaderInv, LoaderTypeOK, Stays

LEMMA LoaderNextInv == LoaderInv /\ LoaderNext => LoaderInv'
<1> SUFFICES ASSUME LoaderInv, LoaderNext PROVE LoaderInv'
  OBVIOUS
<1>1. ASSUME NEW f \in Folders, stage[f] \in {"unseen", "mapped"}, NEW s \in Stages, StageIs(f, s),
             UNCHANGED <<image, services, bound, armed>>
      PROVE  LoaderInv'
  BY <1>1, StageInv, FolderIsNotCore
<1>2. ASSUME NEW f \in Folders, NEW s \in {"loaded", "declined"}, StageIs(f, s),
             UNCHANGED <<image, services, bound, armed>>
      PROVE  LoaderInv'
  BY <1>2, StageInv DEF Stages
<1>3. ASSUME NEW f \in Folders, PassOver(f) \/ MapDll(f) \/ Refuse(f) \/ CallLoad(f) PROVE LoaderInv'
  BY <1>1, <1>3 DEF PassOver, MapDll, Refuse, CallLoad, Stages
<1>4. ASSUME NEW f \in Folders, Load(f) \/ Decline(f) PROVE LoaderInv'
  BY <1>2, <1>4 DEF Load, Decline, AfterDecline
<1>5. QED
  BY <1>3, <1>4, GetInterfaceInv, PublishInv, ArmInv DEF LoaderNext

-----------------------------------------------------------------------------
(* The start.                                                              *)

(* What a client step does to the loading: nothing ends it but LoadsAll.   *)
LEMMA LoadingGoesOn ==
    ASSUME client = "loading", ClientStep \/ MainStep
    PROVE  client' = "loading"
BY DEF ClientStep, MainStep, Attach, Attached, EnterEngineInit, Loaded, Initialise, MayInitialise,
       InstallStorage, InstallNormal, Enabled, PostEnable, Patch, CreateHook, CloseTail

(* Whatever a DLL asks for, a name or an address, what it is attached to   *)
(* is a place for extensions.                                              *)
LEMMA AttachedAreExt == \A f : Targets(f) \subseteq ExtPoints
<1>1. \A what : AttachTo(what) \subseteq ExtPoints
  BY DEF AttachTo, Find
<1>2. QED
  BY <1>1 DEF Targets

LEMMA NextInv == StartupInv /\ [Next]_vars => StartupInv'
<1> SUFFICES ASSUME StartupInv, [Next]_vars PROVE StartupInv'
  OBVIOUS
<1>1. CASE (ClientStep \/ MainStep) /\ UNCHANGED loader
  <2>1. BootInv'
    BY <1>1, BootStepInv DEF StartupInv
  <2>2. LoaderInv' /\ stage' = stage
    BY <1>1 DEF StartupInv, LoaderInv, LoaderTypeOK, Stays, loader
  <2>3. LoadingInside'
    BY <1>1, <2>2, LoadingGoesOn DEF StartupInv, LoadingInside
  <2>4. QED
    BY <2>1, <2>2, <2>3 DEF StartupInv
<1>2. CASE LoadAll
  <2>1. LoaderInv'
    BY <1>2, LoaderNextInv DEF LoadAll, StartupInv
  <2>2. UNION {Targets(f) : f \in armed' \ armed} \in SUBSET ExtPoints
    BY AttachedAreExt
  <2>3. BootInv' /\ client' = "loading"
    BY <1>2, <2>2, AttachingInv DEF LoadAll, StartupInv
  <2>4. QED
    BY <2>1, <2>3 DEF StartupInv, LoadingInside
<1>3. CASE LoadsAll
  <2>1. BootInv'
    BY <1>3, BootStepInv DEF LoadsAll, StartupInv
  <2>2. LoaderInv' /\ stage' = stage
    BY <1>3 DEF LoadsAll, StartupInv, LoaderInv, LoaderTypeOK, Stays, loader
  <2>3. \A f \in Folders : stage'[f] # "loading"
    BY <1>3, <2>2 DEF LoadsAll, LoadAllDone, Finished
  <2>4. QED
    BY <2>1, <2>2, <2>3 DEF StartupInv, LoadingInside
<1>4. CASE UNCHANGED vars
  <2>1. UNCHANGED boot /\ UNCHANGED loader
    BY <1>4 DEF vars
  <2>2. BootInv' /\ client' = client
    BY <2>1, BootStepInv DEF StartupInv, boot
  <2>3. LoaderInv' /\ stage' = stage
    BY <2>1 DEF StartupInv, LoaderInv, LoaderTypeOK, Stays, loader
  <2>4. QED
    BY <2>2, <2>3 DEF StartupInv, LoadingInside
<1>5. QED
  BY <1>1, <1>2, <1>3, <1>4 DEF Next, Client, Main

LEMMA StartupInvAlways == Spec => []StartupInv
<1>1. Init => StartupInv
  BY InitBootInv, InitLoaderInv DEF Init, StartupInv
<1>2. QED
  BY <1>1, NextInv, PTL DEF Spec

(* Nothing can be called that is not there yet or not there any more: no   *)
(* detour through a cell still empty, but for the moment between           *)
(* MH_CreateHook and Relink; no detour of an extension whose WXL_Load is   *)
(* still running, but after MainThread's wait ran out or in a chain that   *)
(* is live since DllMain; no service, interface or handler in a DLL that   *)
(* gave up and was unmapped.                                               *)
THEOREM SafeToCallAlways == Spec => []SafeToCall
<1>1. StartupInv => SafeToCall
  <2> SUFFICES ASSUME StartupInv PROVE SafeToCall
    OBVIOUS
  <2>1. NullOnlyInPatch
    BY DEF StartupInv, BootInv, HookInv, BootTypeOK, NullOnlyInPatch
  <2>2. LiveWhenLoaded
    <3> SUFFICES ASSUME NEW f \in Folders, stage[f] = "loading", Targets(f) \cap (live \ BootPoints) # {}
                 PROVE  TimedOut
      BY DEF LiveWhenLoaded
    <3>1. client = "loading" /\ ~device
      BY DEF StartupInv, LoadingInside, BootInv, LoaderHooked
    <3>2. ~(patched \subseteq BootPoints)
      BY DEF StartupInv, BootInv, HookInv, BootTypeOK
    <3>3. QED
      BY <3>1, <3>2 DEF TimedOut, StartupInv, BootInv, HookInv, BootTypeOK, OnlyBootPatched
  <2>3. NothingDangles
    BY DEF StartupInv, LoaderInv, Stays, NothingDangles, Mapped
  <2>4. QED
    BY <2>1, <2>2, <2>3 DEF SafeToCall
<1>2. QED
  BY <1>1, StartupInvAlways, PTL

-----------------------------------------------------------------------------
(* The client as it is left by the changes of ClientPatches.               *)

HIDE BootAssumption DEF BootAssumption
HIDE LoaderAssumption DEF LoaderAssumption
HIDE StartupAssumption DEF StartupAssumption

Emitters == [live : Int, pool : Nat, ignore : BOOLEAN, source : {"0", "1"}]
Gates == {"shipped", "jumped", "another build's"}
Archives == [found : Gates \ {"jumped"}, gate : Gates, armed : BOOLEAN, hooked : BOOLEAN,
             startup : {"waits", "stopped", "done"}, content : {"forced", "as found"}]
ArchivesInv ==
    /\ archives \in Archives
    /\ archives.gate \in {archives.found, "jumped"}
    /\ archives.gate = "jumped" => archives.found = "shipped"
    /\ ~archives.armed => archives.startup = "waits"
    /\ ArchivesMount
PatchesInv ==
    /\ blending = "off" => \A side \in Sides : reads[side] = "stock"
    /\ blending # "off" => tables = [side \in Sides |-> Owned(side)]
    /\ blending = "on" => \A side \in Sides : reads[side] = "owned"
    /\ edges = [k \in 1 .. 2 |-> edges[k]]
    /\ ScratchHolds
    /\ emitter \in [{"parent", "child"} -> Emitters]
    /\ PoolsServe
    /\ ArchivesInv

LEMMA MaxOfTwo ==
    ASSUME NEW a \in Int, NEW b \in Int
    PROVE  Max({a, b}) = IF a >= b THEN a ELSE b
<1>1. \E x \in {a, b} : \A y \in {a, b} : x >= y
  <2>1. CASE a >= b
    BY <2>1
  <2>2. CASE b >= a
    BY <2>2
  <2>3. QED
    BY <2>1, <2>2
<1>2. Max({a, b}) \in {a, b} /\ \A y \in {a, b} : Max({a, b}) >= y
  BY <1>1 DEF Max
<1>3. QED
  BY <1>2

LEMMA MinOfTwo ==
    ASSUME NEW a \in Int, NEW b \in Int
    PROVE  Min({a, b}) = IF a <= b THEN a ELSE b
<1>1. \E x \in {a, b} : \A y \in {a, b} : x <= y
  <2>1. CASE a <= b
    BY <2>1
  <2>2. CASE b <= a
    BY <2>2
  <2>3. QED
    BY <2>1, <2>2
<1>2. Min({a, b}) \in {a, b} /\ \A y \in {a, b} : Min({a, b}) <= y
  BY <1>1 DEF Min
<1>3. QED
  BY <1>2

(* A pool that holds so many more than expected holds what is expected.    *)
LEMMA WantedServes ==
    ASSUME PatchesAssumption, NEW load \in Int
    PROVE  /\ WantedPool(load) \in Nat /\ WantedPool(load) >= MinPool
           /\ WantedPool(load) >= PoolCeiling \/ 20 * WantedPool(load) >= load
           /\ NativePool(load) \in Nat
<1>1. CASE load <= 0
  BY <1>1 DEF WantedPool, NativePool, MinPool
<1>2. CASE load > 0
  <2>1. PICK n \in Nat : n = (load * 23 + 399) \div 400
    BY <1>2
  <2>2. 400 * n >= load * 23
    BY <1>2, <2>1
  <2>3. 20 * n >= load
    BY <1>2, <2>1, <2>2
  <2>4. PoolCeiling \in Nat /\ PoolCeiling >= 2
    BY DEF PatchesAssumption
  <2>5. PICK m \in Nat : m = IF PoolCeiling <= n THEN PoolCeiling ELSE n
    BY <2>4
  <2>6. Min({PoolCeiling, n}) = m
    BY <2>4, <2>5, MinOfTwo
  <2>7. Max({MinPool, m}) = IF MinPool >= m THEN MinPool ELSE m
    BY MaxOfTwo DEF MinPool
  <2>8. WantedPool(load) = IF MinPool >= m THEN MinPool ELSE m
    <3>1. ~(load <= 0)
      BY <1>2
    <3>2. WantedPool(load) = Max({MinPool, Min({PoolCeiling, n})})
      BY <3>1, <2>1, Zenon DEF WantedPool
    <3>3. QED
      BY <2>6, <2>7, <3>2
  <2>9. NativePool(load) \in Nat
    BY <1>2 DEF NativePool
  <2>10. QED
    BY <2>3, <2>4, <2>5, <2>8, <2>9 DEF MinPool
<1>3. QED
  BY <1>1, <1>2

LEMMA RaisedTo ==
    ASSUME NEW e \in Emitters, NEW pool \in Nat
    PROVE  Raised(e, pool) = [live |-> e.live, pool |-> IF e.pool >= pool THEN e.pool ELSE pool,
                              ignore |-> e.ignore, source |-> e.source]
<1>1. Max({e.pool, pool}) = IF e.pool >= pool THEN e.pool ELSE pool
  BY MaxOfTwo DEF Emitters
<1>2. QED
  BY <1>1 DEF Raised, Emitters

LEMMA RaisedFacts ==
    ASSUME NEW e \in Emitters, NEW pool \in Nat
    PROVE  /\ Raised(e, pool) \in Emitters /\ Raised(e, pool).live = e.live /\ Raised(e, pool).source = e.source
           /\ Raised(e, pool).pool >= pool /\ Raised(e, pool).pool >= e.pool
<1>1. PICK n \in Nat : n = IF e.pool >= pool THEN e.pool ELSE pool
  BY DEF Emitters
<1>2. Raised(e, pool) = [live |-> e.live, pool |-> n, ignore |-> e.ignore, source |-> e.source]
  BY <1>1, RaisedTo
<1>3. n >= pool /\ n >= e.pool
  BY <1>1 DEF Emitters
<1>4. QED
  BY <1>2, <1>3 DEF Emitters

LEMMA BudgetOf ==
    ASSUME NEW e \in Emitters, NEW pool \in Nat
    PROVE  /\ ApplyBudget(e, pool) \in Emitters /\ ApplyBudget(e, pool).live = e.live
           /\ ApplyBudget(e, pool).pool >= pool /\ ApplyBudget(e, pool).pool >= e.pool
           /\ ApplyBudget(e, pool).source = e.source /\ (Thins(e.live) => ApplyBudget(e, pool).ignore)
<1> DEFINE r == Raised(e, pool)
<1>1. /\ r \in Emitters /\ r.live = e.live /\ r.pool >= pool /\ r.pool >= e.pool /\ r.source = e.source
  BY RaisedFacts
<1> HIDE DEF r
<1>2. PICK b \in BOOLEAN : b = (r.ignore \/ Thins(e.live))
  OBVIOUS
<1>3. ApplyBudget(e, pool) = [r EXCEPT !.ignore = b]
  BY <1>2 DEF ApplyBudget, r
<1>4. QED
  BY <1>1, <1>2, <1>3 DEF Emitters

LEMMA Products ==
    ASSUME NEW own \in Nat, NEW of \in Nat, NEW c \in Int, NEW p \in Int, NEW ceiling \in Nat, of >= 2, own >= 2,
           own >= ceiling \/ 20 * own >= c, of >= ceiling \/ 20 * of >= p
    PROVE  /\ own * of \in Nat /\ own * of >= own /\ own * of >= of
           /\ c > 0 /\ p > 0 => own * of >= ceiling \/ 400 * (own * of) >= c * p
<1>1. own * of >= own /\ own * of >= of /\ own * of \in Nat
  OBVIOUS
<1>2. ASSUME c > 0, p > 0, 20 * own >= c, 20 * of >= p PROVE 400 * (own * of) >= c * p
  <2>1. (20 * own) * (20 * of) >= c * p
    <3>1. \A x, y, z \in Nat : x >= y => x * z >= y * z
      OBVIOUS
    <3>2. (20 * own) * (20 * of) >= c * (20 * of)
      BY <1>2, <3>1
    <3>3. (20 * of) * c >= p * c
      BY <1>2, <3>1
    <3>4. QED
      BY <3>2, <3>3
  <2>2. QED
    BY <2>1
<1>3. QED
  BY <1>1, <1>2

(* What a Sync leaves its two emitters with.                               *)
LEMMA SyncServes ==
    ASSUME PatchesAssumption, PatchesInv, hkEmitterSync
    PROVE  emitter' \in [{"parent", "child"} -> Emitters] /\ PoolsServe'
<1> DEFINE parent == emitter["parent"]
           child == emitter["child"]
           own == WantedPool(child.live)
           of == WantedPool(parent.live)
<1>1. parent \in Emitters /\ child \in Emitters /\ parent.live \in Int /\ child.live \in Int /\ PoolCeiling \in Nat
  BY DEF PatchesInv, Emitters, PatchesAssumption
<1>2. /\ own \in Nat /\ own >= 2 /\ (own >= PoolCeiling \/ 20 * own >= child.live)
      /\ of \in Nat /\ of >= 2 /\ (of >= PoolCeiling \/ 20 * of >= parent.live)
      /\ NativePool(parent.live) \in Nat /\ NativePool(child.live) \in Nat
  BY <1>1, WantedServes DEF MinPool
<1>3. PICK op \in Nat : op = own * of
  BY <1>2
<1>4. /\ op >= own /\ op >= of
      /\ child.live > 0 /\ parent.live > 0 => op >= PoolCeiling \/ 400 * op >= child.live * parent.live
  BY <1>1, <1>2, <1>3, Products
<1>5. PICK native \in Nat : native = NativePool(child.live) * NativePool(parent.live)
  BY <1>2
<1>6. PICK nboth \in Nat : nboth = Min({native, PoolCeiling})
  BY <1>1, MinOfTwo
<1>7. PICK both \in Nat : both = IF op <= PoolCeiling THEN op ELSE PoolCeiling
  BY <1>1
<1>8. Min({op, PoolCeiling}) = both
  BY <1>1, <1>7, MinOfTwo
<1> DEFINE p1 == Raised(parent, NativePool(parent.live))
           p2 == ApplyBudget(p1, of)
           c1 == Raised(child, nboth)
           c2 == ApplyBudget(c1, both)
<1>9. emitter' = [emitter EXCEPT !["parent"] = p2, !["child"] = c2] /\ synced' = TRUE
  BY <1>3, <1>5, <1>6, <1>8 DEF hkEmitterSync
<1>10. p1 \in Emitters /\ p1.live = parent.live /\ c1 \in Emitters /\ c1.live = child.live
  BY <1>1, <1>2, RaisedFacts
<1>11. /\ p2 \in Emitters /\ p2.live = parent.live /\ p2.pool >= of /\ (Thins(parent.live) => p2.ignore)
       /\ c2 \in Emitters /\ c2.live = child.live /\ c2.pool >= both /\ (Thins(child.live) => c2.ignore)
  <2> HIDE DEF own, of
  <2>1. QED
    BY <1>2, <1>10, BudgetOf
<1> HIDE DEF parent, child, own, of, p2, c2
<1>12. emitter'["parent"] = p2 /\ emitter'["child"] = c2 /\ emitter' \in [{"parent", "child"} -> Emitters]
  BY <1>9, <1>11 DEF PatchesInv
<1>13. p2.pool \in Nat /\ c2.pool \in Nat
  BY <1>11 DEF Emitters
<1>14. Serves(p2.pool, p2.live)
  BY <1>1, <1>2, <1>11, <1>13 DEF Serves, MinPool
<1>15. both >= 2 /\ (both >= PoolCeiling \/ 20 * both >= child.live)
  <2>1. PoolCeiling >= 2
    BY DEF PatchesAssumption
  <2>2. QED
    BY <1>1, <1>2, <1>4, <1>7, <2>1
<1>16. Serves(c2.pool, c2.live)
  BY <1>1, <1>11, <1>13, <1>15 DEF Serves, MinPool
<1>17. c2.live > 0 /\ p2.live > 0 => c2.pool >= PoolCeiling \/ 400 * c2.pool >= c2.live * p2.live
  <2>1. PICK prod \in Int : prod = child.live * parent.live
    BY <1>1
  <2>2. QED
    BY <1>1, <1>4, <1>7, <1>11, <1>13, <2>1
<1>18. QED
  BY <1>11, <1>12, <1>14, <1>16, <1>17 DEF PoolsServe, PatchesInv

LEMMA FactorsHold ==
    ASSUME PatchesAssumption, PatchesInv
    PROVE  BlendPairs
<1>1. ASSUME NEW side \in Sides, reads[side] = "stock"
      PROVE  \A i \in 0 .. StockStates - 1 : Factor(side, i) = Stock(side)[i]
  BY <1>1 DEF Factor, Stock
<1>2. ASSUME NEW side \in Sides, reads[side] # "stock"
      PROVE  /\ \A i \in 0 .. StockStates - 1 : Factor(side, i) = Stock(side)[i]
             /\ \A i \in Added : Factor(side, i) = AddedFactor(side, i)
  <2>1. tables[side] = [i \in 0 .. StockStates + 1 |-> IF i \in Added THEN AddedFactor(side, i) ELSE Stock(side)[i]]
    BY <1>2 DEF PatchesInv, Owned
  <2>2. /\ \A i \in 0 .. StockStates - 1 : i \in 0 .. StockStates + 1 /\ i \notin Added
        /\ \A i \in Added : i \in 0 .. StockStates + 1
    BY DEF Added, PatchesAssumption
  <2>3. \A i \in DOMAIN tables[side] : Factor(side, i) = tables[side][i]
    BY <1>2 DEF Factor
  <2>4. QED
    BY <2>1, <2>2, <2>3
<1>3. QED
  BY <1>1, <1>2 DEF BlendPairs, PatchesInv

(* Arming the guard and the startup behind it keep what is known of the    *)
(* branch.                                                                 *)
LEMMA ArchivesStep ==
    ASSUME ArchivesInv, ArchivesNext
    PROVE  ArchivesInv'
<1>1. ASSUME NEW hooked \in BOOLEAN, NEW written \in BOOLEAN, InstallArchiveGuard(hooked, written)
      PROVE  ArchivesInv'
  <2>1. PICK gate \in Gates :
          /\ gate = IF archives.gate = "shipped" /\ written THEN "jumped" ELSE archives.gate
          /\ archives' = [archives EXCEPT !.armed = TRUE, !.hooked = hooked, !.gate = gate]
    BY <1>1 DEF InstallArchiveGuard, ArchivesInv, Archives, Gates, kRequiredGateOriginal, kRequiredGatePatched
  <2>2. ~archives.armed
    BY <1>1 DEF InstallArchiveGuard
  <2>3. archives' = [found |-> archives.found, gate |-> gate, armed |-> TRUE, hooked |-> hooked,
                     startup |-> archives.startup, content |-> archives.content]
    BY <2>1 DEF ArchivesInv, Archives
  <2>4. archives' \in Archives
    BY <1>1, <2>1, <2>3 DEF ArchivesInv, Archives
  <2>5. archives.found = "shipped" \/ gate = archives.gate
    <3>1. archives.gate \in {archives.found, "jumped"}
      BY DEF ArchivesInv
    <3>2. CASE archives.gate = "shipped"
      BY <3>1, <3>2
    <3>3. CASE archives.gate # "shipped"
      BY <2>1, <3>3
    <3>4. QED
      BY <3>2, <3>3
  <2>6. archives.startup = "waits" /\ (gate = "jumped" => archives.found = "shipped")
    BY <2>1, <2>2 DEF ArchivesInv, ArchivesMount, kRequiredGateOriginal
  <2>7. ArchivesMount'
    BY <2>2, <2>3, <2>5, <2>6 DEF ArchivesInv, ArchivesMount, kRequiredGateOriginal
  <2>8. /\ archives'.gate = "jumped" => archives'.found = "shipped"
        /\ archives'.gate \in {archives'.found, "jumped"} /\ archives'.armed
    BY <2>1, <2>3, <2>6 DEF ArchivesInv
  <2>9. QED
    BY <2>4, <2>7, <2>8, Zenon DEF ArchivesInv
<1>2. ASSUME NEW opened \in BOOLEAN, InitializeWowConfig(opened)
      PROVE  ArchivesInv'
  <2> DEFINE stops == ~opened /\ archives.gate # "jumped"
             startup == IF stops THEN "stopped" ELSE "done"
             content == IF archives.hooked /\ ~stops THEN "forced" ELSE "as found"
  <2>1. archives' = [archives EXCEPT !.startup = startup, !.content = content] /\ archives.armed
    BY <1>2, Zenon DEF InitializeWowConfig, kRequiredGatePatched
  <2>2. startup \in {"stopped", "done"} /\ content \in {"forced", "as found"}
    OBVIOUS
  <2>3. (startup = "stopped" => archives.gate # "jumped") /\ (startup = "done" => content = IF archives.hooked THEN "forced" ELSE "as found")
    OBVIOUS
  <2> HIDE DEF stops, startup, content
  <2>4. archives' = [found |-> archives.found, gate |-> archives.gate, armed |-> archives.armed,
                     hooked |-> archives.hooked, startup |-> startup, content |-> content]
    BY <2>1 DEF ArchivesInv, Archives
  <2>5. archives' \in Archives
    BY <2>2, <2>4 DEF ArchivesInv, Archives
  <2>6. archives.gate # archives.found => archives.gate = "jumped"
    BY DEF ArchivesInv
  <2>7. ArchivesMount'
    BY <2>3, <2>4, <2>6 DEF ArchivesInv, ArchivesMount
  <2>8. /\ archives'.gate = "jumped" => archives'.found = "shipped"
        /\ archives'.gate \in {archives'.found, "jumped"} /\ archives'.armed
    BY <2>1, <2>4 DEF ArchivesInv
  <2>9. QED
    BY <2>5, <2>7, <2>8, Zenon DEF ArchivesInv
<1>3. QED
  BY <1>1, <1>2 DEF ArchivesNext

LEMMA ArchivesRest ==
    ASSUME ArchivesInv, UNCHANGED archives
    PROVE  ArchivesInv'
BY DEF ArchivesInv, ArchivesMount

LEMMA PatchesStep ==
    ASSUME PatchesAssumption, PatchesInv, [PatchesNext]_patchVars
    PROVE  PatchesInv'
<1>1. ASSUME NEW writable \in [src : BOOLEAN, dst : BOOLEAN, back : BOOLEAN], InstallBlendStates(writable)
      PROVE  PatchesInv'
  BY <1>1, ArchivesRest DEF InstallBlendStates, PatchesInv, ScratchHolds, PoolsServe, Sides, Owned, Stock, AddedFactor, Added
<1>2. ASSUME NEW written \in SUBSET (1 .. 2), WidenMipScratch(written)
      PROVE  PatchesInv'
  <2>1. ScratchHolds' /\ (edges = [k \in 1 .. 2 |-> edges[k]])'
    BY <1>2 DEF WidenMipScratch, ScratchHolds, PatchesInv, Shipped, Wide
  <2>2. QED
    BY <1>2, <2>1, ArchivesRest DEF WidenMipScratch, PatchesInv, PoolsServe, Owned
<1>3. ASSUME hkEmitterSync
      PROVE  PatchesInv'
  BY <1>3, SyncServes, ArchivesRest DEF hkEmitterSync, PatchesInv, ScratchHolds, Owned
<1>4. ASSUME NEW name \in DOMAIN emitter, NEW load \in Loads, Animate(name, load)
      PROVE  PatchesInv'
  <2>1. [emitter[name] EXCEPT !.live = load] \in Emitters
    BY <1>4 DEF PatchesInv, Emitters, PatchesAssumption
  <2>2. emitter' \in [{"parent", "child"} -> Emitters] /\ PoolsServe'
    BY <1>4, <2>1 DEF Animate, PatchesInv, PoolsServe
  <2>3. QED
    BY <1>4, <2>2, ArchivesRest DEF Animate, PatchesInv, ScratchHolds, Owned
<1>5. ASSUME NEW name \in DOMAIN emitter, NEW z \in {"0", "1", "255"}, hkSetZsource(name, z)
      PROVE  PatchesInv'
  <2>1. PICK source \in {"0", "1"} : source = IF z = "255" THEN "0" ELSE z
    OBVIOUS
  <2>2. emitter' = [emitter EXCEPT ![name] = [emitter[name] EXCEPT !.source = source]]
    BY <1>5, <2>1 DEF hkSetZsource, NoPointSource
  <2>3. [emitter[name] EXCEPT !.source = source] \in Emitters
    BY <1>5 DEF PatchesInv, Emitters
  <2>4. emitter' \in [{"parent", "child"} -> Emitters]
    BY <2>2, <2>3 DEF PatchesInv
  <2>5. \A other \in DOMAIN emitter : /\ emitter'[other].pool = emitter[other].pool
                                      /\ emitter'[other].live = emitter[other].live
                                      /\ emitter'[other].ignore = emitter[other].ignore
    BY <2>2 DEF PatchesInv, Emitters
  <2>6. DOMAIN emitter' = DOMAIN emitter /\ DOMAIN emitter = {"parent", "child"}
    BY <2>4 DEF PatchesInv
  <2>7. PoolsServe'
    BY <1>5, <2>5, <2>6 DEF hkSetZsource, PatchesInv, PoolsServe
  <2>8. QED
    BY <1>5, <2>4, <2>7, ArchivesRest DEF hkSetZsource, PatchesInv, ScratchHolds, Owned
<1>6. ASSUME UNCHANGED patchVars
      PROVE  PatchesInv'
  BY <1>6, ArchivesRest DEF patchVars, PatchesInv, ScratchHolds, PoolsServe, Owned
<1>7. ASSUME ArchivesNext
      PROVE  PatchesInv'
  <2>1. ArchivesInv'
    BY <1>7, ArchivesStep DEF PatchesInv
  <2>2. UNCHANGED <<reads, tables, blending, edges, widened, emitter, synced>>
    BY <1>7 DEF ArchivesNext, InstallArchiveGuard, InitializeWowConfig
  <2>3. QED
    BY <2>1, <2>2 DEF PatchesInv, ScratchHolds, PoolsServe, Owned
<1>8. QED
  BY <1>1, <1>2, <1>3, <1>4, <1>5, <1>6, <1>7 DEF PatchesNext, DrawingNext

(* What the client is left with after its tables, its scratch memory and   *)
(* its particle pools were changed serves it as well as what it shipped    *)
(* with: BlendState.cpp, TextureScratch.cpp, EmitterBudget.cpp, ZSource.cpp.*)
THEOREM PatchesServeAlways == PatchesSpec => []PatchesServe
<1>1. PatchesInit => PatchesInv
  <2>1. PatchesInit => ArchivesInv
    <3>1. ASSUME NEW found \in {"shipped", "another build's"},
                 archives = [found |-> found, gate |-> found, armed |-> FALSE, hooked |-> FALSE,
                             startup |-> "waits", content |-> "as found"]
          PROVE  ArchivesInv
      BY <3>1 DEF ArchivesInv, Archives, ArchivesMount, Gates, kRequiredGateOriginal
    <3>2. PatchesInit => \E found \in {"shipped", "another build's"} :
             archives = [found |-> found, gate |-> found, armed |-> FALSE, hooked |-> FALSE,
                         startup |-> "waits", content |-> "as found"]
      BY Zenon DEF PatchesInit, kRequiredGateOriginal
    <3>3. QED
      BY <3>1, <3>2, Zenon
  <2>2. PatchesInit => PoolsServe /\ ScratchHolds
    BY DEF PatchesInit, PoolsServe, ScratchHolds
  <2>3. PatchesInit => emitter \in [{"parent", "child"} -> Emitters]
    <3>1. PatchesInit => emitter = [name \in {"parent", "child"} |->
                                      [live |-> 0, pool |-> 0, ignore |-> FALSE, source |-> "0"]]
      BY Zenon DEF PatchesInit
    <3>2. [live |-> 0, pool |-> 0, ignore |-> FALSE, source |-> "0"] \in Emitters
      BY DEF Emitters
    <3>3. QED
      BY <3>1, <3>2
  <2>4. PatchesInit => edges = [k \in 1 .. 2 |-> edges[k]] /\ blending = "off"
                       /\ \A side \in Sides : reads[side] = "stock"
    <3>1. PatchesInit => edges \in [1 .. 2 -> Edges] /\ blending = "off"
                         /\ reads = [side \in Sides |-> "stock"]
      BY Zenon DEF PatchesInit
    <3>2. QED
      BY <3>1 DEF Sides
  <2>5. QED
    BY <2>1, <2>2, <2>3, <2>4 DEF PatchesInv
<1>2. PatchesInv /\ [PatchesNext]_patchVars => PatchesInv'
  BY PatchesStep, PatchesAssumption
<1>3. PatchesInv => PatchesServe
  BY FactorsHold, PatchesAssumption DEF PatchesServe, PatchesInv, ArchivesInv, Emitters, NoPointSource
<1>4. QED
  BY <1>1, <1>2, <1>3, PTL DEF PatchesSpec

-----------------------------------------------------------------------------
(* The services.                                                           *)

Logs == [open : BOOLEAN, onDisk : Nat, buffered : Seq(Int), pending : Nat]
\* A buffered line is counted, and none of them warns.
Counted(log) ==
    /\ log.pending = Len(log.buffered) /\ log.pending < FlushAt
    /\ \A k \in DOMAIN log.buffered : log.buffered[k] < Warn
LevelFound == level.min = LevelFromEnv
LinesInv ==
    /\ logs \in [runtime : Logs, proxy : Logs]
    /\ level \in [min : Int, resolved : BOOLEAN]
    /\ writing \in [Writers -> [at : {"idle", "store", "mark", "resolved"}, line : Int]]
    /\ dropped \subseteq Int
    /\ Counted(logs.runtime) /\ logs.proxy.buffered = <<>>
    /\ level.resolved => LevelFound
    /\ \A w \in Writers : writing[w].at \in {"mark", "resolved"} => LevelFound
    /\ \A line \in dropped : line < LevelFromEnv

Windows == [calls : [Phases -> Nat], slow : [Phases -> Nat], frames : Nat, hitches : [1..3 -> Nat]]
\* The next report is due an interval after the window was begun.
WindowsInv ==
    /\ prof \in [now : Nat \ {0}, started : Nat, next : Int, window : Windows, reported : Windows, shortest : Int]
    /\ samples = Together(prof.reported, prof.window)
    /\ prof.started # 0 => prof.next = prof.started + Interval
    /\ prof.shortest >= 5

FactoriesInv ==
    /\ proxy.loads \in Nat /\ proxy.loads <= 1 /\ (~proxy.attempted => proxy.loads = 0)
    /\ proxy.served \subseteq proxy.real /\ proxy.refused = FALSE

SettingsInv == settings \in [env : Environments, here : Files, up : Files]

ServicesInv == SettingsInv /\ LinesInv /\ WindowsInv /\ FactoriesInv

LEMMA LeastServes ==
    ASSUME NEW S \in SUBSET Nat, S # {}
    PROVE  Min(S) \in S
<1>1. \E x \in S : \A y \in S : x <= y
  BY LeastOfFinite
<1>2. QED
  BY <1>1 DEF Min

LEMMA KnobNumber ==
    ASSUME SettingsInv, ServicesAssumption, NEW name \in KnobNames, NEW capacity
    PROVE  ReadEnv(name, capacity).number \in Int
<1>1. settings.env[name].number \in Int
  BY DEF SettingsInv, ServicesAssumption
<1>2. CfgFile(name).number \in Int
  <2> DEFINE lines == IF settings.here.there THEN settings.here.lines ELSE settings.up.lines
             entries == {i \in DOMAIN lines : lines[i].kind = "entry" /\ lines[i].key = name}
  <2>1. DOMAIN lines \subseteq Nat /\ \A i \in DOMAIN lines : lines[i].value.number \in Int
    BY DEF SettingsInv, ServicesAssumption
  <2>2. CASE entries = {}
    <3>1. CfgFile(name) = Absent
      BY <2>2, Zenon DEF CfgFile
    <3>2. Absent.number \in Int
      BY DEF Absent
    <3>3. QED
      BY <3>1, <3>2, Zenon
  <2>3. CASE entries # {}
    <3>1. Min(entries) \in entries
      BY <2>1, <2>3, LeastServes
    <3>2. CfgFile(name) = lines[Min(entries)].value
      BY <2>3, Zenon DEF CfgFile
    <3>3. Min(entries) \in DOMAIN lines
      BY <3>1
    <3> HIDE DEF lines, entries
    <3>4. QED
      BY <2>1, <3>2, <3>3
  <2>4. QED
    BY <2>2, <2>3
<1>3. QED
  BY <1>1, <1>2 DEF ReadEnv, Absent

LEMMA LevelIsNumber ==
    ASSUME SettingsInv, ServicesAssumption
    PROVE  LevelFromEnv \in Int
<1>1. \A c \in DOMAIN Letters : Letters[c] \in Int
  BY DEF Letters
<1>2. \A c : {d \in DOMAIN Digits : Digits[d] = c} # {} => Min({d \in DOMAIN Digits : Digits[d] = c}) \in 1 .. 6
  <2>1. SUFFICES ASSUME NEW c, {d \in DOMAIN Digits : Digits[d] = c} # {}
                 PROVE  Min({d \in DOMAIN Digits : Digits[d] = c}) \in 1 .. 6
    OBVIOUS
  <2> DEFINE digits == {d \in DOMAIN Digits : Digits[d] = c}
  <2>2. DOMAIN Digits = 1 .. 6
    BY DEF Digits
  <2>3. digits \subseteq Nat
    BY <2>2
  <2>4. Min(digits) \in digits
    BY <2>1, <2>3, LeastServes
  <2>5. QED
    BY <2>2, <2>4
<1>3. QED
  BY <1>1, <1>2 DEF LevelFromEnv, Info

LEMMA IntervalBounds ==
    ASSUME SettingsInv, ServicesAssumption
    PROVE  Interval \in Int /\ Interval >= 5
<1>1. PICK n \in Int : n = ReadEnv("WXL_CLIENT_ASSET_PROFILE_INTERVAL_SEC", 32).number
  BY KnobNumber DEF KnobNames
<1>2. QED
  BY <1>1 DEF Interval, U32, Clamped

(* A line that is put into the log leaves it counted.                      *)
LEMMA EmitCounts ==
    ASSUME ServicesAssumption, NEW log \in Logs, NEW line \in Int
    PROVE  Emit(log, line) \in Logs /\ (Counted(log) => Counted(Emit(log, line)))
<1>1. PICK every \in BOOLEAN : every = FlushEveryLine
  <2>1. FlushEveryLine \in BOOLEAN \/ FlushEveryLine \notin BOOLEAN
    OBVIOUS
  <2>2. QED
    BY DEF FlushEveryLine, Env, Truthy
<1> DEFINE n == log.pending
           b == log.buffered
<1>2. log = [open |-> log.open, onDisk |-> log.onDisk, buffered |-> b, pending |-> n]
      /\ b \in Seq(Int) /\ n \in Nat /\ log.onDisk \in Nat /\ log.open \in BOOLEAN
  BY DEF Logs
<1>3. /\ Append(b, line) \in Seq(Int) /\ Len(Append(b, line)) = Len(b) + 1
      /\ \A k \in DOMAIN Append(b, line) : Append(b, line)[k] = IF k = Len(b) + 1 THEN line ELSE b[k]
      /\ \A k \in DOMAIN Append(b, line) : k = Len(b) + 1 \/ k \in DOMAIN b
      /\ Len(b) \in Nat
  BY <1>2, AppendProperties
<1> DEFINE more == Append(b, line)
<1>4. CASE ~log.open
  BY <1>4 DEF Emit
<1>5. CASE log.open /\ (every \/ n + 1 >= FlushAt \/ line >= Warn)
  <2>1. PICK m \in Nat : m = Len(more)
    BY <1>3
  <2>2. Emit(log, line) = [open |-> log.open, onDisk |-> log.onDisk + m, buffered |-> <<>>, pending |-> 0]
    BY <1>1, <1>2, <1>5, <2>1 DEF Emit, Flushed
  <2>3. QED
    BY <1>2, <2>2 DEF Logs, Counted, ServicesAssumption
<1>6. CASE log.open /\ ~(every \/ n + 1 >= FlushAt \/ line >= Warn)
  <2>1. Emit(log, line) = [open |-> log.open, onDisk |-> log.onDisk, buffered |-> more, pending |-> n + 1]
    BY <1>1, <1>2, <1>6 DEF Emit
  <2>2. Emit(log, line) \in Logs
    BY <1>2, <1>3, <2>1 DEF Logs
  <2>3. ASSUME Counted(log) PROVE Counted(Emit(log, line))
    <3>1. n + 1 = Len(more) /\ n + 1 < FlushAt
      BY <1>2, <1>3, <1>6, <2>3 DEF Counted, ServicesAssumption
    <3>2. \A k \in DOMAIN more : more[k] < Warn
      BY <1>3, <1>6, <2>3 DEF Counted, Warn
    <3>3. QED
      BY <2>1, <3>1, <3>2 DEF Counted
  <2>4. QED
    BY <2>2, <2>3
<1>7. QED
  BY <1>2, <1>4, <1>5, <1>6

LEMMA FlushedLog ==
    ASSUME NEW log \in Logs
    PROVE  Flushed(log) \in Logs /\ Flushed(log).buffered = <<>>
<1>1. PICK m \in Nat : m = Len(log.buffered)
  BY DEF Logs
<1>2. PICK n \in Nat : n = log.onDisk
  BY DEF Logs
<1>3. Flushed(log) = [log EXCEPT !.onDisk = n + m, !.buffered = <<>>]
  BY <1>1, <1>2 DEF Flushed
<1>4. log = [open |-> log.open, onDisk |-> n, buffered |-> log.buffered, pending |-> log.pending]
  BY <1>2 DEF Logs
<1>5. Flushed(log) = [open |-> log.open, onDisk |-> n + m, buffered |-> <<>>, pending |-> log.pending]
  BY <1>3, <1>4
<1>6. QED
  BY <1>5 DEF Logs

LEMMA SayShows ==
    ASSUME ServicesAssumption, NEW log \in Logs, NEW opens \in BOOLEAN, log.buffered = <<>>
    PROVE  Say(log, opens) \in Logs /\ Say(log, opens).buffered = <<>>
<1>1. Opened(log, opens) \in Logs /\ Opened(log, opens).buffered = <<>>
  BY DEF Opened, Logs
<1> DEFINE put == Emit(Opened(log, opens), Info)
<1>2. put \in Logs
  BY <1>1, EmitCounts DEF Info
<1>3. Flushed(put) \in Logs /\ Flushed(put).buffered = <<>>
  BY <1>2, FlushedLog
<1>4. QED
  BY <1>1, <1>3 DEF Say

LEMMA LevelStays ==
    ASSUME UNCHANGED settings
    PROVE  LevelFromEnv' = LevelFromEnv /\ Interval' = Interval
BY DEF LevelFromEnv, Interval, U32, ReadEnv, CfgFile

LEMMA LinesStep ==
    ASSUME ServicesAssumption, SettingsInv, LinesInv, LinesNext
    PROVE  LinesInv'
<1> DEFINE found == LevelFromEnv
<1>1. UNCHANGED settings /\ found' = found /\ found \in Int
  BY LevelStays, LevelIsNumber DEF LinesNext
<1>2. ASSUME NEW w \in Writers, NEW line \in {Debug, Info, Warn}, AskLevel(w, line)
      PROVE  LinesInv'
  <2>1. PICK at \in {"store", "resolved"} : at = IF level.resolved THEN "resolved" ELSE "store"
    OBVIOUS
  <2>2. writing' = [writing EXCEPT ![w] = [at |-> at, line |-> line]] /\ UNCHANGED <<level, logs, dropped>>
    BY <1>2, <2>1 DEF AskLevel
  <2>3. at = "resolved" => LevelFound
    BY <2>1 DEF LinesInv
  <2>4. line \in Int
    BY DEF Debug, Info, Warn
  <2> HIDE DEF found
  <2>5. LevelFound' = LevelFound
    BY <1>1, <2>2 DEF LevelFound, found
  <2>6. QED
    BY <1>1, <2>2, <2>3, <2>4, <2>5 DEF LinesInv, Counted, found
<1>3. ASSUME NEW w \in Writers, StoreLevel(w)
      PROVE  LinesInv'
  <2>1. LevelFound'
    BY <1>1, <1>3 DEF StoreLevel, LevelFound, LinesInv
  <2> HIDE DEF found
  <2>2. QED
    BY <1>1, <1>3, <2>1 DEF StoreLevel, LinesInv, Counted, found
<1>4. ASSUME NEW w \in Writers, MarkResolved(w)
      PROVE  LinesInv'
  <2>1. LevelFound' = LevelFound
    BY <1>1, <1>4 DEF MarkResolved, LevelFound, LinesInv
  <2>2. LevelFound
    BY <1>4 DEF MarkResolved, LinesInv
  <2> HIDE DEF found
  <2>3. QED
    BY <1>1, <1>4, <2>1, <2>2 DEF MarkResolved, LinesInv, Counted, found
<1>5. ASSUME NEW w \in Writers, WriteLine(w)
      PROVE  LinesInv'
  <2>1. LevelFound' = LevelFound /\ LevelFound
    BY <1>1, <1>5 DEF WriteLine, LevelFound, LinesInv
  <2>2. PICK line \in Int : line = writing[w].line
    BY DEF LinesInv
  <2>3. /\ logs' \in [runtime : Logs, proxy : Logs] /\ Counted(logs.runtime)' /\ logs'.proxy.buffered = <<>>
        /\ dropped' \subseteq Int /\ \A other \in dropped' : other < found
    <3>1. CASE line >= level.min
      <4>1. Emit(logs.runtime, line) \in Logs /\ Counted(Emit(logs.runtime, line))
        BY EmitCounts DEF LinesInv
      <4>2. logs' = [logs EXCEPT !.runtime = Emit(logs.runtime, line)] /\ UNCHANGED dropped
        BY <1>5, <2>2, <3>1 DEF WriteLine
      <4>3. logs'.runtime = Emit(logs.runtime, line) /\ logs'.proxy = logs.proxy
        BY <4>2 DEF LinesInv
      <4>4. Counted(logs.runtime)'
        BY <4>1, <4>3 DEF Counted
      <4>5. QED
        BY <4>1, <4>2, <4>3, <4>4 DEF LinesInv
    <3>2. CASE ~(line >= level.min)
      <4>1. dropped' = dropped \cup {line} /\ UNCHANGED logs
        BY <1>5, <2>2, <3>2 DEF WriteLine
      <4>2. line < found
        BY <1>1, <2>1, <3>2 DEF LevelFound
      <4>3. QED
        BY <4>1, <4>2 DEF LinesInv, Counted
    <3>3. QED
      BY <3>1, <3>2
  <2> HIDE DEF found
  <2>4. writing' = [writing EXCEPT ![w].at = "idle"] /\ UNCHANGED level
    BY <1>5 DEF WriteLine
  <2>5. QED
    BY <1>1, <2>1, <2>3, <2>4 DEF LinesInv, found
<1>6. ASSUME NEW opens \in BOOLEAN, OpenLog(opens)
      PROVE  LinesInv'
  <2>1. Opened(logs.runtime, opens) \in Logs /\ Opened(logs.runtime, opens).buffered = logs.runtime.buffered
        /\ Opened(logs.runtime, opens).pending = logs.runtime.pending
    BY DEF Opened, Logs, LinesInv
  <2>2. logs'.runtime = Opened(logs.runtime, opens) /\ logs'.proxy = logs.proxy /\ logs' \in [runtime : Logs, proxy : Logs]
    BY <1>6, <2>1 DEF OpenLog, LinesInv
  <2>3. Counted(logs.runtime)'
    BY <2>1, <2>2 DEF Counted, LinesInv
  <2>4. LevelFound' = LevelFound
    BY <1>1, <1>6 DEF OpenLog, LevelFound
  <2> HIDE DEF found
  <2>5. QED
    BY <1>1, <1>6, <2>2, <2>3, <2>4 DEF OpenLog, LinesInv, found
<1>7. QED
  BY <1>2, <1>3, <1>4, <1>5, <1>6 DEF LinesNext, Writes

(* Windows add up, whichever of two a sample is put into.                  *)
LEMMA SamplesAdd ==
    ASSUME NEW a \in Windows, NEW b \in Windows, NEW phase \in Phases, NEW isSlow \in BOOLEAN, NEW passed \in 0..3
    PROVE  /\ Together(a, b) \in Windows
           /\ WithLoad(b, phase, isSlow) \in Windows /\ WithFrame(b, passed) \in Windows
           /\ WithLoad(Together(a, b), phase, isSlow) = Together(a, WithLoad(b, phase, isSlow))
           /\ WithFrame(Together(a, b), passed) = Together(a, WithFrame(b, passed))
           /\ Together(Together(a, b), Nothing) = Together(a, b)
<1>1. Together(a, b) \in Windows
  BY DEF Together, Windows
<1>2. PICK one \in {0, 1} : one = IF isSlow THEN 1 ELSE 0
  OBVIOUS
<1>3. ASSUME NEW w \in Windows
      PROVE  /\ WithLoad(w, phase, isSlow) = [calls |-> [p \in Phases |-> w.calls[p] + (IF p = phase THEN 1 ELSE 0)],
                                              slow |-> [p \in Phases |-> w.slow[p] + (IF p = phase THEN one ELSE 0)],
                                              frames |-> w.frames, hitches |-> w.hitches]
             /\ WithFrame(w, passed) = [calls |-> w.calls, slow |-> w.slow, frames |-> w.frames + 1,
                                        hitches |-> [n \in 1..3 |-> w.hitches[n] + (IF n <= passed THEN 1 ELSE 0)]]
  <2>1. [w.calls EXCEPT ![phase] = @ + 1] = [p \in Phases |-> w.calls[p] + (IF p = phase THEN 1 ELSE 0)]
    BY DEF Windows
  <2>2. [w.slow EXCEPT ![phase] = @ + one] = [p \in Phases |-> w.slow[p] + (IF p = phase THEN one ELSE 0)]
    BY DEF Windows
  <2>3. WithLoad(w, phase, isSlow) = [w EXCEPT !.calls = [w.calls EXCEPT ![phase] = @ + 1],
                                               !.slow = [w.slow EXCEPT ![phase] = @ + one]]
    BY <1>2 DEF WithLoad
  <2>4. w = [calls |-> w.calls, slow |-> w.slow, frames |-> w.frames, hitches |-> w.hitches]
    BY DEF Windows
  <2>5. WithFrame(w, passed) = [w EXCEPT !.frames = w.frames + 1,
                                         !.hitches = [n \in 1..3 |-> w.hitches[n] + (IF n <= passed THEN 1 ELSE 0)]]
    BY DEF WithFrame
  <2>6. QED
    BY <2>1, <2>2, <2>3, <2>4, <2>5
<1>4. WithLoad(b, phase, isSlow) \in Windows /\ WithFrame(b, passed) \in Windows
  BY <1>3 DEF Windows
<1>5. Together(a, b) = [calls |-> [p \in Phases |-> a.calls[p] + b.calls[p]],
                        slow |-> [p \in Phases |-> a.slow[p] + b.slow[p]],
                        frames |-> a.frames + b.frames,
                        hitches |-> [n \in 1..3 |-> a.hitches[n] + b.hitches[n]]]
  BY DEF Together
<1>6. WithLoad(Together(a, b), phase, isSlow) = Together(a, WithLoad(b, phase, isSlow))
  <2> DEFINE left == WithLoad(Together(a, b), phase, isSlow)
             right == Together(a, WithLoad(b, phase, isSlow))
  <2>1. left = [calls |-> [p \in Phases |-> (a.calls[p] + b.calls[p]) + (IF p = phase THEN 1 ELSE 0)],
                slow |-> [p \in Phases |-> (a.slow[p] + b.slow[p]) + (IF p = phase THEN one ELSE 0)],
                frames |-> a.frames + b.frames, hitches |-> [n \in 1..3 |-> a.hitches[n] + b.hitches[n]]]
    BY <1>1, <1>3, <1>5
  <2>2. right = [calls |-> [p \in Phases |-> a.calls[p] + (b.calls[p] + (IF p = phase THEN 1 ELSE 0))],
                 slow |-> [p \in Phases |-> a.slow[p] + (b.slow[p] + (IF p = phase THEN one ELSE 0))],
                 frames |-> a.frames + b.frames, hitches |-> [n \in 1..3 |-> a.hitches[n] + b.hitches[n]]]
    BY <1>3 DEF Together
  <2>3. \A p \in Phases : /\ a.calls[p] \in Nat /\ b.calls[p] \in Nat /\ a.slow[p] \in Nat /\ b.slow[p] \in Nat
    BY DEF Windows
  <2>4. /\ \A p \in Phases : /\ (a.calls[p] + b.calls[p]) + (IF p = phase THEN 1 ELSE 0)
                                 = a.calls[p] + (b.calls[p] + (IF p = phase THEN 1 ELSE 0))
                              /\ (a.slow[p] + b.slow[p]) + (IF p = phase THEN one ELSE 0)
                                 = a.slow[p] + (b.slow[p] + (IF p = phase THEN one ELSE 0))
    BY <2>3
  <2>5. /\ left.calls = right.calls /\ left.slow = right.slow
        /\ left.frames = right.frames /\ left.hitches = right.hitches
    BY <2>1, <2>2, <2>4
  <2>6. left = right
    <3> HIDE DEF left, right
    <3>1. QED
      BY <2>1, <2>2, <2>5
  <2>7. QED
    BY <2>6
<1>7. WithFrame(Together(a, b), passed) = Together(a, WithFrame(b, passed))
  <2> DEFINE left == WithFrame(Together(a, b), passed)
             right == Together(a, WithFrame(b, passed))
  <2>1. left = [calls |-> [p \in Phases |-> a.calls[p] + b.calls[p]],
                slow |-> [p \in Phases |-> a.slow[p] + b.slow[p]], frames |-> (a.frames + b.frames) + 1,
                hitches |-> [n \in 1..3 |-> (a.hitches[n] + b.hitches[n]) + (IF n <= passed THEN 1 ELSE 0)]]
    BY <1>1, <1>3, <1>5
  <2>2. right = [calls |-> [p \in Phases |-> a.calls[p] + b.calls[p]],
                 slow |-> [p \in Phases |-> a.slow[p] + b.slow[p]], frames |-> a.frames + (b.frames + 1),
                 hitches |-> [n \in 1..3 |-> a.hitches[n] + (b.hitches[n] + (IF n <= passed THEN 1 ELSE 0))]]
    BY <1>3 DEF Together
  <2>3. a.frames \in Nat /\ b.frames \in Nat /\ \A n \in 1..3 : a.hitches[n] \in Nat /\ b.hitches[n] \in Nat
    BY DEF Windows
  <2>4. /\ (a.frames + b.frames) + 1 = a.frames + (b.frames + 1)
        /\ \A n \in 1..3 : (a.hitches[n] + b.hitches[n]) + (IF n <= passed THEN 1 ELSE 0)
                           = a.hitches[n] + (b.hitches[n] + (IF n <= passed THEN 1 ELSE 0))
    BY <2>3
  <2>5. /\ left.calls = right.calls /\ left.slow = right.slow
        /\ left.frames = right.frames /\ left.hitches = right.hitches
    BY <2>1, <2>2, <2>4
  <2>6. left = right
    <3> HIDE DEF left, right
    <3>1. QED
      BY <2>1, <2>2, <2>5
  <2>7. QED
    BY <2>6
<1>8. Together(Together(a, b), Nothing) = Together(a, b)
  <2>1. ASSUME NEW w \in Windows PROVE Together(w, Nothing) = w
    <3>1. \A p \in Phases : w.calls[p] + 0 = w.calls[p] /\ w.slow[p] + 0 = w.slow[p]
      BY DEF Windows
    <3>2. w.frames + 0 = w.frames /\ \A n \in 1..3 : w.hitches[n] + 0 = w.hitches[n]
      BY DEF Windows
    <3>3. QED
      BY <3>1, <3>2 DEF Together, Nothing, Windows
  <2>2. QED
    BY <1>1, <2>1
<1>9. QED
  BY <1>1, <1>4, <1>6, <1>7, <1>8

LEMMA WindowsStep ==
    ASSUME ServicesAssumption, SettingsInv, WindowsInv, WindowsNext
    PROVE  WindowsInv'
<1> DEFINE due == Interval
<1>1. UNCHANGED settings /\ due' = due /\ due \in Int /\ due >= 5
  BY LevelStays, IntervalBounds DEF WindowsNext
<1>2. Nothing \in Windows
  BY DEF Nothing, Windows
<1>3. ASSUME NEW phase \in Phases, NEW isSlow \in BOOLEAN, Record(phase, isSlow)
      PROVE  WindowsInv'
  <2> DEFINE put == WithLoad(prof.window, phase, isSlow)
  <2>1. CASE UNCHANGED <<prof, samples>>
    <3> HIDE DEF due
    <3>1. QED
      BY <1>1, <2>1 DEF WindowsInv, due
  <2>2. CASE prof' = [prof EXCEPT !.window = put] /\ samples' = WithLoad(samples, phase, isSlow)
    <3>1. put \in Windows /\ WithLoad(samples, phase, isSlow) = Together(prof.reported, put)
      <4>1. 0 \in 0..3
        OBVIOUS
      <4>2. QED
        BY <4>1, SamplesAdd DEF WindowsInv
    <3> HIDE DEF due, put
    <3>2. QED
      BY <1>1, <2>2, <3>1 DEF WindowsInv, due
  <2>3. QED
    BY <1>3, <2>1, <2>2 DEF Record
<1>4. ASSUME NEW seconds \in {0, 4, 5}, NEW passed \in 0..3, RecordFrame(seconds, passed)
      PROVE  WindowsInv'
  <2>0. "request" \in Phases /\ TRUE \in BOOLEAN
    BY DEF Phases
  <2>1. PICK now \in Nat \ {0} : now = prof.now + seconds
    BY DEF WindowsInv
  <2>2. PICK started \in Nat \ {0} : started = IF prof.started = 0 THEN now ELSE prof.started
    BY <2>1 DEF WindowsInv
  <2>3. PICK soon \in Int : soon = IF prof.started = 0 THEN now + due ELSE prof.next
    BY <1>1, <2>1 DEF WindowsInv
  <2> DEFINE window == WithFrame(prof.window, passed)
  <2>4. window \in Windows /\ samples' = Together(prof.reported, window)
    <3>1. WithFrame(samples, passed) = Together(prof.reported, window) /\ window \in Windows
      BY <2>0, SamplesAdd DEF WindowsInv
    <3>2. QED
      BY <1>4, <3>1 DEF RecordFrame
  <2>5. soon = started + due
    BY <1>1, <2>1, <2>2, <2>3 DEF WindowsInv
  <2>6. prof' = IF now >= soon THEN Reported(window, started, now)
                ELSE [prof EXCEPT !.now = now, !.started = started, !.next = soon, !.window = window]
    BY <1>4, <2>1, <2>2, <2>3 DEF RecordFrame
  <2>7. CASE now >= soon
    <3>1. PICK shortest \in Int : shortest = IF now - started < prof.shortest THEN now - started ELSE prof.shortest
      BY DEF WindowsInv
    <3>2. shortest >= 5
      BY <1>1, <2>5, <2>7, <3>1 DEF WindowsInv
    <3>3. Together(prof.reported, window) \in Windows
          /\ Together(Together(prof.reported, window), Nothing) = Together(prof.reported, window)
      BY <2>0, <2>4, SamplesAdd DEF WindowsInv
    <3>4. prof' = [prof EXCEPT !.now = now, !.window = Nothing, !.started = now, !.next = now + due,
                               !.reported = Together(prof.reported, window), !.shortest = shortest]
      BY <2>6, <2>7, <3>1 DEF Reported
    <3>5. PICK later \in Int : later = now + due
      BY <1>1, <2>1
    <3> DEFINE sum == Together(prof.reported, window)
    <3> HIDE DEF due, window, sum
    <3>6. /\ prof'.now = now /\ prof'.window = Nothing /\ prof'.started = now /\ prof'.next = later
          /\ prof'.reported = sum /\ prof'.shortest = shortest
          /\ prof' \in [now : Nat \ {0}, started : Nat, next : Int, window : Windows, reported : Windows, shortest : Int]
      BY <1>2, <2>1, <3>1, <3>3, <3>4, <3>5 DEF WindowsInv, sum
    <3>7. samples' = Together(prof'.reported, prof'.window)
      BY <2>4, <3>3, <3>6 DEF sum
    <3>8. QED
      BY <1>1, <3>2, <3>5, <3>6, <3>7 DEF WindowsInv, due
  <2>8. CASE ~(now >= soon)
    <3> HIDE DEF due, window
    <3>1. QED
      BY <1>1, <2>1, <2>2, <2>3, <2>4, <2>5, <2>6, <2>8 DEF WindowsInv, due
  <2>9. QED
    BY <2>7, <2>8
<1>5. QED
  BY <1>3, <1>4 DEF WindowsNext, Profiles

LEMMA FactoriesStep ==
    ASSUME ServicesAssumption, SettingsInv, LinesInv, FactoriesInv, FactoriesNext
    PROVE  LinesInv' /\ FactoriesInv'
<1>1. PICK entry \in Entries, library \in SUBSET Entries, runtime \in BOOLEAN, opens \in BOOLEAN :
           Direct3DCreate(entry, library, runtime, opens)
  BY DEF FactoriesNext, Creates
<1>2. UNCHANGED <<settings, level, writing, dropped, prof, samples>>
  BY DEF FactoriesNext
<1>3. FactoriesInv'
  <2> DEFINE real == EnsureReal(library)
  <2>1. proxy.served \subseteq real /\ ~(entry \notin real /\ entry \in proxy.served)
    BY DEF EnsureReal, FactoriesInv
  <2>2. PICK one \in {0, 1} : one = IF ~proxy.attempted /\ runtime THEN 1 ELSE 0
    OBVIOUS
  <2>3. proxy' = [real |-> real, attempted |-> TRUE, loads |-> proxy.loads + one,
                  served |-> IF entry \in real THEN proxy.served \cup {entry} ELSE proxy.served,
                  refused |-> FALSE]
    BY <1>1, <2>1, <2>2 DEF Direct3DCreate
  <2> HIDE DEF real
  <2>4. QED
    BY <2>1, <2>2, <2>3 DEF FactoriesInv
<1>4. LinesInv'
  <2>1. PICK told \in Logs : /\ told.buffered = <<>>
                             /\ told = IF proxy.real # {} THEN logs.proxy ELSE Say(logs.proxy, opens)
    BY SayShows DEF LinesInv
  <2>2. PICK put \in Logs : /\ put.buffered = <<>>
                            /\ put = IF proxy.attempted \/ runtime THEN told ELSE Say(told, opens)
    BY <2>1, SayShows
  <2>3. logs' = [logs EXCEPT !.proxy = put]
    BY <1>1, <2>1, <2>2 DEF Direct3DCreate
  <2>4. logs' \in [runtime : Logs, proxy : Logs] /\ logs'.runtime = logs.runtime /\ logs'.proxy.buffered = <<>>
    BY <2>2, <2>3 DEF LinesInv
  <2>5. LevelFromEnv' = LevelFromEnv
    BY <1>2, LevelStays
  <2>6. LevelFound' = LevelFound
    BY <1>2, <2>5 DEF LevelFound
  <2>7. QED
    BY <1>2, <2>4, <2>5, <2>6 DEF LinesInv, Counted
<1>5. QED
  BY <1>3, <1>4

LEMMA ServicesStep ==
    ASSUME ServicesAssumption, ServicesInv, [ServicesNext]_serviceVars
    PROVE  ServicesInv'
<1>1. UNCHANGED settings
  BY DEF ServicesNext, LinesNext, WindowsNext, FactoriesNext, serviceVars
<1>2. SettingsInv' /\ LevelFromEnv' = LevelFromEnv /\ Interval' = Interval
  BY <1>1, LevelStays DEF SettingsInv, ServicesInv
<1>3. UNCHANGED <<level, writing, logs, dropped>> /\ LinesInv => LinesInv'
  BY <1>2 DEF LinesInv, LevelFound, Counted
<1>4. UNCHANGED <<prof, samples>> /\ WindowsInv => WindowsInv'
  BY <1>2 DEF WindowsInv
<1>5. UNCHANGED proxy /\ FactoriesInv => FactoriesInv'
  BY DEF FactoriesInv
<1>6. CASE LinesNext
  BY <1>2, <1>4, <1>5, <1>6, LinesStep DEF LinesNext, ServicesInv
<1>7. CASE WindowsNext
  BY <1>2, <1>3, <1>5, <1>7, WindowsStep DEF WindowsNext, ServicesInv
<1>8. CASE FactoriesNext
  BY <1>2, <1>4, <1>8, FactoriesStep DEF FactoriesNext, ServicesInv
<1>9. CASE UNCHANGED serviceVars
  BY <1>2, <1>3, <1>4, <1>5, <1>9 DEF serviceVars, ServicesInv
<1>10. QED
  BY <1>6, <1>7, <1>8, <1>9 DEF ServicesNext

(* However a process ends, its logs are on disk as far as the code says;   *)
(* no thread drops a line the user's threshold would pass; the profiler's  *)
(* windows are a partition of what was recorded; a factory that worked     *)
(* works again: common/Log.cpp, AssetProfile.cpp, gpu/Proxy.cpp.           *)
THEOREM ProcessServesAlways == ServicesSpec => []ProcessServes
<1>1. ServicesInit => ServicesInv
  <2> SUFFICES ASSUME ServicesInit PROVE ServicesInv
    OBVIOUS
  <2>1. SettingsInv /\ FactoriesInv
    BY DEF ServicesInit, SettingsInv, FactoriesInv
  <2>2. Closed \in Logs /\ Counted(Closed)
    BY ServicesAssumption DEF Closed, Logs, Counted
  <2>3. LinesInv
    BY <2>2 DEF ServicesInit, LinesInv, Closed, Info, Off
  <2>4. Nothing \in Windows /\ Together(Nothing, Nothing) = Nothing
    BY DEF Nothing, Windows, Together
  <2>5. WindowsInv
    BY <2>4 DEF ServicesInit, WindowsInv
  <2>6. QED
    BY <2>1, <2>3, <2>5 DEF ServicesInv
<1>2. ServicesInv /\ [ServicesNext]_serviceVars => ServicesInv'
  BY ServicesStep, ServicesAssumption
<1>3. ServicesInv => ProcessServes
  BY DEF ServicesInv, LinesInv, Counted, WindowsInv, FactoriesInv, ProcessServes
<1>4. QED
  BY <1>1, <1>2, <1>3, PTL DEF ServicesSpec
==============================================================================
