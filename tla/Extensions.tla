----------------------------- MODULE Extensions -----------------------------
(***************************************************************************)
(* The loader of out-of-core extensions and the services they offer each   *)
(* other (src/runtime/Extensions.cpp).                                     *)
(*                                                                         *)
(* LoadAll goes through the folders of Extensions\ in sorted order; of     *)
(* each one LoadOne maps the DLL, looks it over and calls its WXL_Load,    *)
(* which uses the table of services of the core.  What the table keeps     *)
(* (services, event subscriptions, detours) are addresses in the DLL that  *)
(* gave them.  A service is looked up by name and version.                 *)
(*                                                                         *)
(* A folder is its position in the sorted order.  Of a DLL the model keeps *)
(* what decides how loading it goes (Images), the interfaces its WXL_Load  *)
(* will not do without, and those it publishes.                            *)
(***************************************************************************)
EXTENDS Integers, FiniteSets, SequencesExt

CONSTANTS
    N,          \* folders of Extensions\, 1..N in sorted order
    Keys,       \* interfaces: a name with a version
    CoreKeys,   \* those the core itself publishes before any extension
    Needs,      \* what the WXL_Load of a folder's DLL asks for, or declines
    Offers,     \* what it publishes
    Kinds       \* the kinds of DLL the folders hold

Folders == 1 .. N

(* What a folder can hold: no DLL of its name, one Windows will not load,  *)
(* one without the two exports, one whose info block is of another size,   *)
(* one built for another API version or client build, a usable one, or one *)
(* that is usable but whose own installation fails in the end.             *)
Images == {"absent", "unloadable", "exportless", "misshapen", "otherBuild", "failing", "usable"}

ASSUME LoaderAssumption ==
    /\ N \in Nat
    /\ CoreKeys \subseteq Keys /\ IsFiniteSet(CoreKeys) /\ Kinds \subseteq Images
    /\ Needs \in [Folders -> SUBSET Keys]
    /\ Offers \in [Folders -> SUBSET Keys]

(* The way of a folder: unseen, passed over, mapped into the process,      *)
(* in WXL_Load, and then loaded, declined, or unmapped again.              *)
Stages == {"unseen", "passed", "mapped", "loading", "loaded", "declined", "unmapped"}

VARIABLES
    image,      \* what each folder holds
    stage,      \* how far LoadAll came with each
    services,   \* the published services, in order: [key, owner]
    bound,      \* what an extension got from GetInterface: <<folder, key, owner>>
    armed       \* the extensions the core calls into: event handlers and detours
loader == <<image, stage, services, bound, armed>>

core == 0       \* the owner of what the core publishes

Service == [key : Keys, owner : Folders \cup {core}]

-----------------------------------------------------------------------------
(* The service table.                                                      *)

Offering(k) == {i \in DOMAIN services : services[i].key = k}

Served(k) == Offering(k) # {}

(* ApiGetInterface: the first service of that name and version.            *)
Server(k) == services[CHOOSE i \in Offering(k) : \A j \in Offering(k) : i <= j].owner

-----------------------------------------------------------------------------
(* Loading.                                                                *)

Finished == {"passed", "loaded", "declined", "unmapped"}

LatestFirst(f) == \A g \in Folders : g > f => stage[g] \in Finished
(* LoadAll takes a folder when it is done with those sorted before it.     *)
IsNext(f) == \A g \in Folders : g < f => stage[g] \in Finished

StageIs(f, s) == stage' = [stage EXCEPT ![f] = s]

(* No DLL of the folder's name, or LoadLibrary refuses it.                 *)
PassOver(f) ==
    /\ stage[f] = "unseen"
    /\ IsNext(f)
    /\ image[f] \in {"absent", "unloadable"}
    /\ StageIs(f, "passed")
    /\ UNCHANGED <<image, services, bound, armed>>

MapDll(f) ==
    /\ stage[f] = "unseen"
    /\ IsNext(f)
    /\ image[f] \notin {"absent", "unloadable"}
    /\ StageIs(f, "mapped")
    /\ UNCHANGED <<image, services, bound, armed>>

(* What LoadOne asks of a DLL before its WXL_Load runs.                    *)
Qualifies(f) == image[f] \in {"failing", "usable"}

Refuse(f) ==
    /\ stage[f] = "mapped"
    /\ ~ Qualifies(f)
    /\ StageIs(f, "unmapped")
    /\ UNCHANGED <<image, services, bound, armed>>

CallLoad(f) ==
    /\ stage[f] = "mapped"
    /\ Qualifies(f)
    /\ StageIs(f, "loading")
    /\ UNCHANGED <<image, services, bound, armed>>

-----------------------------------------------------------------------------
(* What a WXL_Load does, in any order, before it returns.                  *)

GetInterface(f, k) ==
    /\ stage[f] = "loading"
    /\ k \in Needs[f]
    /\ Served(k)
    /\ bound' = bound \cup {<<f, k, Server(k)>>}
    /\ UNCHANGED <<image, stage, services, armed>>

Publish(f, k) ==
    /\ stage[f] = "loading"
    /\ k \in Offers[f]
    /\ [key |-> k, owner |-> f] \notin ToSet(services)
    /\ services' = Append(services, [key |-> k, owner |-> f])
    /\ UNCHANGED <<image, stage, bound, armed>>

Arm(f) ==
    /\ stage[f] = "loading"
    /\ armed' = armed \cup {f}
    /\ UNCHANGED <<image, stage, services, bound>>

Holds(f) == {k \in Needs[f] : \E o \in Folders \cup {core} : <<f, k, o>> \in bound}

Lacks(f) == \E k \in Needs[f] : ~ Served(k)

(* WXL_Load returns 1: it has what it needs and published what it offers.  *)
Load(f) ==
    /\ stage[f] = "loading"
    /\ image[f] = "usable"
    /\ Holds(f) = Needs[f]
    /\ \A k \in Offers[f] : [key |-> k, owner |-> f] \in ToSet(services)
    /\ StageIs(f, "loaded")
    /\ UNCHANGED <<image, services, bound, armed>>

AfterDeclineUnmapped == "unmapped"
(* The DLL of an extension that declined stays in the process.             *)
AfterDecline == "declined"

(* WXL_Load returns 0: an interface is missing, or its own part failed.    *)
Decline(f) ==
    /\ stage[f] = "loading"
    /\ Lacks(f) \/ image[f] = "failing"
    /\ StageIs(f, AfterDecline)
    /\ UNCHANGED <<image, services, bound, armed>>

-----------------------------------------------------------------------------

LoaderInit ==
    /\ image \in [Folders -> Kinds]
    /\ stage = [f \in Folders |-> "unseen"]
    /\ services = SetToSeq({[key |-> k, owner |-> core] : k \in CoreKeys})
    /\ bound = {}
    /\ armed = {}

\* One step of LoadAll.
LoaderNext == \E f \in Folders :
    \/ PassOver(f) \/ MapDll(f) \/ Refuse(f) \/ CallLoad(f)
    \/ (\E k \in Keys : GetInterface(f, k) \/ Publish(f, k))
    \/ Arm(f) \/ Load(f) \/ Decline(f)

-----------------------------------------------------------------------------
(* Properties.                                                             *)

Mapped(f) == f = core \/ stage[f] \in {"mapped", "loading", "loaded", "declined"}

LoaderTypeOK ==
    /\ image \in [Folders -> Images]
    /\ stage \in [Folders -> Stages]
    /\ services \in Seq(Service)
    /\ bound \subseteq Folders \X Keys \X (Folders \cup {core})
    /\ armed \subseteq Folders

(* Every service anybody can be handed, every interface already handed out *)
(* and every handler and detour the core may call lies in a DLL that is    *)
(* still in the process, also after its WXL_Load gave up half way.         *)
NothingDangles ==
    /\ LoaderTypeOK
    /\ \A i \in DOMAIN services : Mapped(services[i].owner)
    /\ \A b \in bound : Mapped(b[3])
    /\ \A f \in armed : Mapped(f)

(* The folders whose needs the sorted order can meet: those that find what *)
(* they need in the core or in a folder of the kind before them.           *)
Supplied[f \in Nat] ==
    IF f \notin Folders THEN {}
    ELSE LET before == UNION {Supplied[g] : g \in 1 .. f - 1} \cup CoreKeys
         IN  IF image[f] = "usable" /\ Needs[f] \subseteq before
             THEN Offers[f] ELSE {}

Suppliable(f) ==
    image[f] = "usable" /\ Needs[f] \subseteq UNION {Supplied[g] : g \in 1 .. f - 1} \cup CoreKeys

LoadAllDone == \A f \in Folders : stage[f] \in Finished
=============================================================================
