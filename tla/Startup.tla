------------------------------- MODULE Startup -------------------------------
(***************************************************************************)
(* One start of the client: the boot sequence (Boot) and the loader of     *)
(* extensions (Extensions), which its engine-init detour runs on the       *)
(* client's thread while MainThread goes its own way.                      *)
(*                                                                         *)
(* They meet in the hook engine: an extension's WXL_Load attaches to the   *)
(* chains that MainThread may be enabling at that very moment, by address  *)
(* or by the name of a hook point (src/runtime/HookPoints.cpp).            *)
(***************************************************************************)
EXTENDS Boot, Extensions

CONSTANTS
    kPoints,    \* the named hook points, in order: [name, address]
    Asks        \* by folder and kind of its DLL, what WXL_Load attaches to: names and addresses

Registered == {kPoints[i].name : i \in DOMAIN kPoints}

(* Two names may stand for one address; a DLL that asks for a name the     *)
(* table does not have is not a usable one.                                *)
ASSUME StartupAssumption ==
    /\ Registered \cap Points = {}
    /\ \A i \in DOMAIN kPoints : kPoints[i].address \in ExtPoints
    /\ \A f \in Folders : Asks[f]["usable"] \subseteq ExtPoints \cup Registered

vars == <<boot, loader>>

Init == BootInit /\ LoaderInit

(* The address of the first point of that name, if there is one.           *)
Find(name) ==
    {kPoints[i].address : i \in {i \in DOMAIN kPoints :
         kPoints[i].name = name /\ \A j \in 1 .. i - 1 : kPoints[j].name # name}}

(* HookAttach takes an address as it is; HookAttachByName attaches nothing *)
(* where the name is unknown.                                              *)
AttachTo(what) == IF what \in ExtPoints THEN {what} ELSE Find(what)

Targets(f) == UNION {AttachTo(what) : what \in Asks[f][image[f]]}

(* Both install at once; an attachment that fails fails the WXL_Load, and  *)
(* one that does not is made before it returns 1.                          *)
LoadAll ==
    /\ LoaderNext
    /\ \A f \in Folders : Load(f) => Targets(f) \subseteq linked
    /\ Attaching(UNION {Targets(f) : f \in armed' \ armed})

LoadsAll ==
    /\ LoadAllDone
    /\ EndLoadAll
    /\ UNCHANGED loader

Client == (ClientStep /\ UNCHANGED loader) \/ LoadAll \/ LoadsAll
Main == MainStep /\ UNCHANGED loader

Next == Client \/ Main

(* Both threads are scheduled; the client starts up and every WXL_Load     *)
(* returns.                                                                *)
Spec == Init /\ [][Next]_vars /\ WF_vars(Client) /\ WF_vars(Main)

-----------------------------------------------------------------------------

(* The detours of an extension are called only after its WXL_Load came to  *)
(* its end.  The exceptions: MainThread's wait for the device ran out, and *)
(* its EnableAll arms whatever is installed so far; or the extension joins *)
(* a chain of the boot sequence, which is live since DllMain.              *)
TimedOut == main \in {"enabling", "post", "done"} /\ ~device
LiveWhenLoaded ==
    \A f \in Folders : stage[f] = "loading" /\ Targets(f) \cap (live \ BootPoints) # {} => TimedOut

(* Nothing can be called that is not there yet or not there any more: a    *)
(* cell still empty, a detour whose extension is still loading, a service  *)
(* or handler in a DLL that gave up and was unmapped.                      *)
SafeToCall == NullOnlyInPatch /\ LiveWhenLoaded /\ NothingDangles

(* Every start ends with everything installed and, unless MinHook refused  *)
(* it, live, no chain falling between the batches of the two threads; and  *)
(* if the loader itself could be hooked, every usable extension whose      *)
(* needs are met by those sorted before it has loaded.                     *)
ComesUp ==
    <>[](/\ ready
         /\ BootPoints \cup Storage \cup NormalPoints \subseteq linked
         /\ linked \ refused = live
         /\ EngineInit \notin refused =>
                LoadAllDone /\ \A f \in Folders : Suppliable(f) => stage[f] = "loaded")
=============================================================================
