----------------------------- MODULE ClientEvents -----------------------------
(***************************************************************************)
(* The event bus (engine/events/Event.cpp) and the detours that feed it    *)
(* from one function of the client each: objects and the target            *)
(* (CGObject_C/Unit.cpp), sounds (SE2/Sound.cpp), the slots of a character *)
(* (CharModel/CharModel.cpp), doodads (CMapDoodad/Spawn.cpp), the world    *)
(* and its frames (CWorldScene/World.cpp).  All of it is one thread: a     *)
(* handler may call the client back, and the client's function may call    *)
(* other ones, so calls nest.                                              *)
(***************************************************************************)
EXTENDS Integers, Sequences, FiniteSets

CONSTANTS Subscribers,
          Labels, \* names of objects, sounds, items, doodads and maps
          Nobody,
          MaxCalls, MaxNested, MaxSubscriptions \* bounds

VARIABLES buckets, \* per event, its subscribers in order
          world,   \* what the client holds
          calls,   \* the detours being run, innermost last
          begun,   \* calls so far, which are bounded
          emissions \* each emission so far: its event, whom it was due to
                    \* and who heard it, both in order

eventVars == <<buckets, world, calls, begun, emissions>>

-----------------------------------------------------------------------------
(* What each detour does, in order: the client's function and emissions.   *)

hkObjUpdate == <<"native", "OnObjectUpdate">>
hkObjDestroyLate == <<"native", "OnObjectDestroy">>
hkObjDestroy == <<"OnObjectDestroy", "native">>
hkTargetSet == <<"native", "OnTargetChanged">>
hkPlaySoundLate == <<"native", "OnSoundPlay">>
hkPlaySound == <<"OnSoundPlay", "native">>
hkSlotDispatchFirst == <<"OnItemSlotChange", "native">>
hkSlotDispatch == <<"native", "OnItemSlotChange">>
hkSlotClear == <<"OnItemSlotClear", "native">>
hkDoodadSpawn == <<"native", "OnDoodadSpawn">>
hkFramePump == <<"native", "OnUpdate">>
hkWorldEnter == <<"OnWorldLeave", "native", "OnWorldEnter">>

Detours ==
    [ObjectUpdate |-> hkObjUpdate, ObjectDestroy |-> hkObjDestroy, TargetSet |-> hkTargetSet, PlaySound |-> hkPlaySound,
     SlotDispatch |-> hkSlotDispatch, SlotClear |-> hkSlotClear, DoodadSpawn |-> hkDoodadSpawn,
     FramePump |-> hkFramePump, WorldEnter |-> hkWorldEnter]
Events == {"OnObjectUpdate", "OnObjectDestroy", "OnTargetChanged", "OnSoundPlay", "OnItemSlotChange", "OnItemSlotClear",
           "OnDoodadSpawn", "OnUpdate", "OnWorldLeave", "OnWorldEnter"}

\* The client's functions, and what their callers see to.  A label of a
\* sound names one playing of it.
Callable(fn, x) ==
    CASE fn = "ObjectDestroy" -> x \in world.objects
      [] fn = "SlotClear" -> x = world.slot /\ x # Nobody
      [] fn = "WorldEnter" -> x # world.map
      [] fn = "TargetSet" -> x \in world.objects
      [] fn = "PlaySound" -> x \notin world.sounds
      [] fn = "FramePump" -> x = world.map
      [] OTHER -> TRUE
Effect(fn, x) ==
    CASE fn = "ObjectUpdate"  -> [world EXCEPT !.objects = @ \cup {x}]
      [] fn = "ObjectDestroy" -> [world EXCEPT !.objects = @ \ {x}, !.target = IF @ = x THEN Nobody ELSE @]
      [] fn = "TargetSet"     -> [world EXCEPT !.target = x]
      [] fn = "PlaySound"     -> [world EXCEPT !.sounds = @ \cup {x}]
      [] fn = "SlotDispatch"  -> [world EXCEPT !.slot = x]
      [] fn = "SlotClear"     -> [world EXCEPT !.slot = Nobody]
      [] fn = "DoodadSpawn"   -> [world EXCEPT !.doodads = @ \cup {x}]
      [] fn = "WorldEnter"    -> [world EXCEPT !.map = x, !.doodads = {}]
      [] OTHER -> world
\* A handler may set the target, play a sound or dress a character; what the
\* client does for a new world destroys, updates and spawns.
Nests(outer, fn) ==
    IF outer.step = "handler" THEN fn \in {"TargetSet", "PlaySound", "SlotDispatch"}
    ELSE outer.step = "native" /\ outer.fn = "WorldEnter" /\ fn \in {"ObjectUpdate", "ObjectDestroy", "DoodadSpawn"}

-----------------------------------------------------------------------------

ClientInit ==
    /\ buckets = [e \in Events |-> <<>>]
    /\ world = [objects |-> {}, target |-> Nobody, sounds |-> {}, slot |-> Nobody, doodads |-> {}, map |-> Nobody]
    /\ calls = <<>> /\ begun = 0 /\ emissions = <<>>

Top == calls[Len(calls)]
Innermost(frame) == [calls EXCEPT ![Len(calls)] = frame]
Running == calls # <<>>

(* A list that grows while it is walked may move under the walk: no        *)
(* handler of the repository subscribes.                                   *)
Subscribe(s, e) ==
    /\ ~Running
    /\ Cardinality({x \in Events \X (1..MaxSubscriptions) : x[2] <= Len(buckets[x[1]])}) < MaxSubscriptions
    /\ buckets' = [buckets EXCEPT ![e] = Append(@, s)]
    /\ UNCHANGED <<world, calls, begun, emissions>>

\* The detour of a function takes the call.
Call(fn, x) ==
    /\ begun < MaxCalls /\ Len(calls) < MaxNested /\ Callable(fn, x)
    /\ Running => Nests(Top, fn)
    /\ calls' = Append(IF Running THEN Innermost([Top EXCEPT !.nested = TRUE]) ELSE calls,
                       [fn |-> fn, arg |-> x, todo |-> Detours[fn], step |-> "between", next |-> 1, event |-> "OnUpdate",
                        carried |-> x, nested |-> FALSE, emission |-> 0])
    /\ begun' = begun + 1
    /\ UNCHANGED <<buckets, world, emissions>>

RunNative ==
    /\ Running /\ Top.step = "between" /\ Top.todo # <<>> /\ Head(Top.todo) = "native"
    /\ world' = Effect(Top.fn, Top.arg)
    /\ calls' = Innermost([Top EXCEPT !.step = "native", !.todo = Tail(@)])
    /\ UNCHANGED <<buckets, begun, emissions>>

\* World events carry the map the client is in, the others what was asked.
Carried(e) == IF e \in {"OnWorldLeave", "OnWorldEnter"} THEN world.map ELSE Top.arg
Emit ==
    /\ Running /\ Top.step = "between" /\ Top.todo # <<>> /\ Head(Top.todo) # "native"
    /\ LET e == Head(Top.todo) IN
       /\ calls' = Innermost([Top EXCEPT !.step = "walk", !.next = 1, !.event = e, !.carried = Carried(e),
                                         !.todo = Tail(@), !.nested = FALSE, !.emission = Len(emissions) + 1])
       /\ emissions' = Append(emissions, [event |-> e, due |-> buckets[e], heard |-> <<>>])
    /\ UNCHANGED <<buckets, world, begun>>
InBucketBut(k) == k < Len(buckets[Top.event])
InBucket(k) == k <= Len(buckets[Top.event])
LatestFirst(list, k) == list[Len(list) + 1 - k]
InListOrder(list, k) == list[k]
Handle ==
    /\ Running /\ Top.step = "walk" /\ InBucket(Top.next)
    /\ emissions' = [emissions EXCEPT ![Top.emission].heard = Append(@, InListOrder(buckets[Top.event], Top.next))]
    /\ calls' = Innermost([Top EXCEPT !.step = "handler", !.next = @ + 1])
    /\ UNCHANGED <<buckets, world, begun>>
Resume ==
    /\ Running
    /\ \/ Top.step = "handler" /\ calls' = Innermost([Top EXCEPT !.step = "walk"])
       \/ Top.step = "walk" /\ ~InBucket(Top.next) /\ calls' = Innermost([Top EXCEPT !.step = "between"])
       \/ Top.step = "native" /\ calls' = Innermost([Top EXCEPT !.step = "between"])
       \/ Top.step = "between" /\ Top.todo = <<>> /\ calls' = SubSeq(calls, 1, Len(calls) - 1)
    /\ UNCHANGED <<buckets, world, begun, emissions>>

ClientNext ==
    \/ \E s \in Subscribers, e \in Events : Subscribe(s, e)
    \/ \E fn \in DOMAIN Detours, x \in Labels : Call(fn, x)
    \/ RunNative \/ Emit \/ Handle \/ Resume

ClientSpec == ClientInit /\ [][ClientNext]_eventVars

-----------------------------------------------------------------------------

(* What Event.hpp says of an event, of the moment a handler hears of it:   *)
(* updates, targets, slots, doodads and worlds as they now are, an object  *)
(* that is about to go and a sound that is about to play.  Of a slot it    *)
(* says that it was cleared, but hkSlotClear emits before the client       *)
(* clears it: nothing is claimed of that event.                            *)
Told(e, x) ==
    CASE e = "OnObjectUpdate"   -> x \in world.objects
      [] e = "OnObjectDestroy"  -> x \in world.objects
      [] e = "OnTargetChanged"  -> world.target = x
      [] e = "OnSoundPlay"      -> x \notin world.sounds
      [] e = "OnItemSlotChange" -> world.slot = x
      [] e = "OnItemSlotClear"  -> TRUE
      [] e = "OnDoodadSpawn"    -> x \in world.doodads
      [] OTHER -> world.map = x

Walks(call) == call.step \in {"walk", "handler"}
InTurn(emission) ==
    /\ Len(emission.heard) <= Len(emission.due)
    /\ \A i \in DOMAIN emission.heard : emission.heard[i] = emission.due[i]

(* A handler hears of what the client is about to do before it is done and *)
(* of what it did after, of the world it is in by its map, and, unless a   *)
(* handler before it called the client back, of things as they are.  Each  *)
(* emission is heard by those its event's list held when it began, in the  *)
(* order of the list and as often as they stand in it; and none is left    *)
(* short of a subscriber, however many emissions of calls inside the       *)
(* client's function or a handler came between two of its handlers, once   *)
(* its own walk is over.                                                   *)
EventsTellTheTruth ==
    /\ \A k \in DOMAIN calls :
        calls[k].step = "handler" /\ k = Len(calls) /\ ~calls[k].nested => Told(calls[k].event, calls[k].carried)
    /\ \A n \in DOMAIN emissions :
        /\ InTurn(emissions[n])
        /\ emissions[n].heard = emissions[n].due \/ \E k \in DOMAIN calls : Walks(calls[k]) /\ calls[k].emission = n
==============================================================================
