------------------------------ MODULE MCRuntime ------------------------------
(* The two bridges of wxl-runtime, one at a time: a behaviour belongs to    *)
(* the bridge chosen in its first state and the other rests.  The network:  *)
(* two features of one name and a third of another over one opcode, a queue *)
(* of two packets and three bytes.  The scripts: a function, a script and a *)
(* CVar, and a client that replaces its Lua state and clears its globals.   *)
EXTENDS NetworkBridge, FrameScript, TLC

CONSTANTS f1, f2, f3, g1, s1, v1, a1, a2
VARIABLE part

MCNameOf == f1 :> "ping" @@ f2 :> "ping" @@ f3 :> "quest"

MCInit == NetInit /\ Init /\ part \in {"network", "scripts"}

Network(A) == part = "network" /\ A /\ UNCHANGED <<part, vars>>
ScriptPart(A) == part = "scripts" /\ A /\ UNCHANGED <<part, netAll>>

MCNext == Network(NetNext) \/ ScriptPart(Next)

all == <<part, netAll, vars>>
MCSpec ==
    /\ MCInit /\ [][MCNext]_all
    /\ WF_all(Network(GameThread)) /\ WF_all(Network(QueuePacket))
    /\ WF_all(ScriptPart(Bump)) /\ WF_all(ScriptPart(OnUpdate))
    /\ WF_all(ScriptPart(cleared /\ OnWorldEnter)) /\ WF_all(ScriptPart(Install))

------------------------------------------------------------------------------

(* What is handed to a bridge is not forgotten: a queued packet reaches    *)
(* its handlers (DrainQueue), a registered function or script the state in *)
(* force (FrameScriptBridge's generation).                                 *)
NothingForgotten == QueueDrains /\ RegisteredArrives

(* "Bootstrap scripts only rerun for a genuinely new state so they cannot  *)
(* duplicate frames or event handlers" (FrameScriptBridge.cpp:82-83),      *)
(* also when a call into the client faulted on the way.                    *)
RerunForNewStateOnly == \A s \in Scripts : runs[s] <= 1
==============================================================================
