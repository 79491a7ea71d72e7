----------------------------- MODULE HookDispatch -----------------------------
(***************************************************************************)
(* What the hooking engine promises its users, without chains, cells and   *)
(* trampolines: once an address is armed with an ordered list of parties,  *)
(* every call to it runs those parties one after the other and then the    *)
(* engine function, unless a party suppresses the rest.                    *)
(***************************************************************************)
EXTENDS Sequences

CONSTANTS Targets, Parties, Callers

VARIABLES
    order, \* per address, the parties armed on it; empty until it is armed
    busy,  \* the callers inside a call
    rest   \* per caller, the parties its call has still to run

vars == <<order, busy, rest>>

Distinct(s) == \A i, j \in DOMAIN s : s[i] = s[j] => i = j

Init ==
    /\ order = [t \in Targets |-> << >>]
    /\ busy = {}
    /\ rest = [c \in Callers |-> << >>]

(* An address is armed once, and its order never changes afterwards.       *)
Arm ==
    /\ order' \in [Targets -> Seq(Parties)]
    /\ \A t \in Targets :
        /\ order[t] # << >> => order'[t] = order[t]
        /\ Distinct(order'[t])
    /\ UNCHANGED <<busy, rest>>

Enter(c, t) ==
    /\ c \notin busy
    /\ busy' = busy \cup {c}
    /\ rest' = [rest EXCEPT ![c] = order[t]]
    /\ UNCHANGED order

RunParty(c) ==
    /\ rest[c] # << >>
    /\ rest' = [rest EXCEPT ![c] = Tail(@)]
    /\ UNCHANGED <<order, busy>>

(* The engine function returns, or a party suppresses what is behind it.   *)
Exit(c) ==
    /\ c \in busy
    /\ busy' = busy \ {c}
    /\ rest' = [rest EXCEPT ![c] = << >>]
    /\ UNCHANGED order

Next ==
    \/ Arm
    \/ \E c \in Callers :
        \/ \E t \in Targets : Enter(c, t)
        \/ RunParty(c) \/ Exit(c)

Spec == Init /\ [][Next]_vars
=============================================================================
