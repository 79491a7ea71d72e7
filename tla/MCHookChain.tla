----------------------------- MODULE MCHookChain -----------------------------
(***************************************************************************)
(* Six install sites on two addresses, three on each, two of them at one   *)
(* priority and one in front of both.  One address may be joined while it  *)
(* is live, on the other installing precedes patching.  Callers read the   *)
(* chains and write nothing another one reads, so that one of them, with   *)
(* the registering thread, has every behaviour each of several has.        *)
(***************************************************************************)
EXTENDS HookChain, TLC

CONSTANTS t1, t2, p1, p2, p3, q1, q2, q3, c1

MCTargetOf == [p \in {p1, p2, p3} |-> t1] @@ [q \in {q1, q2, q3} |-> t2]
MCPriority == [p \in {p1, p2, q1, q2} |-> 0] @@ [p \in {p3, q3} |-> -1]

(* "Each store is a single aligned pointer write, so a call in flight       *)
(* through a live chain reads either the old successor or the new one"      *)
(* (Hook.cpp:73-74): never an empty cell, also where a party joins an       *)
(* address that is live.                                                    *)
OldOrNewSuccessor == \A c \in Callers : at[c] # Null
=============================================================================
