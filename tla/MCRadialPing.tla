----------------------------- MODULE MCRadialPing -----------------------------
(***************************************************************************)
(* Two players of one group, on one map or on two; one makes two pings and *)
(* the other one, into native queues of a single ping.                     *)
(***************************************************************************)
EXTENDS RadialPing, TLC

CONSTANTS p1, p2

MCMaxPings == p1 :> 2 @@ p2 :> 1

=============================================================================
