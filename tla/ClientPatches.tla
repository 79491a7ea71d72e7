---------------------------- MODULE ClientPatches -----------------------------
(***************************************************************************)
(* Changes to the client in place, without a hook chain of their own: the  *)
(* tables of blend factors (CGxDevice/BlendState.cpp), the scratch memory  *)
(* for mip levels (TextureScratch.cpp), the pools of particle emitters     *)
(* (CParticleEmitter2/EmitterBudget.cpp, ZSource.cpp), and the branch that *)
(* stops the startup over an archive (engine/storage/StorageHook.cpp).     *)
(***************************************************************************)
EXTENDS Integers, Sequences, FiniteSetsExt

CONSTANTS StockStates,   \* 12: the blend states of the client's tables
          Edges,         \* values of the two size operands; 1 is the shipped one
          Loads,         \* expected live particles, in twentieths, -1 for NaN
          PoolCeiling    \* 2^12

ASSUME PatchesAssumption == StockStates \in Nat /\ PoolCeiling \in Nat \ {0, 1} /\ Loads \subseteq Int

VARIABLES reads,     \* for "src" and "dst" the table that the client's instruction names
          tables,     \* the tables of this program, in each a factor per state
          blending,  \* the feature: "off", "on" or "failed"
          edges,     \* the operands of the scratch allocation
          widened,   \* the second feature has run, with the operands it found
          emitter,   \* "parent" and "child" -> [live, pool, ignore, source]
          synced,    \* no track has moved since the last Sync
          archives   \* [found, gate, armed, hooked, startup, content]

patchVars == <<reads, tables, blending, edges, widened, emitter, synced, archives>>

Sides == {"src", "dst"}
Added == StockStates .. StockStates + 1      \* screen add, premultiplied alpha
Stock(side) == [i \in 0 .. StockStates - 1 |-> <<side, i>>]
AddedFactor(side, i) == <<side, "added", i>>
\* What the device takes for a state; past the end of a table lies anything.
Factor(side, i) ==
    LET table == IF reads[side] = "stock" THEN Stock(side) ELSE tables[side]
    IN  IF i \in DOMAIN table THEN table[i] ELSE <<side, "past", i>>

OwnedUncopied(side) == [i \in 0 .. StockStates + 1 |-> IF i \in Added THEN AddedFactor(side, i) ELSE <<side, -1>>]
Owned(side) == [i \in 0 .. StockStates + 1 |-> IF i \in Added THEN AddedFactor(side, i) ELSE Stock(side)[i]]

\* Each rewritten operand needs its page writable; the way back may fail too.
InstallBlendStates(writable) ==
    /\ blending = "off"
    /\ tables' = [side \in Sides |-> Owned(side)]
    /\ reads' = [src |-> IF writable.src /\ (writable.dst \/ ~writable.back) THEN "owned" ELSE "stock",
                 dst |-> IF writable.src /\ writable.dst THEN "owned" ELSE "stock"]
    /\ blending' = IF writable.src /\ writable.dst THEN "on" ELSE "failed"
    /\ UNCHANGED <<edges, widened, emitter, synced, archives>>

(* The scratch is allocated from two operands.  Neither is touched unless  *)
(* both have the shipped value; the writes themselves are not checked.     *)
Shipped == 1
Wide == 2
WidenMipScratch(written) ==
    /\ widened = << >> /\ widened' = <<edges>>
    /\ edges' = IF \A k \in 1 .. 2 : edges[k] = Shipped
                THEN [k \in 1 .. 2 |-> IF k \in written THEN Wide ELSE edges[k]] ELSE edges
    /\ UNCHANGED <<reads, tables, blending, emitter, synced, archives>>

-----------------------------------------------------------------------------

MinPool == 2
\* A pool holds 15 % more than expected: live * 23 / 20, live in twentieths.
WantedPoolRounded(live) ==
    IF live <= 0 THEN MinPool ELSE Max({MinPool, Min({PoolCeiling, (live * 23 + 200) \div 400})})
WantedPool(live) ==
    IF live <= 0 THEN MinPool ELSE Max({MinPool, Min({PoolCeiling, (live * 23 + 399) \div 400})})
\* The client rounds to nearest and only then raises its pools.
NativePool(live) == IF live <= 0 THEN 0 ELSE (live * 23 + 200) \div 400

Raised(e, pool) == [e EXCEPT !.pool = Max({@, pool})]
\* Distance cuts a rate to no less than a quarter; below one particle the
\* emitter is taken out of that rule, for good.
Thins(live) == live < 4 * 20
ApplyBudget(e, pool) == [Raised(e, pool) EXCEPT !.ignore = @ \/ Thins(e.live)]

hkEmitterSync ==
    LET parent == emitter["parent"]
        child == emitter["child"]
        pool == WantedPool(parent.live)
        native == NativePool(parent.live)
        raised == ApplyBudget(Raised(parent, native), pool)
        both(own, of) == Min({own * of, PoolCeiling})
    IN  /\ emitter' = [emitter EXCEPT
                         !["parent"] = raised,
                         !["child"] = ApplyBudget(Raised(child, both(NativePool(child.live), native)),
                                                  both(WantedPool(child.live), pool))]
        /\ synced' = TRUE
        /\ UNCHANGED <<reads, tables, blending, edges, widened, archives>>

\* Tracks move the rate and the lifetime of an emitter.
Animate(name, live) ==
    /\ emitter' = [emitter EXCEPT ![name].live = live] /\ synced' = FALSE
    /\ UNCHANGED <<reads, tables, blending, edges, widened, archives>>

NoPointSource == [file |-> "255", client |-> "0"]
hkSetZsource(name, z) ==
    /\ emitter' = [emitter EXCEPT ![name].source = IF z = NoPointSource.file THEN NoPointSource.client ELSE z]
    /\ UNCHANGED <<reads, tables, blending, edges, widened, synced, archives>>

-----------------------------------------------------------------------------

(* A branch of the client ends its startup over a required archive that it *)
(* cannot open.  It is jumped over where it has the expected bytes; the    *)
(* hook and the write may fail, and nobody asks.                           *)
kRequiredGateOriginal == "shipped"
kRequiredGatePatched == "jumped"
InstallArchiveGuardBlind(hooked, written) ==
    /\ ~archives.armed
    /\ archives' = [archives EXCEPT !.armed = TRUE, !.hooked = hooked,
                      !.gate = IF written THEN kRequiredGatePatched ELSE @]
    /\ UNCHANGED <<reads, tables, blending, edges, widened, emitter, synced>>
InstallArchiveGuard(hooked, written) ==
    /\ ~archives.armed
    /\ archives' = [archives EXCEPT !.armed = TRUE, !.hooked = hooked,
                      !.gate = IF @ = kRequiredGateOriginal /\ written THEN kRequiredGatePatched ELSE @]
    /\ UNCHANGED <<reads, tables, blending, edges, widened, emitter, synced>>

\* The client's startup, after the guard; the detour has the last word on
\* which expansions are there.
InitializeWowConfig(opened) ==
    /\ archives.armed /\ archives.startup = "waits"
    /\ LET stops == ~opened /\ archives.gate # kRequiredGatePatched
       IN  archives' = [archives EXCEPT !.startup = IF stops THEN "stopped" ELSE "done",
                          !.content = IF archives.hooked /\ ~stops THEN "forced" ELSE "as found"]
    /\ UNCHANGED <<reads, tables, blending, edges, widened, emitter, synced>>

PatchesInit ==
    /\ \E found \in {kRequiredGateOriginal, "another build's"} :
          archives = [found |-> found, gate |-> found, armed |-> FALSE, hooked |-> FALSE, startup |-> "waits",
                      content |-> "as found"]
    /\ reads = [side \in Sides |-> "stock"] /\ tables = [side \in Sides |-> << >>] /\ blending = "off"
    /\ edges \in [1 .. 2 -> Edges] /\ widened = << >>
    /\ emitter = [name \in {"parent", "child"} |-> [live |-> 0, pool |-> 0, ignore |-> FALSE, source |-> "0"]]
    /\ synced = FALSE

ArchivesNext ==
    \/ \E hooked, written \in BOOLEAN : InstallArchiveGuard(hooked, written)
    \/ \E opened \in BOOLEAN : InitializeWowConfig(opened)

DrawingNext ==
    \/ \E src, dst, back \in BOOLEAN : InstallBlendStates([src |-> src, dst |-> dst, back |-> back])
    \/ \E written \in SUBSET (1 .. 2) : WidenMipScratch(written)
    \/ hkEmitterSync
    \/ \E name \in DOMAIN emitter :
          \/ \E live \in Loads : Animate(name, live)
          \/ \E z \in {"0", "1", "255"} : hkSetZsource(name, z)

PatchesNext == DrawingNext \/ ArchivesNext

PatchesSpec == PatchesInit /\ [][PatchesNext]_patchVars

-----------------------------------------------------------------------------

\* A state the client knew resolves to the pair it always had, even when one
\* table was repointed and could not be put back; a state that was added is
\* whole once the feature says so.
BlendPairs ==
    /\ \A i \in 0 .. StockStates - 1, side \in Sides : Factor(side, i) = Stock(side)[i]
    /\ blending = "on" => \A i \in Added, side \in Sides : Factor(side, i) = AddedFactor(side, i)
ScratchHolds ==
    widened # << >> => \A k \in 1 .. 2 :
        IF widened[1] = [j \in 1 .. 2 |-> Shipped] THEN edges[k] >= Shipped ELSE edges[k] = widened[1][k]
\* Room for every particle that is expected and for one that replaces another,
\* up to the ceiling, for a child as often as for its parent.
Serves(pool, live) == pool >= MinPool /\ (pool >= PoolCeiling \/ 20 * pool >= live)
PoolsServe ==
    synced =>
        /\ \A name \in DOMAIN emitter : LET e == emitter[name] IN Serves(e.pool, e.live) /\ (Thins(e.live) => e.ignore)
        /\ LET p == emitter["parent"] c == emitter["child"] IN
             c.live > 0 /\ p.live > 0 => c.pool >= PoolCeiling \/ 400 * c.pool >= c.live * p.live

\* No other build is written over, and a startup that goes on has all its
\* expansions.
ArchivesMount ==
    /\ archives.gate # archives.found =>
          archives.armed /\ archives.found = kRequiredGateOriginal /\ archives.startup # "stopped"
    /\ archives.startup = "done" => archives.content = IF archives.hooked THEN "forced" ELSE "as found"

(* What the client is left with after each of these changes, done, refused *)
(* or half done, serves it at least as well as what it shipped with.  That *)
(* a lighter emitter ignores distance for good, also when it grows again,  *)
(* costs particles and hides none.                                         *)
PatchesServe ==
    /\ BlendPairs /\ ScratchHolds /\ PoolsServe /\ ArchivesMount
    /\ \A name \in DOMAIN emitter : emitter[name].source # NoPointSource.file
==============================================================================
