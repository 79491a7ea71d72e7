------------------------------ MODULE MCStorage ------------------------------
(* One thread, which opens a texture, the WDT of a phase that providers    *)
(* claim, one that only the archives have, and a sound redirected to the   *)
(* former; as the main thread it also changes phase, among others to one   *)
(* whose WDT is not found or has no MAIN chunk.                            *)
EXTENDS Phasing, TLC

CONSTANTS t1, r1, p1, p2, x1, x2, f1, blp, wdt, native, wav, gilneas, kezan, azeroth, outland

MCThreads == {t1}
MCRedirects == {r1}
MCProviders == {p1, p2}
MCTransforms == {x1, x2}
MCFilters == {f1}
MCNames == {blp, wdt, native, wav}
MCSkipped == {wav}

(* Both providers claim the one WDT, both transforms the texture.          *)
MCClaimsOf == [c \in {r1, p1, p2, x1, x2} |->
    CASE c = r1 -> {wav} [] c \in {p1, p2} -> {wdt} [] OTHER -> {blp, wdt}]
MCTargetOf == [c \in {r1} |-> wdt]
MCSuffixOf == [n \in {blp, wdt, native, wav, x1, x2} |->
    CASE n = wav -> "wav" [] n \in {wdt, native} -> "wdt" [] OTHER -> "blp"]
MCSizeOf == [n \in {blp, native, wav, p1, p2, x1, x2} |->
    CASE n \in {blp, p1} -> 2 [] n = x2 -> 0 [] OTHER -> 1]
MCFilterSize == [f \in {f1} |-> 1]

MCWdtOf == [p \in {gilneas, kezan} |-> IF p = gilneas THEN wdt ELSE native]
(* What the second provider serves has no MAIN chunk.                      *)
MCTilesOf == [x \in {p1, native} |-> IF x = p1 THEN {1} ELSE {1, 2}]

(* Nothing tells one map from the other.                                   *)
MapSymmetry == Permutations(Maps)
=============================================================================
