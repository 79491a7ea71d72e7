------------------------------ MODULE MCClientIO ------------------------------
(* The client's model memory, its asynchronous reads, what is patched in    *)
(* place and the services of every binary, one at a time: a behaviour       *)
(* belongs to the part chosen in its first state and the others rest. The   *)
(* arena has five pages of four bytes, and requests of one page, of two,    *)
(* and one whose padded size wraps to zero; there are four reads, two       *)
(* uploads outside any completion and two faults; emitters expect no        *)
(* particle, half of one, two, four or more than a pool may hold; at most   *)
(* one knob is set, in the environment or in a file with a comment, a line  *)
(* without a value and a second line.  Beside the archives an emitter takes *)
(* a depth source, so that the part goes on when the startup is over.       *)
EXTENDS M2Arena, AsyncDrain, ClientPatches, ProcessServices

VARIABLE part

LiveParticles == {-1, 10, 42, 80, 400}

WindowKnobs == {"WXL_CLIENT_ASSET_PROFILE", "WXL_CLIENT_ASSET_PROFILE_INTERVAL_SEC"}
Knobs == {"WXL_LOG_LEVEL", "WXL_LOG_FLUSH"} \cup WindowKnobs
Texts == {[first |-> "0", number |-> 0, length |-> 1], [first |-> "1", number |-> 1, length |-> 1],
          [first |-> "2", number |-> 25, length |-> 2], [first |-> "6", number |-> 601, length |-> 3], [first |-> "d", number |-> -1, length |-> 5],
          [first |-> "w", number |-> -1, length |-> 4], [first |-> "w", number |-> -1, length |-> 40]}
Unset == [k \in Knobs |-> Absent]
Settings == {Unset} \cup {[Unset EXCEPT ![k] = t] : k \in Knobs, t \in Texts}
Line(kind, k, t) == [kind |-> kind, key |-> k, value |-> t]
Nowhere == [there |-> FALSE, lines |-> <<>>]
SettingFiles ==
    {Nowhere, [there |-> TRUE, lines |-> <<>>]} \cup
    {[there |-> TRUE, lines |-> <<Line("comment", "WXL_LOG_LEVEL", t), Line("bare", "WXL_LOG_LEVEL", t),
                                  Line("entry", "WXL_LOG_LEVEL", t), Line("entry", "WXL_LOG_LEVEL", u)>>] :
     t, u \in {[first |-> "1", number |-> 1, length |-> 1], [first |-> "w", number |-> -1, length |-> 4]}}

MCInit ==
    /\ ArenaInit /\ Init /\ PatchesInit /\ ServicesInit
    /\ part \in {"arena", "reads", "patches", "archives", "lines", "windows", "factories"}
    /\ part = "patches" \/ \A k \in DOMAIN edges : edges[k] = Shipped
    /\ part = "archives" \/ archives.found = kRequiredGateOriginal
    /\ part \in {"lines", "windows", "factories"} \/ settings.env = Unset
    /\ part = "lines" \/ (settings.here = Nowhere /\ settings.up = Nowhere)
    /\ settings.here = Nowhere \/ settings.up = Nowhere \/ settings.here.lines = <<>>
    /\ \A k \in Knobs : settings.env[k] # Absent => (part = "windows") = (k \in WindowKnobs)

ReadPart(A) == part = "reads" /\ A /\ UNCHANGED <<part, arenaVars, patchVars, serviceVars>>

MCNext == \/ part = "arena" /\ ArenaNext /\ UNCHANGED <<part, vars, patchVars, serviceVars>>
          \/ /\ \/ part = "patches" /\ DrawingNext
                \/ part = "archives" /\ (ArchivesNext \/ \E z \in {"1", "255"} : hkSetZsource("parent", z))
             /\ UNCHANGED <<part, arenaVars, vars, serviceVars>>
          \/ /\ \/ part = "lines" /\ LinesNext
                \/ part = "windows" /\ WindowsNext
                \/ part = "factories" /\ FactoriesNext
             /\ UNCHANGED <<part, arenaVars, vars, patchVars>>
          \/ ReadPart(Next)

all == <<part, arenaVars, vars, patchVars, serviceVars>>
MCSpec == MCInit /\ [][MCNext]_all
          /\ WF_all(ReadPart(Thread)) /\ \A r \in Reads : WF_all(ReadPart(Deliver(r)))
===============================================================================
