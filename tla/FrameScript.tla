----------------------------- MODULE FrameScript -----------------------------
(***************************************************************************)
(* The FrameScript bridge of extensions/wxl-runtime: extensions register   *)
(* native Lua functions, bootstrap scripts and CVars from any thread, and  *)
(* the client thread carries what is new into the current Lua state once a *)
(* frame, and again on every world entry.                                  *)
(*                                                                         *)
(* The client replaces its Lua state at will and may clear the globals of  *)
(* a state it keeps.  Every call into it may fault; the bridge catches the *)
(* fault and tries again the next frame.                                   *)
(***************************************************************************)
EXTENDS Integers, Sequences

CONSTANTS
    Functions, Scripts, CVars, \* names that extensions register
    Addresses,  \* where the client allocates Lua states
    Null,       \* no Lua state
    Reuse,      \* TRUE: a new state may be where the previous one was
    MaxStates,  \* bound: Lua states the client creates
    MaxClears,  \* bound: world transitions that clear the globals
    MaxRefusals,\* bound: passes in which the client refuses CVars
    MaxFaults,  \* bound: calls into the client that fault
    MaxOwed     \* bound: registrations between the push and the bump

ASSUME FrameScriptAssumption ==
    /\ Null \notin Addresses
    /\ Reuse \in BOOLEAN
    /\ MaxStates \in Nat /\ MaxClears \in Nat
    /\ MaxRefusals \in Nat /\ MaxFaults \in Nat /\ MaxOwed \in Nat

VARIABLES
    functions, scripts, cvars, \* the registry, in registration order
    marked,     \* the CVars whose entry says installed
    generation, \* g_generation
    owed,       \* entries pushed whose registration has not bumped it yet
    state,      \* what CurrentState() returns
    globals,    \* the native functions in the globals of the state
    runs,       \* per script, how often it ran in the state
    native,     \* the CVars the client's registry holds
    installedState, installedGeneration, \* the bookkeeping of the last
    installedFunctions, installedScripts, \* InstallCurrent that finished
    pc,         \* where the running InstallCurrent is
    seen,       \* the generation and the registry sizes it read
    i,          \* its loop counter
    scriptStart,\* where its script loop starts
    cleared,    \* the globals were cleared and no world entry followed yet
    made, clears, refusals, faults \* the bounded counters

registry == <<functions, scripts, cvars, generation, owed>>
lua      == <<state, globals, runs, cleared, made, clears>>
book     == <<installedState, installedGeneration, installedFunctions, installedScripts>>
frame    == <<pc, seen, i, scriptStart>>
cvarVars == <<marked, native, refusals>>
vars     == <<registry, lua, book, frame, cvarVars, faults>>

Members(s) == {s[k] : k \in DOMAIN s}

Init ==
    /\ functions = << >> /\ scripts = << >> /\ cvars = << >>
    /\ marked = {} /\ native = {}
    /\ generation = 0 /\ owed = 0
    /\ state = Null /\ globals = {} /\ runs = [s \in Scripts |-> 0]
    /\ installedState = Null /\ installedGeneration = 0
    /\ installedFunctions = 0 /\ installedScripts = 0
    /\ pc = "idle" /\ i = 0 /\ scriptStart = 0
    /\ seen = [generation |-> 0, functions |-> 0, scripts |-> 0, cvars |-> 0]
    /\ cleared = FALSE
    /\ made = 0 /\ clears = 0 /\ refusals = 0 /\ faults = 0

-----------------------------------------------------------------------------
(* Registration: the entry is pushed under the lock, the generation is     *)
(* bumped after it.  A name that is there already changes nothing.         *)

OwesBump == owed < MaxOwed /\ owed' = owed + 1

RegisterFunction(f) ==
    /\ f \notin Members(functions)
    /\ functions' = Append(functions, f)
    /\ OwesBump
    /\ UNCHANGED <<scripts, cvars, generation, lua, book, frame, cvarVars, faults>>

RegisterScript(s) ==
    /\ s \notin Members(scripts)
    /\ scripts' = Append(scripts, s)
    /\ OwesBump
    /\ UNCHANGED <<functions, cvars, generation, lua, book, frame, cvarVars, faults>>

RegisterCVar(c) ==
    /\ c \notin Members(cvars)
    /\ cvars' = Append(cvars, c)
    /\ OwesBump
    /\ UNCHANGED <<functions, scripts, generation, lua, book, frame, cvarVars, faults>>

Bumped(g) == g + 1

Bump ==
    /\ owed > 0
    /\ owed' = owed - 1
    /\ generation' = Bumped(generation)
    /\ UNCHANGED <<functions, scripts, cvars, lua, book, frame, cvarVars, faults>>

-----------------------------------------------------------------------------
(* The client, on the thread that also runs the bridge.                    *)

NewState(a) ==
    /\ pc = "idle" /\ made < MaxStates
    /\ Reuse \/ a # installedState
    /\ state' = a
    /\ globals' = {} /\ runs' = [s \in Scripts |-> 0]
    /\ cleared' = FALSE
    /\ made' = made + 1
    /\ UNCHANGED <<registry, clears, book, frame, cvarVars, faults>>

ClearGlobals ==
    /\ pc = "idle" /\ state # Null /\ clears < MaxClears
    /\ globals' = {} /\ cleared' = TRUE
    /\ clears' = clears + 1
    /\ UNCHANGED <<registry, state, runs, made, book, frame, cvarVars, faults>>

-----------------------------------------------------------------------------
(* InstallCurrent.  The registry is copied under the lock, and every call  *)
(* into the client that follows runs outside of it.                        *)

NothingNew(force) ==
    state = installedState /\ generation = installedGeneration /\ ~force

FunctionStartKept(force) == installedFunctions
FunctionStart(force) ==
    IF state # installedState \/ force THEN 0 ELSE installedFunctions

ScriptStartForced(force) ==
    IF state # installedState \/ force THEN 0 ELSE installedScripts
ScriptStart(force) ==
    IF state # installedState THEN 0 ELSE installedScripts

(* OnUpdate is InstallCurrent(FALSE), OnWorldEnter is InstallCurrent(TRUE).*)
StartInstall(force) ==
    /\ pc = "idle" /\ state # Null /\ ~NothingNew(force)
    /\ pc' = "cvars"
    /\ i' = FunctionStart(force)
    /\ scriptStart' = ScriptStart(force)
    /\ seen' = [generation |-> generation, functions |-> Len(functions),
                scripts |-> Len(scripts), cvars |-> Len(cvars)]
    /\ cleared' = (cleared /\ ~force)
    /\ UNCHANGED <<registry, state, globals, runs, made, clears, book, cvarVars, faults>>

OnUpdate == StartInstall(FALSE)
OnWorldEnter == StartInstall(TRUE)

PendingCVars ==
    {cvars[k] : k \in 1 .. seen.cvars} \ marked

MarkedBy(c, ok) == IF ok THEN marked \cup {c} ELSE marked

(* The CVar loop; a CVar the client refuses is logged and left for a later *)
(* InstallCurrent.                                                         *)
InstallCVars ==
    /\ pc = "cvars"
    /\ \E refused \in SUBSET PendingCVars :
        /\ refused # {} => refusals < MaxRefusals
        /\ refusals' = refusals + (IF refused = {} THEN 0 ELSE 1)
        /\ native' = native \cup (PendingCVars \ refused)
        /\ marked' = UNION ({marked} \cup {MarkedBy(c, c \notin refused) : c \in PendingCVars})
    /\ pc' = "functions"
    /\ UNCHANGED <<registry, lua, book, seen, i, scriptStart, faults>>

InstallFunction ==
    /\ pc = "functions"
    /\ IF i < seen.functions
       THEN /\ globals' = globals \cup {functions[i + 1]}
            /\ i' = i + 1
            /\ UNCHANGED pc
       ELSE /\ pc' = "scripts" /\ i' = scriptStart
            /\ UNCHANGED globals
    /\ UNCHANGED <<registry, state, runs, cleared, made, clears, book, seen,
                   scriptStart, cvarVars, faults>>

InstallScript ==
    /\ pc = "scripts" /\ i < seen.scripts
    /\ runs' = [runs EXCEPT ![scripts[i + 1]] = @ + 1]
    /\ i' = i + 1
    /\ UNCHANGED <<registry, state, globals, cleared, made, clears, book, pc,
                   seen, scriptStart, cvarVars, faults>>

BookedGenerationReread == generation
BookedGeneration == seen.generation

FinishInstall ==
    /\ pc = "scripts" /\ i >= seen.scripts
    /\ pc' = "idle"
    /\ installedState' = state
    /\ installedGeneration' = BookedGeneration
    /\ installedFunctions' = seen.functions
    /\ installedScripts' = seen.scripts
    /\ UNCHANGED <<registry, lua, seen, i, scriptStart, cvarVars, faults>>

(* A call into the client faults: the handler in OnUpdate or OnWorldEnter  *)
(* swallows it, and nothing that was to be booked is.  A faulting script   *)
(* may have run to any extent.                                             *)
Fault ==
    /\ pc # "idle" /\ faults < MaxFaults
    /\ faults' = faults + 1
    /\ pc' = "idle"
    /\ UNCHANGED <<registry, lua, book, seen, i, scriptStart, cvarVars>>

-----------------------------------------------------------------------------

Register ==
    \/ \E f \in Functions : RegisterFunction(f)
    \/ \E s \in Scripts : RegisterScript(s)
    \/ \E c \in CVars : RegisterCVar(c)

Client == (\E a \in Addresses : NewState(a)) \/ ClearGlobals

Install == InstallCVars \/ InstallFunction \/ InstallScript \/ FinishInstall

Next == Register \/ Bump \/ Client \/ OnUpdate \/ OnWorldEnter \/ Install \/ Fault

Spec == Init /\ [][Next]_vars

(* A registration that pushed its entry returns; the client keeps drawing  *)
(* frames, and a transition that cleared the globals enters the world.     *)
FairSpec ==
    /\ Spec
    /\ WF_vars(Bump) /\ WF_vars(OnUpdate) /\ WF_vars(cleared /\ OnWorldEnter)
    /\ WF_vars(Install)

-----------------------------------------------------------------------------

TypeOK ==
    /\ functions \in Seq(Functions) /\ scripts \in Seq(Scripts) /\ cvars \in Seq(CVars)
    /\ marked \subseteq native /\ native \subseteq Members(cvars)
    /\ generation \in Nat /\ owed \in 0 .. MaxOwed
    /\ state \in Addresses \cup {Null}
    /\ globals \subseteq Members(functions)
    /\ runs \in [Scripts -> Nat]
    /\ installedState \in Addresses \cup {Null}
    /\ installedGeneration \in 0 .. generation
    /\ installedFunctions \in 0 .. Len(functions)
    /\ installedScripts \in 0 .. Len(scripts)
    /\ pc \in {"idle", "cvars", "functions", "scripts"}
    /\ seen \in [generation : Nat, functions : 0 .. Len(functions),
                 scripts : 0 .. Len(scripts), cvars : 0 .. Len(cvars)]
    /\ i \in Nat /\ scriptStart \in Nat
    /\ cleared \in BOOLEAN
    /\ faults \in Nat

(* "Bootstrap scripts only rerun for a genuinely new state so they cannot  *)
(* duplicate frames or event handlers" (FrameScriptBridge.cpp:82-83): no   *)
(* script runs twice in one state, with registrations, new states and      *)
(* world entries at any point - as long as no call into the client faulted,*)
(* for a fault skips the bookkeeping at :114-117.  And a script runs only  *)
(* where every function that is in the registry when InstallCurrent reads  *)
(* it is in the globals: the functions of an extension are there before    *)
(* its script is.  Between a clearing of the globals and the world entry   *)
(* they may be missing, and in a state the client allocated where the      *)
(* previous one was, which the bridge cannot tell from it.                 *)
ScriptsRunOnce ==
    /\ TypeOK
    /\ faults = 0 => \A s \in Scripts : runs[s] <= 1
    /\ pc = "scripts" /\ ~cleared /\ faults = 0 /\ ~Reuse =>
           \A k \in 1 .. seen.functions : functions[k] \in globals

(* Whatever is registered reaches the state in force, however registration *)
(* and the frame interleave: the generation is read before the registry    *)
(* and bumped after it.  A fault during a world entry does lose functions  *)
(* that were cleared: the next frame finds nothing new.  Scripts run in    *)
(* the state the client ends up with whatever faults on the way.           *)
RegisteredArrives ==
    /\ \A f \in Functions :
        (f \in Members(functions) /\ state # Null) ~> (f \in globals \/ faults > 0)
    /\ \A s \in Scripts :
        (s \in Members(scripts) /\ state # Null) ~> runs[s] >= 1

=============================================================================
