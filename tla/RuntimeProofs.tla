---------------------------- MODULE RuntimeProofs ----------------------------
(***************************************************************************)
(* Proofs about the two bridges of wxl-runtime: that the FrameScript bridge*)
(* runs a script once and behind its functions, and that the network bridge*)
(* delivers what it took to everybody it owes it to, in order and once.    *)
(***************************************************************************)
EXTENDS NetworkBridge, FrameScript, SequenceTheorems, TLAPS

USE FrameScriptAssumption DEF FrameScriptAssumption

(* A script is registered once; what InstallCurrent read was there.        *)
RegistryKept ==
    /\ \A k, l \in DOMAIN scripts : scripts[k] = scripts[l] => k = l
    /\ seen.generation <= generation

(* The scripts of the registry that the state in force has behind it.      *)
ScriptsDone ==
    IF pc = "idle" THEN IF state = installedState THEN installedScripts ELSE 0
    ELSE IF pc = "scripts" THEN i ELSE scriptStart

(* And the functions it has, unless its globals were cleared.              *)
FunctionsDone ==
    IF pc = "idle" THEN IF state = installedState THEN installedFunctions ELSE 0
    ELSE IF pc = "scripts" THEN seen.functions ELSE i

PassInRange ==
    /\ pc # "idle" => /\ scriptStart = IF state # installedState THEN 0
                                       ELSE installedScripts
                      /\ scriptStart <= seen.scripts
    /\ pc \in {"cvars", "functions"} => i <= seen.functions
    /\ pc = "scripts" => scriptStart <= i /\ i <= seen.scripts

RanOnce ==
    \A s \in Scripts :
        /\ runs[s] <= 1
        /\ runs[s] # 0 => \E k \in 1 .. ScriptsDone : scripts[k] = s

Present ==
    ~cleared /\ ~Reuse => \A k \in 1 .. FunctionsDone : functions[k] \in globals

ScriptInv ==
    /\ TypeOK /\ RegistryKept
    /\ faults = 0 => PassInRange /\ RanOnce /\ Present

-----------------------------------------------------------------------------

(* What appending to a registry keeps.                                     *)
LEMMA AppendFacts ==
    ASSUME NEW S, NEW s \in Seq(S), NEW e \in S
    PROVE  /\ Append(s, e) \in Seq(S) /\ Len(Append(s, e)) = Len(s) + 1
           /\ Len(s) \in Nat /\ DOMAIN s = 1 .. Len(s)
           /\ DOMAIN Append(s, e) = 1 .. Len(s) + 1
           /\ \A k \in 1 .. Len(s) : Append(s, e)[k] = s[k]
           /\ Append(s, e)[Len(s) + 1] = e
           /\ Members(s) \subseteq Members(Append(s, e))
<1>1. /\ Append(s, e) \in Seq(S) /\ Len(Append(s, e)) = Len(s) + 1
      /\ Len(s) \in Nat /\ DOMAIN s = 1 .. Len(s)
      /\ DOMAIN Append(s, e) = 1 .. Len(s) + 1
      /\ \A k \in 1 .. Len(s) : Append(s, e)[k] = s[k]
      /\ Append(s, e)[Len(s) + 1] = e
  OBVIOUS
<1>2. QED
  BY <1>1 DEF Members

LEMMA FrameInit == Init => ScriptInv
<1> SUFFICES ASSUME Init PROVE ScriptInv
  OBVIOUS
<1>1. DOMAIN << >> = {} /\ << >> \in Seq(Functions) /\ << >> \in Seq(Scripts)
      /\ << >> \in Seq(CVars) /\ Len(<< >>) = 0
  OBVIOUS
<1>2. TypeOK
  <2>1. seen \in [generation : Nat, functions : 0 .. Len(functions),
                   scripts : 0 .. Len(scripts), cvars : 0 .. Len(cvars)]
    BY <1>1 DEF Init
  <2>2. /\ runs \in [Scripts -> Nat] /\ owed \in 0 .. MaxOwed
        /\ installedFunctions \in 0 .. Len(functions)
        /\ installedScripts \in 0 .. Len(scripts)
        /\ installedGeneration \in 0 .. generation
    BY <1>1 DEF Init
  <2>3. QED
    BY <1>1, <2>1, <2>2 DEF Init, TypeOK
<1>3. RegistryKept /\ PassInRange
  BY <1>1 DEF Init, RegistryKept, PassInRange
<1>4. RanOnce /\ Present
  BY DEF Init, RanOnce, Present, ScriptsDone, FunctionsDone
<1>5. QED
  BY <1>2, <1>3, <1>4 DEF ScriptInv

(* A registration appends one name; nothing the running pass or the books  *)
(* refer to moves.                                                         *)
LEMMA RegisterKeeps ==
    ASSUME ScriptInv, Register PROVE ScriptInv'
<1>1. UNCHANGED <<generation, lua, book, frame, cvarVars, faults>>
  BY DEF Register, RegisterFunction, RegisterScript, RegisterCVar
<1>2. TypeOK /\ RegistryKept
  BY DEF ScriptInv
<1>3. /\ functions' \in Seq(Functions) /\ Len(functions) <= Len(functions')
      /\ Members(functions) \subseteq Members(functions')
      /\ \A k \in 1 .. Len(functions) : functions'[k] = functions[k]
      /\ Len(functions') \in Nat /\ Len(functions) \in Nat
  <2>1. CASE \E f \in Functions : RegisterFunction(f)
    BY <1>2, <2>1, AppendFacts DEF RegisterFunction, TypeOK
  <2>2. CASE functions' = functions
    BY <1>2, <2>2 DEF TypeOK
  <2>3. QED
    BY <2>1, <2>2 DEF Register, RegisterScript, RegisterCVar
<1>4. /\ scripts' \in Seq(Scripts) /\ Len(scripts) <= Len(scripts')
      /\ \A k \in 1 .. Len(scripts) : scripts'[k] = scripts[k]
      /\ Len(scripts') \in Nat /\ Len(scripts) \in Nat
      /\ \A k, l \in DOMAIN scripts' : scripts'[k] = scripts'[l] => k = l
  <2>1. ASSUME NEW s \in Scripts, RegisterScript(s) PROVE <1>4!:
    <3>1. scripts \in Seq(Scripts) /\ scripts' = Append(scripts, s) /\ s \notin Members(scripts)
      BY <1>2, <2>1 DEF RegisterScript, TypeOK
    <3>2. /\ scripts' \in Seq(Scripts) /\ Len(scripts') = Len(scripts) + 1
          /\ Len(scripts) \in Nat /\ DOMAIN scripts = 1 .. Len(scripts)
          /\ DOMAIN scripts' = 1 .. Len(scripts) + 1
          /\ \A k \in 1 .. Len(scripts) : scripts'[k] = scripts[k] /\ scripts[k] # s
          /\ scripts'[Len(scripts) + 1] = s
      BY <3>1, AppendFacts DEF Members
    <3>3. QED
      BY <1>2, <3>2 DEF RegistryKept
  <2>2. CASE scripts' = scripts
    BY <1>2, <2>2 DEF TypeOK, RegistryKept
  <2>3. QED
    BY <2>1, <2>2 DEF Register, RegisterFunction, RegisterCVar
<1>5. /\ cvars' \in Seq(CVars) /\ Members(cvars) \subseteq Members(cvars')
      /\ Len(cvars) <= Len(cvars') /\ Len(cvars') \in Nat /\ Len(cvars) \in Nat
  <2>1. CASE \E c \in CVars : RegisterCVar(c)
    BY <1>2, <2>1, AppendFacts DEF RegisterCVar, TypeOK
  <2>2. CASE cvars' = cvars
    BY <1>2, <2>2 DEF TypeOK
  <2>3. QED
    BY <2>1, <2>2 DEF Register, RegisterFunction, RegisterScript
<1>6. owed' \in 0 .. MaxOwed
  BY <1>2 DEF Register, RegisterFunction, RegisterScript, RegisterCVar, OwesBump, TypeOK
<1>7. TypeOK'
  BY <1>1, <1>2, <1>3, <1>4, <1>5, <1>6 DEF TypeOK, lua, book, frame, cvarVars
<1>8. RegistryKept'
  BY <1>1, <1>2, <1>4 DEF RegistryKept, frame
<1>9. ASSUME faults = 0 PROVE PassInRange' /\ RanOnce' /\ Present'
  <2>1. PassInRange /\ RanOnce /\ Present
    BY <1>9 DEF ScriptInv
  <2>2. /\ UNCHANGED <<ScriptsDone, FunctionsDone>>
    BY <1>1 DEF ScriptsDone, FunctionsDone, lua, book, frame
  <2>3. ScriptsDone \in 0 .. Len(scripts) /\ FunctionsDone \in 0 .. Len(functions)
    BY <1>2, <1>3, <1>4, <2>1 DEF TypeOK, PassInRange, ScriptsDone, FunctionsDone
  <2>4. PassInRange'
    BY <1>1, <2>1 DEF PassInRange, lua, book, frame
  <2>5. RanOnce'
    BY <1>1, <1>4, <2>1, <2>2, <2>3 DEF RanOnce, lua
  <2>6. Present'
    BY <1>1, <1>3, <2>1, <2>2, <2>3 DEF Present, lua
  <2>7. QED
    BY <2>4, <2>5, <2>6
<1>10. QED
  BY <1>1, <1>7, <1>8, <1>9 DEF ScriptInv

(* The client replaces or clears its state between two passes.             *)
LEMMA ClientKeeps ==
    ASSUME ScriptInv, Client PROVE ScriptInv'
<1>1. /\ UNCHANGED <<registry, book, frame, cvarVars, faults>> /\ pc = "idle"
      /\ TypeOK /\ RegistryKept
  BY DEF Client, NewState, ClearGlobals, ScriptInv, frame
<1>2. CASE \E a \in Addresses : NewState(a)
  <2>1. PICK a \in Addresses : NewState(a)
    BY <1>2
  <2>2. /\ state' = a /\ globals' = {} /\ runs' = [s \in Scripts |-> 0]
        /\ cleared' = FALSE /\ (Reuse \/ a # installedState)
    BY <2>1 DEF NewState
  <2>3. TypeOK'
    BY <1>1, <2>2 DEF TypeOK, registry, book, frame, cvarVars
  <2>4. RegistryKept' /\ RanOnce'
    BY <1>1, <2>2 DEF RegistryKept, RanOnce, registry, frame
  <2>5. Present'
    BY <1>1, <2>2 DEF Present, FunctionsDone, book, frame
  <2>6. PassInRange'
    BY <1>1 DEF PassInRange, frame
  <2>7. QED
    BY <2>3, <2>4, <2>5, <2>6 DEF ScriptInv
<1>3. CASE ClearGlobals
  <2>1. UNCHANGED <<state, runs>> /\ globals' = {} /\ cleared' = TRUE
    BY <1>3 DEF ClearGlobals
  <2>2. TypeOK' /\ RegistryKept'
    BY <1>1, <2>1 DEF TypeOK, RegistryKept, registry, book, frame, cvarVars
  <2>3. RanOnce => RanOnce'
    BY <1>1, <2>1 DEF RanOnce, ScriptsDone, registry, book, frame
  <2>4. PassInRange' /\ Present'
    BY <1>1, <2>1 DEF PassInRange, Present, frame
  <2>5. QED
    BY <1>1, <2>2, <2>3, <2>4 DEF ScriptInv
<1>4. QED
  BY <1>2, <1>3 DEF Client

(* InstallCurrent starts where the books of this state end, or anew.       *)
LEMMA StartKeeps ==
    ASSUME ScriptInv, NEW force \in BOOLEAN, StartInstall(force) PROVE ScriptInv'
<1>1. /\ UNCHANGED <<registry, state, globals, runs, book, cvarVars, faults>>
      /\ pc = "idle" /\ pc' = "cvars" /\ TypeOK /\ RegistryKept
      /\ i' = IF state # installedState \/ force THEN 0 ELSE installedFunctions
      /\ scriptStart' = IF state # installedState THEN 0 ELSE installedScripts
      /\ seen' = [generation |-> generation, functions |-> Len(functions),
                  scripts |-> Len(scripts), cvars |-> Len(cvars)]
      /\ cleared' = (cleared /\ ~force)
  BY DEF StartInstall, ScriptInv, FunctionStart, ScriptStart
<1>2. /\ Len(functions) \in Nat /\ Len(scripts) \in Nat /\ Len(cvars) \in Nat
      /\ installedFunctions \in 0 .. Len(functions) /\ generation \in Nat
      /\ installedScripts \in 0 .. Len(scripts)
  BY <1>1 DEF TypeOK
<1>3. seen' \in [generation : Nat, functions : 0 .. Len(functions),
                 scripts : 0 .. Len(scripts), cvars : 0 .. Len(cvars)]
  BY <1>1, <1>2
<1>4. TypeOK' /\ RegistryKept'
  BY <1>1, <1>2, <1>3 DEF TypeOK, RegistryKept, registry, book, cvarVars
<1>5. PassInRange'
  BY <1>1, <1>2 DEF PassInRange, book, registry
<1>6. RanOnce => RanOnce'
  BY <1>1 DEF RanOnce, ScriptsDone, registry
<1>7. Present => Present'
  <2>1. FunctionsDone' = i'
    BY <1>1 DEF FunctionsDone
  <2>2. ~cleared' /\ i' # 0 => ~cleared /\ i' = FunctionsDone
    BY <1>1 DEF FunctionsDone, TypeOK
  <2>3. \A k \in 1 .. 0 : functions[k] \in globals
    OBVIOUS
  <2>4. QED
    BY <1>1, <2>1, <2>2, <2>3 DEF Present, registry
<1>8. QED
  BY <1>1, <1>4, <1>5, <1>6, <1>7 DEF ScriptInv

LEMMA InstallCVarsKeeps ==
    ASSUME ScriptInv, InstallCVars PROVE ScriptInv'
<1>1. /\ UNCHANGED <<registry, lua, book, seen, i, scriptStart, faults>>
      /\ pc = "cvars" /\ pc' = "functions" /\ TypeOK /\ RegistryKept
  BY DEF InstallCVars, ScriptInv
<1>2. marked' \subseteq native' /\ native' \subseteq Members(cvars)
  <2>1. PICK refused \in SUBSET PendingCVars :
            /\ native' = native \cup (PendingCVars \ refused)
            /\ marked' = UNION ({marked} \cup
                                 {MarkedBy(c, c \notin refused) : c \in PendingCVars})
    BY DEF InstallCVars
  <2>2. PendingCVars \subseteq Members(cvars)
    <3>1. seen.cvars \in 0 .. Len(cvars) /\ cvars \in Seq(CVars)
      BY <1>1 DEF TypeOK
    <3>2. 1 .. seen.cvars \subseteq DOMAIN cvars
      BY <3>1
    <3>3. QED
      BY <3>2 DEF PendingCVars, Members
  <2>3. marked' \subseteq marked \cup (PendingCVars \ refused)
    BY <2>1 DEF MarkedBy
  <2>4. QED
    BY <1>1, <2>1, <2>2, <2>3 DEF TypeOK
<1>3. TypeOK' /\ RegistryKept'
  BY <1>1, <1>2 DEF TypeOK, RegistryKept, registry, lua, book
<1>4. PassInRange => PassInRange'
  BY <1>1 DEF PassInRange, lua, book
<1>5. (RanOnce => RanOnce') /\ (Present => Present')
  BY <1>1 DEF RanOnce, Present, ScriptsDone, FunctionsDone, registry, lua
<1>6. QED
  BY <1>1, <1>3, <1>4, <1>5 DEF ScriptInv

(* The function loop stores functions[i] and moves on; behind its end the  *)
(* script loop starts.                                                     *)
LEMMA InstallFunctionKeeps ==
    ASSUME ScriptInv, InstallFunction PROVE ScriptInv'
<1>1. /\ UNCHANGED <<registry, state, runs, cleared, book, seen, scriptStart, cvarVars, faults>>
      /\ pc = "functions" /\ TypeOK /\ RegistryKept
  BY DEF InstallFunction, ScriptInv
<1>2. /\ functions \in Seq(Functions) /\ Len(functions) \in Nat
      /\ seen.functions \in 0 .. Len(functions) /\ seen.scripts \in 0 .. Len(scripts)
      /\ i \in Nat /\ scriptStart \in Nat /\ Len(scripts) \in Nat
  BY <1>1 DEF TypeOK
<1>3. CASE i < seen.functions
  <2>1. /\ globals' = globals \cup {functions[i + 1]} /\ i' = i + 1 /\ pc' = pc
        /\ i + 1 \in 1 .. Len(functions)
    BY <1>2, <1>3 DEF InstallFunction
  <2>2. functions[i + 1] \in Members(functions)
    BY <1>2, <2>1 DEF Members
  <2>3. TypeOK' /\ RegistryKept'
    BY <1>1, <1>2, <2>1, <2>2 DEF TypeOK, RegistryKept, registry, book, cvarVars
  <2>4. PassInRange => PassInRange'
    BY <1>1, <1>2, <1>3, <2>1 DEF PassInRange, book
  <2>5. RanOnce => RanOnce'
    BY <1>1, <2>1 DEF RanOnce, ScriptsDone, registry
  <2>6. Present => Present'
    <3>1. SUFFICES ASSUME Present, ~cleared, ~Reuse, NEW k \in 1 .. i + 1
                   PROVE  functions[k] \in globals'
      BY <1>1, <2>1 DEF Present, FunctionsDone, registry
    <3>2. k \in 1 .. i \/ k = i + 1
      BY <1>2
    <3>3. k \in 1 .. i => functions[k] \in globals
      BY <1>1, <3>1 DEF Present, FunctionsDone
    <3>4. QED
      BY <2>1, <3>2, <3>3
  <2>7. QED
    BY <1>1, <2>3, <2>4, <2>5, <2>6 DEF ScriptInv
<1>4. CASE ~(i < seen.functions)
  <2>1. pc' = "scripts" /\ i' = scriptStart /\ globals' = globals
    BY <1>4 DEF InstallFunction
  <2>2. TypeOK' /\ RegistryKept'
    BY <1>1, <2>1 DEF TypeOK, RegistryKept, registry, book, cvarVars
  <2>3. PassInRange => PassInRange'
    BY <1>1, <1>2, <2>1 DEF PassInRange, book
  <2>4. RanOnce => RanOnce'
    BY <1>1, <2>1 DEF RanOnce, ScriptsDone, registry
  <2>5. PassInRange /\ Present => Present'
    <3>1. PassInRange => i = seen.functions
      BY <1>1, <1>2, <1>4 DEF PassInRange
    <3>2. QED
      BY <1>1, <2>1, <3>1 DEF Present, FunctionsDone, registry
  <2>6. QED
    BY <1>1, <2>2, <2>3, <2>4, <2>5 DEF ScriptInv
<1>5. QED
  BY <1>3, <1>4

(* A script the loop runs is behind all that ran, so none of them is it.   *)
LEMMA InstallScriptKeeps ==
    ASSUME ScriptInv, InstallScript PROVE ScriptInv'
<1>1. /\ UNCHANGED <<registry, state, globals, cleared, book, pc, seen, scriptStart,
                     cvarVars, faults>>
      /\ pc = "scripts" /\ i < seen.scripts /\ i' = i + 1
      /\ runs' = [runs EXCEPT ![scripts[i + 1]] = @ + 1]
      /\ TypeOK /\ RegistryKept
  BY DEF InstallScript, ScriptInv
<1>2. /\ scripts \in Seq(Scripts) /\ Len(scripts) \in Nat /\ DOMAIN scripts = 1 .. Len(scripts)
      /\ seen.scripts \in 0 .. Len(scripts) /\ i \in Nat /\ scriptStart \in Nat
      /\ i + 1 \in 1 .. Len(scripts) /\ runs \in [Scripts -> Nat]
  BY <1>1 DEF TypeOK
<1>3. scripts[i + 1] \in Scripts /\ runs' \in [Scripts -> Nat]
  BY <1>1, <1>2
<1>4. TypeOK' /\ RegistryKept'
  BY <1>1, <1>2, <1>3 DEF TypeOK, RegistryKept, registry, book, cvarVars
<1>5. PassInRange => PassInRange'
  BY <1>1, <1>2 DEF PassInRange, book
<1>6. ASSUME RanOnce PROVE RanOnce'
  <2>1. runs[scripts[i + 1]] = 0
    <3>1. ~\E k \in 1 .. i : scripts[k] = scripts[i + 1]
      BY <1>1, <1>2 DEF RegistryKept
    <3>2. QED
      BY <1>1, <1>3, <1>6, <3>1 DEF RanOnce, ScriptsDone
  <2>2. ASSUME NEW s \in Scripts
        PROVE  runs'[s] <= 1 /\ (runs'[s] # 0 => \E k \in 1 .. i + 1 : scripts[k] = s)
    <3>1. CASE s = scripts[i + 1]
      BY <1>1, <1>2, <2>1, <3>1
    <3>2. CASE s # scripts[i + 1]
      <4>1. runs'[s] = runs[s]
        BY <1>1, <1>2, <3>2
      <4>2. 1 .. i \subseteq 1 .. i + 1
        BY <1>2
      <4>3. QED
        BY <1>1, <1>6, <4>1, <4>2 DEF RanOnce, ScriptsDone
    <3>3. QED
      BY <3>1, <3>2
  <2>3. QED
    BY <1>1, <2>2 DEF RanOnce, ScriptsDone, registry
<1>7. Present => Present'
  BY <1>1 DEF Present, FunctionsDone, registry
<1>8. QED
  BY <1>1, <1>4, <1>5, <1>6, <1>7 DEF ScriptInv

LEMMA FinishKeeps ==
    ASSUME ScriptInv, FinishInstall PROVE ScriptInv'
<1>1. /\ UNCHANGED <<registry, lua, seen, i, scriptStart, cvarVars, faults>>
      /\ pc = "scripts" /\ pc' = "idle" /\ i >= seen.scripts
      /\ installedState' = state /\ installedGeneration' = seen.generation
      /\ installedFunctions' = seen.functions /\ installedScripts' = seen.scripts
      /\ TypeOK /\ RegistryKept
  BY DEF FinishInstall, BookedGeneration, ScriptInv
<1>2. TypeOK' /\ RegistryKept'
  BY <1>1 DEF TypeOK, RegistryKept, registry, lua, cvarVars
<1>3. PassInRange => i = seen.scripts
  BY <1>1 DEF PassInRange, TypeOK
<1>4. PassInRange /\ RanOnce => RanOnce'
  BY <1>1, <1>3 DEF RanOnce, ScriptsDone, registry, lua
<1>5. Present => Present'
  BY <1>1 DEF Present, FunctionsDone, registry, lua
<1>6. PassInRange'
  BY <1>1 DEF PassInRange
<1>7. QED
  BY <1>1, <1>2, <1>4, <1>5, <1>6 DEF ScriptInv

LEMMA FrameNext == ScriptInv /\ [Next]_vars => ScriptInv'
<1> SUFFICES ASSUME ScriptInv, [Next]_vars PROVE ScriptInv'
  OBVIOUS
<1>1. CASE Bump
  <2>1. /\ UNCHANGED <<functions, scripts, cvars, lua, book, frame, cvarVars, faults>>
        /\ generation' = generation + 1 /\ owed' = owed - 1 /\ owed > 0
        /\ TypeOK /\ RegistryKept
    BY <1>1 DEF Bump, Bumped, ScriptInv
  <2>2. TypeOK' /\ RegistryKept'
    BY <2>1 DEF TypeOK, RegistryKept, lua, book, frame, cvarVars
  <2>3. (PassInRange => PassInRange') /\ (RanOnce => RanOnce') /\ (Present => Present')
    BY <2>1 DEF PassInRange, RanOnce, Present, ScriptsDone, FunctionsDone, lua, book, frame
  <2>4. QED
    BY <2>1, <2>2, <2>3 DEF ScriptInv
<1>2. CASE Fault
  <2>1. /\ UNCHANGED <<registry, lua, book, seen, i, scriptStart, cvarVars>>
        /\ pc' = "idle" /\ faults' = faults + 1 /\ TypeOK /\ RegistryKept
    BY <1>2 DEF Fault, ScriptInv
  <2>2. TypeOK' /\ RegistryKept'
    BY <2>1 DEF TypeOK, RegistryKept, registry, lua, book, cvarVars
  <2>3. faults' # 0
    BY <2>1 DEF TypeOK
  <2>4. QED
    BY <2>2, <2>3 DEF ScriptInv
<1>3. CASE UNCHANGED vars
  <2>1. UNCHANGED <<registry, lua, book, frame, cvarVars, faults>>
    BY <1>3 DEF vars
  <2>2. ScriptInv' = ScriptInv
    BY <2>1 DEF ScriptInv, TypeOK, RegistryKept, PassInRange, RanOnce, Present,
                ScriptsDone, FunctionsDone, registry, lua, book, frame, cvarVars
  <2>3. QED
    BY <2>2
<1>4. CASE Install
  BY <1>4, InstallCVarsKeeps, InstallFunctionKeeps, InstallScriptKeeps, FinishKeeps
     DEF Install
<1>5. CASE OnUpdate \/ OnWorldEnter
  BY <1>5, StartKeeps DEF OnUpdate, OnWorldEnter
<1>6. QED
  BY <1>1, <1>2, <1>3, <1>4, <1>5, RegisterKeeps, ClientKeeps DEF Next

(* A bootstrap script runs at most once in a Lua state, and behind the     *)
(* functions InstallCurrent read with it, until a call into the client     *)
(* faults.                                                                 *)
THEOREM ScriptsRunOnceAlways == Spec => []ScriptsRunOnce
<1>1. ScriptInv => ScriptsRunOnce
  BY DEF ScriptInv, ScriptsRunOnce, RanOnce, Present, FunctionsDone
<1>2. QED
  BY <1>1, FrameInit, FrameNext, PTL DEF Spec
-----------------------------------------------------------------------------
(* The network bridge.                                                     *)

USE NetworkAssumption DEF NetworkAssumption

ObserversOnce ==
    \A o \in Opcodes : \A k, l \in DOMAIN observers[o] :
        observers[o][k] = observers[o][l] => k = l

(* The payload of the queue, as OwedIsDelivered has it, falling to its end.*)
Books ==
    /\ Len(pending) <= MaxPackets
    /\ \E rest \in [1 .. Len(pending) + 1 -> 0 .. Quota] :
          /\ AddsUp(rest) /\ rest[1] = pendingBytes
          /\ \A k, l \in DOMAIN rest : k <= l => rest[l] <= rest[k]

(* Messages keep the order of their arrival from the network thread's hands*)
(* through the queue to the handlers.                                      *)
Dispatching == update.at \in {"copy", "call"}
NotYetOut(id) ==
    /\ id <= arrived
    /\ receiving # None => id < receiving.id
    /\ \A k \in DOMAIN pending : id < pending[k].id
InOrder ==
    /\ receiving # None => receiving.id = arrived
    /\ \A k \in DOMAIN pending :
          /\ pending[k].id <= arrived
          /\ receiving # None => pending[k].id < receiving.id
          /\ \A l \in DOMAIN pending : k < l => pending[k].id < pending[l].id
    /\ Dispatching => update.packet \in Packets /\ NotYetOut(update.packet.id)
    /\ \A j \in DOMAIN delivered :
          /\ NotYetOut(delivered[j].id)
          /\ update.at = "copy" => delivered[j].id < update.packet.id
          /\ update.at = "call" => delivered[j].id <= update.packet.id
    /\ update.at = "take" => update.count < MaxDispatch

(* No call is made twice, nor is one still to be made that was.            *)
CalledOnce ==
    /\ \A j, k \in DOMAIN delivered : delivered[j] = delivered[k] => j = k
    /\ update.at = "call" =>
         /\ \A k, l \in DOMAIN update.calls : update.calls[k] = update.calls[l] => k = l
         /\ \A k \in DOMAIN update.calls : \A j \in DOMAIN delivered :
               delivered[j] # [id |-> update.packet.id, call |-> update.calls[k]]

(* Whoever was registered when a message arrived still is when its handlers*)
(* are copied, and from then on is called or about to be.                  *)
StillOwed ==
    /\ receiving # None => due[receiving.id] \subseteq Registered(receiving.opcode)
    /\ \A k \in DOMAIN pending : due[pending[k].id] \subseteq Registered(pending[k].opcode)
    /\ update.at = "copy" =>
          due[update.packet.id] \subseteq Registered(update.packet.opcode)
    /\ update.at = "call" =>
          due[update.packet.id] \subseteq CallsFor(update.packet.id) \cup ToSet(update.calls)

NetInv ==
    NetTypeOK /\ ObserversOnce /\ Books /\ InOrder /\ CalledOnce /\ StillOwed

LEMMA ElementOf ==
    ASSUME NEW S, NEW s \in Seq(S), NEW k \in DOMAIN s
    PROVE  s[k] \in S
  OBVIOUS

LEMMA NetTypes ==
    ASSUME NetTypeOK
    PROVE  /\ \A k \in DOMAIN pending : /\ pending[k] \in Packets
                                        /\ pending[k].id \in 1 .. MaxArrivals
                                        /\ pending[k].opcode \in Opcodes
                                        /\ pending[k].size \in Nat
           /\ \A j \in DOMAIN delivered : /\ delivered[j].id \in 1 .. MaxArrivals
                                          /\ delivered[j].call \in HandlerCalls
           /\ receiving # None => /\ receiving \in Packets
                                  /\ receiving.id \in 1 .. MaxArrivals
                                  /\ receiving.opcode \in Opcodes
                                  /\ receiving.size \in Nat
           /\ Len(pending) \in Nat /\ DOMAIN pending = 1 .. Len(pending)
           /\ Len(delivered) \in Nat /\ DOMAIN delivered = 1 .. Len(delivered)
           /\ arrived \in Nat /\ pendingBytes \in Nat
<1>1. \A x \in Packets : x.id \in 1 .. MaxArrivals /\ x.opcode \in Opcodes /\ x.size \in Nat
  BY DEF Packets
<1>2. pending \in Seq(Packets) /\ receiving \in Packets \cup {None}
  BY DEF NetTypeOK
<1>3. \A k \in DOMAIN pending : pending[k] \in Packets
  BY <1>2
<1>4. delivered \in Seq([id : 1 .. MaxArrivals, call : HandlerCalls])
  BY DEF NetTypeOK
<1>5. \A j \in DOMAIN delivered : delivered[j] \in [id : 1 .. MaxArrivals, call : HandlerCalls]
  BY <1>4, ElementOf
<1>6. arrived \in Nat /\ pendingBytes \in Nat
  BY DEF NetTypeOK
<1>7. QED
  BY <1>1, <1>2, <1>3, <1>4, <1>5, <1>6

LEMMA NetInitInv == NetInit => NetInv
<1> SUFFICES ASSUME NetInit PROVE NetInv
  OBVIOUS
<1>1. DOMAIN << >> = {} /\ Len(<< >>) = 0
  OBVIOUS
<1>2. /\ pending = << >> /\ delivered = << >> /\ receiving = None
      /\ update.at = "asleep" /\ pendingBytes = 0 /\ arrived = 0
      /\ \A o \in Opcodes : observers[o] = << >>
  BY DEF NetInit, Asleep
<1>3. NetTypeOK
  <2>1. update \in [at : {"asleep", "take", "copy", "call"}, packet : Packets \cup {None},
                    calls : Seq(HandlerCalls), count : 0 .. MaxDispatch, bytes : Nat]
    BY DEF NetInit, Asleep
  <2>2. QED
    BY <2>1 DEF NetInit, NetTypeOK
<1>4. ObserversOnce /\ InOrder /\ CalledOnce /\ StillOwed
  BY <1>1, <1>2 DEF ObserversOnce, InOrder, Dispatching, CalledOnce, StillOwed
<1>5. Books
  <2>1. AddsUp([k \in 1 .. 1 |-> 0])
    BY <1>1, <1>2 DEF AddsUp
  <2>2. QED
    BY <1>1, <1>2, <2>1 DEF Books
<1>6. QED
  BY <1>3, <1>4, <1>5 DEF NetInv

(* A registration takes nobody's place.                                    *)
LEMMA NetRegisterInv ==
    ASSUME NetInv, NetRegister PROVE NetInv'
<1>1. PICK o \in Opcodes, f \in Features :
          RegisterServerOpcode(o, f) \/ RegisterServerObserver(o, f)
  BY DEF NetRegister
<1>2. /\ UNCHANGED <<netVars, pending, pendingBytes, update, delivered>>
      /\ NetTypeOK /\ observers \in [Opcodes -> Seq(Features)]
      /\ server \in [Opcodes -> Features \cup {None}]
  BY <1>1 DEF RegisterServerOpcode, RegisterServerObserver, NetInv, NetTypeOK
<1>3. /\ server' \in [Opcodes -> Features \cup {None}]
      /\ \A x \in Opcodes : server[x] # None => server'[x] = server[x]
  BY <1>1, <1>2 DEF RegisterServerOpcode, RegisterServerObserver, OwnerAfter
<1>4. /\ observers' \in [Opcodes -> Seq(Features)]
      /\ \A x \in Opcodes : ToSet(observers[x]) \subseteq ToSet(observers'[x])
      /\ ObserversOnce'
  <2>1. CASE observers' = observers
    BY <1>2, <2>1 DEF NetInv, ObserversOnce
  <2>2. CASE /\ SameName(o, f) = {}
             /\ observers' = [observers EXCEPT ![o] = Append(observers[o], f)]
    <3> DEFINE s == observers[o]
    <3>1. s \in Seq(Features) /\ \A k \in DOMAIN s : s[k] # f
      BY <1>2, <2>2 DEF SameName, ToSet
    <3>2. \A k, l \in DOMAIN s : s[k] = s[l] => k = l
      BY DEF NetInv, ObserversOnce
    <3>3. \A x \in Opcodes : observers'[x] = IF x = o THEN Append(s, f) ELSE observers[x]
      BY <1>2, <2>2
    <3> HIDE DEF s
    <3>4. /\ Append(s, f) \in Seq(Features) /\ ToSet(s) \subseteq ToSet(Append(s, f))
          /\ \A k, l \in DOMAIN Append(s, f) : Append(s, f)[k] = Append(s, f)[l] => k = l
      <4>1. /\ Append(s, f) \in Seq(Features) /\ Len(s) \in Nat /\ DOMAIN s = 1 .. Len(s)
            /\ DOMAIN Append(s, f) = 1 .. Len(s) + 1
            /\ \A k \in 1 .. Len(s) : Append(s, f)[k] = s[k]
            /\ Append(s, f)[Len(s) + 1] = f
        BY <3>1, AppendFacts
      <4>2. QED
        BY <3>1, <3>2, <4>1 DEF ToSet
    <3>5. observers' \in [Opcodes -> Seq(Features)]
      BY <1>2, <2>2, <3>4 DEF s
    <3>6. \A x \in Opcodes : ToSet(observers[x]) \subseteq ToSet(observers'[x])
      BY <3>3, <3>4 DEF s
    <3>7. ObserversOnce'
      BY <3>3, <3>4 DEF NetInv, ObserversOnce
    <3>8. QED
      BY <3>5, <3>6, <3>7
  <2>3. QED
    BY <1>1, <1>2, <2>1, <2>2 DEF RegisterServerOpcode, RegisterServerObserver
<1>5. \A x \in Opcodes : Registered(x) \subseteq Registered(x)'
  BY <1>3, <1>4 DEF Registered
<1>6. NetTypeOK'
  BY <1>2, <1>3, <1>4 DEF NetTypeOK, netVars
<1>7. StillOwed'
  <2>1. receiving # None => receiving.opcode \in Opcodes
    BY <1>2 DEF NetTypeOK, Packets
  <2>2. \A k \in DOMAIN pending : pending[k].opcode \in Opcodes
    BY <1>2, NetTypes
  <2>3. update.at = "copy" => update.packet.opcode \in Opcodes
    BY DEF NetInv, InOrder, Dispatching, Packets
  <2>4. QED
    BY <1>2, <1>5, <2>1, <2>2, <2>3 DEF NetInv, StillOwed, netVars, CallsFor
<1>8. Books' /\ InOrder' /\ CalledOnce'
  BY <1>2 DEF NetInv, Books, AddsUp, InOrder, NotYetOut, Dispatching, CalledOnce, netVars
<1>9. QED
  BY <1>4, <1>6, <1>7, <1>8 DEF NetInv

(* A message that arrives is younger than all others.                      *)
LEMMA ProcessMessageInv ==
    ASSUME NetInv, NEW o \in Opcodes, NEW size \in Sizes, ProcessMessage(o, size)
    PROVE  NetInv'
<1>1. /\ NetTypeOK /\ receiving = None /\ arrived \in 0 .. MaxArrivals
      /\ arrived < MaxArrivals /\ arrived' = arrived + 1
      /\ UNCHANGED <<regVars, pending, pendingBytes, update, delivered>>
      /\ arrived + 1 \in 1 .. MaxArrivals
  BY DEF ProcessMessage, NetInv, NetTypeOK
<1>2. \/ /\ receiving' = [id |-> arrived + 1, opcode |-> o, size |-> size]
         /\ due' = [due EXCEPT ![arrived + 1] = Registered(o)]
      \/ UNCHANGED <<receiving, due>>
  BY DEF ProcessMessage
<1>3. Registered(o) \subseteq HandlerCalls
  BY <1>1 DEF Registered, HandlerCalls, NetTypeOK, ToSet
<1>4. /\ receiving' \in Packets \cup {None}
      /\ receiving' # None => /\ receiving'.id = arrived + 1 /\ receiving'.opcode = o
                              /\ due'[receiving'.id] = Registered(o)
  BY <1>1, <1>2 DEF Packets, NetTypeOK
<1>5. /\ due' \in [1 .. MaxArrivals -> SUBSET HandlerCalls]
      /\ \A id \in 1 .. MaxArrivals : id <= arrived => due'[id] = due[id]
  <2>1. due \in [1 .. MaxArrivals -> SUBSET HandlerCalls] /\ arrived \in Int
    BY <1>1 DEF NetTypeOK
  <2>2. CASE due' = [due EXCEPT ![arrived + 1] = Registered(o)]
    <3>1. due' \in [1 .. MaxArrivals -> SUBSET HandlerCalls]
      BY <1>3, <2>1, <2>2
    <3>2. \A id \in 1 .. MaxArrivals : id <= arrived => id # arrived + 1
      BY <2>1
    <3>3. QED
      BY <2>1, <2>2, <3>1, <3>2
  <2>3. CASE due' = due
    BY <2>1, <2>3
  <2>4. QED
    BY <1>2, <2>2, <2>3
<1>6. NetTypeOK'
  BY <1>1, <1>4, <1>5 DEF NetTypeOK, regVars
<1>7. ObserversOnce' /\ Books' /\ CalledOnce'
  BY <1>1 DEF NetInv, ObserversOnce, Books, AddsUp, CalledOnce, regVars
<1>8. \A k \in DOMAIN pending : pending[k].id \in 1 .. MaxArrivals /\ pending[k].id <= arrived
  BY <1>1, NetTypes DEF NetInv, InOrder
<1>9. \A j \in DOMAIN delivered :
        delivered[j].id \in 1 .. MaxArrivals /\ delivered[j].id <= arrived
  BY <1>1, NetTypes DEF NetInv, InOrder, NotYetOut
<1>10. Dispatching => update.packet.id \in 1 .. MaxArrivals /\ update.packet.id <= arrived
  BY DEF NetInv, InOrder, NotYetOut, Packets
<1>11. InOrder'
  BY <1>1, <1>4, <1>8, <1>9, <1>10 DEF NetInv, InOrder, NotYetOut, Dispatching
<1>12. StillOwed'
  BY <1>1, <1>4, <1>5, <1>8, <1>10
     DEF NetInv, StillOwed, Dispatching, regVars, Registered, CallsFor
<1>13. QED
  BY <1>6, <1>7, <1>11, <1>12 DEF NetInv
(* The message goes behind all that wait, or is dropped.                   *)
LEMMA QueuePacketInv ==
    ASSUME NetInv, QueuePacket PROVE NetInv'
<1>1. /\ NetTypeOK /\ receiving # None /\ receiving' = None
      /\ UNCHANGED <<regVars, arrived, due, update, delivered>>
      /\ \/ /\ HasRoom(receiving.size) /\ pending' = Append(pending, receiving)
            /\ pendingBytes' = pendingBytes + receiving.size
         \/ UNCHANGED <<pending, pendingBytes>>
  BY DEF QueuePacket, Enqueue, NetInv
<1>2. ObserversOnce' /\ CalledOnce'
  BY <1>1 DEF NetInv, ObserversOnce, CalledOnce, regVars
<1>3. CASE UNCHANGED <<pending, pendingBytes>>
  <2>1. NetTypeOK'
    BY <1>1, <1>3 DEF NetTypeOK, regVars
  <2>2. Books' /\ InOrder' /\ StillOwed'
    BY <1>1, <1>3 DEF NetInv, Books, AddsUp, InOrder, NotYetOut, Dispatching,
                      StillOwed, Registered, CallsFor, regVars
  <2>3. QED
    BY <1>2, <2>1, <2>2 DEF NetInv
<1>4. CASE /\ HasRoom(receiving.size) /\ pending' = Append(pending, receiving)
           /\ pendingBytes' = pendingBytes + receiving.size
  <2> DEFINE n == Len(pending)
  <2>1. /\ receiving \in Packets /\ pending \in Seq(Packets) /\ receiving.size \in Nat
        /\ receiving.opcode \in Opcodes /\ pendingBytes \in Nat
        /\ \A k \in DOMAIN pending : pending[k].id \in Nat /\ pending[k].size \in Nat
        /\ receiving.id \in Nat
    BY <1>1, NetTypes DEF NetTypeOK
  <2>2. /\ pending' \in Seq(Packets) /\ Len(pending') = n + 1 /\ n \in Nat
        /\ DOMAIN pending = 1 .. n /\ DOMAIN pending' = 1 .. n + 1
        /\ \A k \in 1 .. n : pending'[k] = pending[k]
        /\ pending'[n + 1] = receiving
    BY <1>4, <2>1, AppendFacts
  <2>3. NetTypeOK'
    BY <1>1, <1>4, <2>1, <2>2 DEF NetTypeOK, regVars
  <2>4. InOrder'
    <3>1. \A k \in 1 .. n : pending[k].id < receiving.id
      BY <1>1, <2>2 DEF NetInv, InOrder
    <3>2. receiving.id = arrived
      BY <1>1 DEF NetInv, InOrder
    <3>3. ASSUME NEW k \in 1 .. n + 1, NEW l \in 1 .. n + 1, k < l
          PROVE  pending'[k].id < pending'[l].id
      <4>1. k \in 1 .. n
        BY <2>2, <3>3
      <4>2. CASE l \in 1 .. n
        BY <2>2, <3>3, <4>1, <4>2 DEF NetInv, InOrder
      <4>3. CASE l = n + 1
        BY <2>2, <3>1, <4>1, <4>3
      <4>4. QED
        BY <4>2, <4>3
    <3>4. \A k \in 1 .. n + 1 : pending'[k].id <= arrived
      BY <2>1, <2>2, <3>1, <3>2
    <3>5. ASSUME NEW id, NotYetOut(id)
          PROVE  id <= arrived /\ \A k \in 1 .. n + 1 : id < pending'[k].id
      BY <1>1, <2>2, <3>5 DEF NotYetOut
    <3>6. QED
      BY <1>1, <2>2, <3>3, <3>4, <3>5 DEF NetInv, InOrder, NotYetOut, Dispatching
  <2>5. StillOwed'
    BY <1>1, <2>2 DEF NetInv, StillOwed, Registered, CallsFor, regVars
  <2>6. Books'
    <3>1. PICK rest \in [1 .. n + 1 -> 0 .. Quota] :
            /\ AddsUp(rest) /\ rest[1] = pendingBytes
            /\ \A k, l \in 1 .. n + 1 : k <= l => rest[l] <= rest[k]
      BY DEF NetInv, Books
    <3> DEFINE more == [k \in 1 .. n + 2 |->
                          IF k = n + 2 THEN 0 ELSE rest[k] + receiving.size]
    <3>2. n < MaxPackets /\ receiving.size <= Quota - pendingBytes
      BY <1>4 DEF HasRoom
    <3>3. \A k \in 1 .. n + 1 : rest[k] \in Nat /\ rest[k] <= pendingBytes
      BY <2>1, <2>2, <3>1
    <3>4. more \in [1 .. n + 2 -> 0 .. Quota] /\ 1 \in 1 .. n + 1 /\ 1 # n + 2
      BY <2>1, <2>2, <3>2, <3>3
    <3>5. more[1] = pendingBytes + receiving.size
      BY <2>2, <3>1, <3>4
    <3>6. \A k, l \in 1 .. n + 2 : k <= l => more[l] <= more[k]
      BY <2>1, <2>2, <3>1, <3>3
    <3>7. \A k \in 1 .. n + 1 : more[k] = pending'[k].size + more[k + 1]
      <4>1. ASSUME NEW k \in 1 .. n PROVE more[k] = pending'[k].size + more[k + 1]
        <5>1. /\ k + 1 \in 1 .. n + 1 /\ k \in 1 .. n + 1 /\ k + 1 # n + 2 /\ k # n + 2
              /\ k \in 1 .. n + 2 /\ k + 1 \in 1 .. n + 2
          BY <2>2
        <5>2. rest[k] = pending[k].size + rest[k + 1] /\ pending[k].size \in Nat
          BY <2>1, <2>2, <3>1, <4>1 DEF AddsUp
        <5>3. QED
          BY <2>1, <2>2, <3>3, <4>1, <5>1, <5>2
      <4>2. more[n + 1] = receiving.size + more[n + 2]
        <5>1. rest[n + 1] = 0 /\ n + 1 \in 1 .. n + 2 /\ n + 2 \in 1 .. n + 2 /\ n + 1 # n + 2
          BY <2>2, <3>1 DEF AddsUp
        <5>2. QED
          BY <2>1, <5>1
      <4>3. \A k \in 1 .. n + 1 : k \in 1 .. n \/ k = n + 1
        BY <2>2
      <4> HIDE DEF more, n
      <4>4. (n + 1) + 1 = n + 2
        BY <2>2
      <4>5. QED
        BY <2>2, <4>1, <4>2, <4>3, <4>4
    <3>8. more[n + 2] = 0 /\ (n + 1) + 1 = n + 2
      BY <2>2
    <3> HIDE DEF more
    <3>10. Len(pending') <= MaxPackets
      BY <2>2, <3>2
    <3>11. \E r \in [1 .. Len(pending') + 1 -> 0 .. Quota] :
              /\ /\ r[Len(pending') + 1] = 0
                 /\ \A k \in DOMAIN pending' : r[k] = pending'[k].size + r[k + 1]
              /\ r[1] = pendingBytes'
              /\ \A k, l \in DOMAIN r : k <= l => r[l] <= r[k]
      <4>1. DOMAIN more = 1 .. n + 2
        BY <3>4
      <4>2. more \in [1 .. Len(pending') + 1 -> 0 .. Quota]
        BY <2>2, <3>4, <3>8
      <4>3. QED
        BY <1>4, <2>2, <3>5, <3>6, <3>7, <3>8, <4>1, <4>2
    <3>12. QED
      BY <3>10, <3>11 DEF Books, AddsUp
  <2>7. QED
    BY <1>2, <2>3, <2>4, <2>5, <2>6 DEF NetInv
<1>5. QED
  BY <1>1, <1>3, <1>4
(* An update begins, and may take packets.                                 *)
LEMMA NetUpdateInv ==
    ASSUME NetInv, NetUpdate PROVE NetInv'
<1>1. /\ NetTypeOK /\ UNCHANGED <<regVars, netVars, pending, pendingBytes, delivered>>
      /\ update.at = "asleep"
      /\ update' = [update EXCEPT !.at = "take", !.count = 0, !.bytes = 0]
  BY DEF NetUpdate, NetInv
<1>2. /\ update' \in [at : {"asleep", "take", "copy", "call"}, packet : Packets \cup {None},
                      calls : Seq(HandlerCalls), count : 0 .. MaxDispatch, bytes : Nat]
      /\ update'.at = "take" /\ update'.count = 0
  <2>1. update \in [at : {"asleep", "take", "copy", "call"}, packet : Packets \cup {None},
                    calls : Seq(HandlerCalls), count : 0 .. MaxDispatch, bytes : Nat]
    BY <1>1 DEF NetTypeOK
  <2>2. 0 \in 0 .. MaxDispatch
    OBVIOUS
  <2>3. QED
    BY <1>1, <2>1, <2>2
<1>3. NetTypeOK'
  BY <1>1, <1>2 DEF NetTypeOK, regVars, netVars
<1>4. ObserversOnce' /\ Books'
  BY <1>1 DEF NetInv, ObserversOnce, Books, AddsUp, regVars, netVars
<1>5. InOrder' /\ CalledOnce' /\ StillOwed'
  BY <1>1, <1>2 DEF NetInv, InOrder, NotYetOut, Dispatching, CalledOnce, StillOwed,
                    Registered, CallsFor, regVars, netVars
<1>6. QED
  BY <1>3, <1>4, <1>5 DEF NetInv

(* The head of the queue leaves it with its bytes.                         *)
LEMMA TakePendingInv ==
    ASSUME NetInv, TakePending PROVE NetInv'
<1>1. /\ NetTypeOK /\ UNCHANGED <<regVars, netVars, delivered>> /\ update.at = "take"
  BY DEF TakePending, NetInv
<1>2. ObserversOnce'
  BY <1>1 DEF NetInv, ObserversOnce, regVars
<1>3. CASE pending = << >> /\ update' = Asleep /\ UNCHANGED <<pending, pendingBytes>>
  <2>1. /\ update'.at = "asleep"
        /\ update' \in [at : {"asleep", "take", "copy", "call"}, packet : Packets \cup {None},
                         calls : Seq(HandlerCalls), count : 0 .. MaxDispatch, bytes : Nat]
    BY <1>3 DEF Asleep
  <2>2. NetTypeOK'
    BY <1>1, <1>3, <2>1 DEF NetTypeOK, regVars, netVars
  <2>3. Books'
    BY <1>3 DEF NetInv, Books, AddsUp
  <2>4. InOrder' /\ CalledOnce' /\ StillOwed'
    BY <1>1, <1>3, <2>1 DEF NetInv, InOrder, NotYetOut, Dispatching, CalledOnce, StillOwed,
                            Registered, CallsFor, regVars, netVars
  <2>5. QED
    BY <1>2, <2>2, <2>3, <2>4 DEF NetInv
<1>4. CASE /\ pending # << >> /\ pending' = Tail(pending)
           /\ pendingBytes' = BytesAfterTake(Head(pending).size)
           /\ update' = [update EXCEPT !.at = "copy", !.packet = Head(pending),
                                       !.count = @ + 1,
                                       !.bytes = @ + Head(pending).size]
  <2> DEFINE n == Len(pending)
  <2>1. /\ pending \in Seq(Packets) /\ n \in Nat /\ DOMAIN pending = 1 .. n
        /\ 1 \in 1 .. n /\ Head(pending) = pending[1] /\ Head(pending) \in Packets
        /\ \A k \in 1 .. n : pending[k].id \in Nat /\ pending[k].size \in Nat
        /\ pendingBytes \in Nat
    <3>1. pending \in Seq(Packets) /\ pending # << >>
      BY <1>1, <1>4 DEF NetTypeOK
    <3>2. n \in Nat /\ DOMAIN pending = 1 .. n /\ 1 \in 1 .. n /\ Head(pending) = pending[1]
      BY <3>1
    <3>3. QED
      BY <1>1, <3>1, <3>2, NetTypes
  <2>2. /\ pending' \in Seq(Packets) /\ Len(pending') = n - 1
        /\ DOMAIN pending' = 1 .. n - 1 /\ n - 1 \in Nat
        /\ \A k \in 1 .. n - 1 : k + 1 \in 1 .. n /\ pending'[k] = pending[k + 1]
    BY <1>4, <2>1
  <2>3. /\ update.count < MaxDispatch /\ update.count \in Nat /\ update.bytes \in Nat
        /\ update \in [at : {"asleep", "take", "copy", "call"}, packet : Packets \cup {None},
                       calls : Seq(HandlerCalls), count : 0 .. MaxDispatch, bytes : Nat]
    BY <1>1 DEF NetInv, InOrder, NetTypeOK
  <2>4. /\ update' \in [at : {"asleep", "take", "copy", "call"}, packet : Packets \cup {None},
                        calls : Seq(HandlerCalls), count : 0 .. MaxDispatch, bytes : Nat]
        /\ update'.at = "copy" /\ update'.packet = pending[1]
    <3>1. update.count + 1 \in 0 .. MaxDispatch /\ update.bytes + Head(pending).size \in Nat
      BY <2>1, <2>3
    <3>2. QED
      BY <1>4, <2>1, <2>3, <3>1
  <2>5. PICK rest \in [1 .. n + 1 -> 0 .. Quota] :
            /\ AddsUp(rest) /\ rest[1] = pendingBytes
            /\ \A k, l \in 1 .. n + 1 : k <= l => rest[l] <= rest[k]
    BY DEF NetInv, Books
  <2>6. /\ rest[1] = pending[1].size + rest[2] /\ rest[2] \in Nat /\ rest[2] <= Quota
        /\ pendingBytes' = rest[2] /\ pendingBytes' \in Nat
    <3>1. 2 \in 1 .. n + 1 /\ 1 \in DOMAIN pending /\ 1 + 1 = 2
      BY <2>1
    <3>2. rest[1] = pending[1].size + rest[2] /\ rest[2] \in 0 .. Quota
      BY <2>5, <3>1 DEF AddsUp
    <3>3. pending[1].size <= pendingBytes /\ pendingBytes - pending[1].size = rest[2]
      BY <2>1, <2>5, <3>2
    <3>4. QED
      BY <1>4, <2>1, <3>2, <3>3 DEF BytesAfterTake
  <2>7. NetTypeOK'
    BY <1>1, <2>2, <2>4, <2>6 DEF NetTypeOK, regVars, netVars
  <2>8. Books'
    <3> DEFINE less == [k \in 1 .. n |-> rest[k + 1]]
    <3>1. /\ less \in [1 .. n -> 0 .. Quota] /\ less[1] = pendingBytes' /\ DOMAIN less = 1 .. n
      <4>1. \A k \in 1 .. n : k + 1 \in 1 .. n + 1
        BY <2>1
      <4>2. QED
        BY <2>1, <2>5, <2>6, <4>1
    <3>2. ASSUME NEW k \in 1 .. n, NEW l \in 1 .. n, k <= l PROVE less[l] <= less[k]
      <4>1. k + 1 \in 1 .. n + 1 /\ l + 1 \in 1 .. n + 1 /\ k + 1 <= l + 1
        BY <2>1, <3>2
      <4>2. QED
        BY <2>5, <4>1
    <3>3. ASSUME NEW k \in 1 .. n - 1 PROVE less[k] = pending'[k].size + less[k + 1]
      <4>1. k + 1 \in 1 .. n /\ k \in 1 .. n /\ k + 1 \in DOMAIN pending
        BY <2>1, <2>2
      <4>2. rest[k + 1] = pending[k + 1].size + rest[(k + 1) + 1]
        BY <2>5, <4>1 DEF AddsUp
      <4>3. QED
        BY <2>2, <4>1, <4>2
    <3>4. less[n] = 0 /\ (n - 1) + 1 = n
      BY <2>1, <2>5 DEF AddsUp
    <3> HIDE DEF less
    <3>5. n <= MaxPackets
      BY DEF NetInv, Books
    <3>6. n - 1 <= MaxPackets
      BY <2>1, <3>5
    <3>7. QED
      BY <2>2, <3>1, <3>2, <3>3, <3>4, <3>6 DEF Books, AddsUp
  <2>9. InOrder'
    <3> DEFINE out(id) == /\ id <= arrived
                          /\ receiving # None => id < receiving.id
                          /\ \A k \in 1 .. n - 1 : id < pending'[k].id
    <3>1. ASSUME NEW k \in 1 .. n, NEW l \in 1 .. n, k < l
          PROVE  pending[k].id < pending[l].id
      BY <2>1, <3>1 DEF NetInv, InOrder
    <3>2. out(pending[1].id)
      <4>1. \A k \in 1 .. n - 1 : k + 1 \in 1 .. n /\ 1 < k + 1
        BY <2>1
      <4>2. \A k \in 1 .. n - 1 : pending[1].id < pending'[k].id
        BY <2>1, <2>2, <3>1, <4>1
      <4>3. QED
        BY <2>1, <4>2 DEF NetInv, InOrder
    <3>3. \A j \in DOMAIN delivered : out(delivered[j].id) /\ delivered[j].id < pending[1].id
      BY <2>1, <2>2 DEF NetInv, InOrder, NotYetOut
    <3>4. ASSUME NEW k \in 1 .. n - 1
          PROVE  /\ pending'[k].id <= arrived
                 /\ receiving # None => pending'[k].id < receiving.id
                 /\ \A l \in 1 .. n - 1 : k < l => pending'[k].id < pending'[l].id
      <4>1. k + 1 \in 1 .. n /\ pending'[k] = pending[k + 1]
        BY <2>2
      <4>2. \A l \in 1 .. n - 1 : k < l => /\ l + 1 \in 1 .. n /\ k + 1 < l + 1
                                            /\ pending'[l] = pending[l + 1]
        BY <2>1, <2>2
      <4>3. QED
        BY <2>1, <3>1, <4>1, <4>2 DEF NetInv, InOrder
    <3>5. receiving # None => receiving.id = arrived
      BY DEF NetInv, InOrder
    <3>6. pending[1] \in Packets
      BY <2>1
    <3>7. QED
      BY <1>1, <2>2, <2>4, <3>2, <3>3, <3>4, <3>5, <3>6
         DEF InOrder, NotYetOut, Dispatching, netVars
  <2>10. CalledOnce' /\ StillOwed'
    <3>1. CalledOnce'
      BY <1>1, <2>4 DEF NetInv, CalledOnce
    <3>2. \A k \in 1 .. n : due[pending[k].id] \subseteq Registered(pending[k].opcode)
      BY <2>1 DEF NetInv, StillOwed
    <3>3. \A k \in 1 .. n - 1 : due[pending'[k].id] \subseteq Registered(pending'[k].opcode)
      BY <2>2, <3>2
    <3>4. receiving # None => due[receiving.id] \subseteq Registered(receiving.opcode)
      BY DEF NetInv, StillOwed
    <3>5. due[pending[1].id] \subseteq Registered(pending[1].opcode)
      BY <2>1, <3>2
    <3>6. QED
      BY <1>1, <2>2, <2>4, <3>1, <3>3, <3>4, <3>5
         DEF StillOwed, Registered, regVars, netVars
  <2>11. QED
    BY <1>2, <2>7, <2>8, <2>9, <2>10 DEF NetInv
<1>5. QED
  BY <1>3, <1>4 DEF TakePending

LEMMA SequenceOf ==
    ASSUME NEW S, NEW n \in Nat, NEW f \in [1 .. n -> S]
    PROVE  f \in Seq(S) /\ Len(f) = n /\ DOMAIN f = 1 .. n
  OBVIOUS

LEMMA BehindTheFirst ==
    ASSUME NEW S, NEW e \in S, NEW t \in Seq(S), NEW r, r = << e >> \o t
    PROVE  /\ r \in Seq(S) /\ Len(r) = 1 + Len(t) /\ DOMAIN r = 1 .. 1 + Len(t)
           /\ r[1] = e /\ \A k \in 1 .. Len(t) : k + 1 \in DOMAIN r /\ r[k + 1] = t[k]
<1>1. << e >> \in Seq(S) /\ Len(<< e >>) = 1 /\ << e >>[1] = e /\ Len(t) \in Nat
  OBVIOUS
<1>2. /\ r \in Seq(S) /\ Len(r) = 1 + Len(t)
      /\ \A k \in 1 .. 1 + Len(t) :
            r[k] = IF k <= 1 THEN << e >>[k] ELSE t[k - 1]
  BY <1>1, ConcatProperties
<1>3. \A k \in 1 .. Len(t) : k + 1 \in 1 .. 1 + Len(t) /\ ~(k + 1 <= 1) /\ (k + 1) - 1 = k
  BY <1>1
<1>4. QED
  BY <1>1, <1>2, <1>3

(* Copied are exactly the registered handlers, each once.                  *)
LEMMA CopiedHandlers ==
    ASSUME NetTypeOK, ObserversOnce, NEW o \in Opcodes
    PROVE  /\ HandlersOf(o) \in Seq(HandlerCalls)
           /\ Registered(o) \subseteq ToSet(HandlersOf(o))
           /\ \A k, l \in DOMAIN HandlersOf(o) :
                 HandlersOf(o)[k] = HandlersOf(o)[l] => k = l
<1> DEFINE s == observers[o]
           calls == HandlersOf(o)
           obs == ObserverCalls(o)
<1>1. /\ s \in Seq(Features) /\ Len(s) \in Nat /\ DOMAIN s = 1 .. Len(s)
      /\ server[o] \in Features \cup {None}
      /\ \A k, l \in DOMAIN s : s[k] = s[l] => k = l
      /\ \A k \in DOMAIN s : s[k] \in Features
  BY DEF NetTypeOK, ObserversOnce
<1>2. /\ obs \in Seq(HandlerCalls) /\ Len(obs) = Len(s) /\ DOMAIN obs = 1 .. Len(s)
      /\ \A k \in 1 .. Len(s) : obs[k] = <<"observer", s[k]>>
  <2>1. \A k \in 1 .. Len(s) : <<"observer", s[k]>> \in HandlerCalls
    BY <1>1 DEF HandlerCalls
  <2>2. obs \in [1 .. Len(s) -> HandlerCalls]
    BY <2>1 DEF ObserverCalls
  <2>3. obs \in Seq(HandlerCalls) /\ Len(obs) = Len(s) /\ DOMAIN obs = 1 .. Len(s)
    BY <1>1, <2>2, SequenceOf
  <2>4. QED
    BY <2>3 DEF ObserverCalls
<1>3. CASE server[o] = None
  <2>1. calls = obs
    BY <1>3 DEF HandlersOf
  <2> HIDE DEF calls, obs, s
  <2>2. Registered(o) \subseteq ToSet(calls)
    BY <1>1, <1>2, <1>3, <2>1 DEF Registered, ToSet, s
  <2>3. ASSUME NEW k \in DOMAIN obs, NEW l \in DOMAIN obs, obs[k] = obs[l] PROVE k = l
    <3>1. s[k] = s[l]
      BY <1>2, <2>3
    <3>2. QED
      BY <1>1, <1>2, <3>1
  <2>4. QED
    BY <1>2, <2>1, <2>2, <2>3 DEF calls
<1>4. CASE server[o] # None
  <2> DEFINE e == <<"owner", server[o]>>
  <2>1. e \in HandlerCalls /\ calls = << e >> \o obs
    BY <1>1, <1>4 DEF HandlerCalls, HandlersOf
  <2> HIDE DEF e, obs, s, calls
  <2>2. obs \in Seq(HandlerCalls) /\ Len(obs) = Len(s)
    BY <1>2
  <2>9. /\ calls \in Seq(HandlerCalls) /\ Len(calls) = 1 + Len(obs)
        /\ DOMAIN calls = 1 .. 1 + Len(obs) /\ calls[1] = e
        /\ \A k \in 1 .. Len(obs) : k + 1 \in DOMAIN calls /\ calls[k + 1] = obs[k]
    BY <2>1, <2>2, BehindTheFirst
  <2>3. /\ calls \in Seq(HandlerCalls) /\ Len(calls) = 1 + Len(s)
        /\ DOMAIN calls = 1 .. 1 + Len(s)
        /\ calls[1] = <<"owner", server[o]>>
    BY <2>2, <2>9 DEF e
  <2>4. ASSUME NEW k \in 1 .. Len(s)
        PROVE  k + 1 \in DOMAIN calls /\ calls[k + 1] = <<"observer", s[k]>>
    BY <1>2, <2>2, <2>4, <2>9
  <2>5. \A k \in DOMAIN calls : k = 1 \/ (k - 1 \in 1 .. Len(s) /\ (k - 1) + 1 = k)
    BY <1>1, <2>3
  <2>6. Registered(o) \subseteq ToSet(calls)
    <3>1. 1 \in DOMAIN calls
      BY <1>1, <2>3
    <3>2. Registered(o) = {<<"owner", server[o]>>} \cup {<<"observer", f>> : f \in ToSet(s)}
      BY <1>4 DEF Registered, s
    <3>3. \A f \in ToSet(s) : <<"observer", f>> \in ToSet(calls)
      BY <1>1, <2>4 DEF ToSet
    <3>4. <<"owner", server[o]>> \in ToSet(calls)
      BY <2>3, <3>1 DEF ToSet
    <3>5. QED
      BY <3>2, <3>3, <3>4
  <2>7. ASSUME NEW k \in DOMAIN calls, NEW l \in DOMAIN calls, calls[k] = calls[l]
        PROVE  k = l
    <3>1. \A m \in DOMAIN calls : m = 1 \/ calls[m] = <<"observer", s[m - 1]>>
      BY <2>4, <2>5
    <3>2. \A m \in DOMAIN calls : m # 1 => calls[m] # calls[1]
      <4>1. \A x, y : <<"owner", x>> # <<"observer", y>>
        OBVIOUS
      <4>2. QED
        BY <2>3, <3>1, <4>1
    <3>3. CASE k = 1 \/ l = 1
      BY <2>7, <3>2, <3>3
    <3>4. CASE k # 1 /\ l # 1
      <4>1. s[k - 1] = s[l - 1]
        <5>1. <<"observer", s[k - 1]>> = <<"observer", s[l - 1]>>
          BY <2>7, <3>1, <3>4
        <5>2. QED
          BY <5>1
      <4>2. k - 1 = l - 1
        BY <1>1, <2>5, <3>4, <4>1
      <4>3. QED
        BY <2>5, <3>4, <4>2
    <3>5. QED
      BY <3>3, <3>4
  <2>8. QED
    BY <2>3, <2>6, <2>7 DEF calls
<1>5. QED
  BY <1>3, <1>4

LEMMA CopyHandlersInv ==
    ASSUME NetInv, CopyHandlers PROVE NetInv'
<1> DEFINE id == update.packet.id
           o == update.packet.opcode
           calls == HandlersOf(o)
<1>1. /\ NetTypeOK /\ UNCHANGED <<regVars, netVars, pending, pendingBytes, delivered>>
      /\ update.at = "copy" /\ update' = [update EXCEPT !.at = "call", !.calls = calls]
      /\ update \in [at : {"asleep", "take", "copy", "call"}, packet : Packets \cup {None},
                     calls : Seq(HandlerCalls), count : 0 .. MaxDispatch, bytes : Nat]
  BY DEF CopyHandlers, NetInv, NetTypeOK
<1>2. update.packet \in Packets /\ o \in Opcodes /\ id \in Nat
  BY <1>1 DEF NetInv, InOrder, Dispatching, Packets
<1>3. /\ calls \in Seq(HandlerCalls) /\ Registered(o) \subseteq ToSet(calls)
      /\ \A k, l \in DOMAIN calls : calls[k] = calls[l] => k = l
  BY <1>1, <1>2, CopiedHandlers DEF NetInv
<1> HIDE DEF calls
<1>4. /\ update' \in [at : {"asleep", "take", "copy", "call"}, packet : Packets \cup {None},
                      calls : Seq(HandlerCalls), count : 0 .. MaxDispatch, bytes : Nat]
      /\ update'.at = "call" /\ update'.packet = update.packet /\ update'.calls = calls
  BY <1>1, <1>3
<1>5. NetTypeOK'
  BY <1>1, <1>4 DEF NetTypeOK, regVars, netVars
<1>6. ObserversOnce' /\ Books'
  BY <1>1 DEF NetInv, ObserversOnce, Books, AddsUp, regVars
<1>7. \A j \in DOMAIN delivered : delivered[j].id \in Nat /\ delivered[j].id < id
  BY <1>1, NetTypes DEF NetInv, InOrder
<1>8. InOrder'
  BY <1>1, <1>2, <1>4, <1>7 DEF NetInv, InOrder, NotYetOut, Dispatching, netVars
<1>9. CalledOnce'
  <2>1. \A k \in DOMAIN calls : \A j \in DOMAIN delivered :
              delivered[j] # [id |-> id, call |-> calls[k]]
    BY <1>2, <1>7
  <2>2. QED
    BY <1>1, <1>3, <1>4, <2>1 DEF NetInv, CalledOnce
<1>10. StillOwed'
  <2>1. due[id] \subseteq ToSet(calls)
    BY <1>1, <1>3 DEF NetInv, StillOwed
  <2>2. QED
    BY <1>1, <1>4, <2>1 DEF NetInv, StillOwed, Registered, regVars, netVars
<1>11. QED
  BY <1>5, <1>6, <1>8, <1>9, <1>10 DEF NetInv

(* A handler runs, and throwing or not leaves the ones behind it to run.   *)
LEMMA RunHandlerInv ==
    ASSUME NetInv, RunHandler PROVE NetInv'
<1> DEFINE id == update.packet.id
           c == update.calls
           d == delivered
           e == [id |-> id, call |-> c[1]]
<1>1. /\ NetTypeOK /\ UNCHANGED <<regVars, netVars, pending, pendingBytes>>
      /\ update.at = "call" /\ c # << >> /\ update' = [update EXCEPT !.calls = Tail(c)]
      /\ update \in [at : {"asleep", "take", "copy", "call"}, packet : Packets \cup {None},
                     calls : Seq(HandlerCalls), count : 0 .. MaxDispatch, bytes : Nat]
      /\ d \in Seq([id : 1 .. MaxArrivals, call : HandlerCalls])
      /\ delivered' = Append(d, [id |-> id, call |-> Head(c)])
  BY DEF RunHandler, AfterCall, NetInv, NetTypeOK
<1>2. update.packet \in Packets /\ id \in 1 .. MaxArrivals /\ id \in Nat
  BY <1>1 DEF NetInv, InOrder, Dispatching, Packets
<1>3. /\ c \in Seq(HandlerCalls) /\ Len(c) \in Nat \ {0} /\ DOMAIN c = 1 .. Len(c)
      /\ Head(c) = c[1] /\ c[1] \in HandlerCalls
  BY <1>1
<1>4. /\ Tail(c) \in Seq(HandlerCalls) /\ DOMAIN Tail(c) = 1 .. Len(c) - 1
      /\ \A k \in 1 .. Len(c) - 1 : k + 1 \in 1 .. Len(c) /\ Tail(c)[k] = c[k + 1]
  BY <1>3
<1>5. e \in [id : 1 .. MaxArrivals, call : HandlerCalls]
  BY <1>2, <1>3
<1>6. /\ update' \in [at : {"asleep", "take", "copy", "call"}, packet : Packets \cup {None},
                      calls : Seq(HandlerCalls), count : 0 .. MaxDispatch, bytes : Nat]
      /\ update'.at = "call" /\ update'.packet = update.packet /\ update'.calls = Tail(c)
      /\ update'.count = update.count
  BY <1>1, <1>4
<1> HIDE DEF e, c, d
<1>7. /\ delivered' \in Seq([id : 1 .. MaxArrivals, call : HandlerCalls])
      /\ DOMAIN delivered' = 1 .. Len(d) + 1 /\ DOMAIN d = 1 .. Len(d) /\ Len(d) \in Nat
      /\ \A j \in 1 .. Len(d) : delivered'[j] = d[j]
      /\ delivered'[Len(d) + 1] = e
  <2>1. delivered' = Append(d, e)
    BY <1>1, <1>3 DEF e
  <2>2. QED
    BY <1>1, <1>5, <2>1, AppendFacts
<1>8. NetTypeOK'
  BY <1>1, <1>6, <1>7 DEF NetTypeOK, regVars, netVars
<1>9. ObserversOnce' /\ Books'
  BY <1>1 DEF NetInv, ObserversOnce, Books, AddsUp, regVars
<1>10. InOrder'
  <2>1. e.id = id /\ NotYetOut(id) /\ id <= id
    BY <1>1, <1>2 DEF NetInv, InOrder, Dispatching, e
  <2>2. \A j \in DOMAIN delivered' :
            NotYetOut(delivered'[j].id) /\ delivered'[j].id <= id
    BY <1>1, <1>7, <2>1 DEF NetInv, InOrder, d
  <2>3. QED
    BY <1>1, <1>2, <1>6, <2>1, <2>2 DEF NetInv, InOrder, NotYetOut, Dispatching, netVars
<1>11. CalledOnce'
  <2>1. \A j \in 1 .. Len(d) : d[j] # e
    <3>1. 1 \in DOMAIN c
      BY <1>3
    <3>2. \A k \in DOMAIN c : \A j \in DOMAIN d : d[j] # [id |-> id, call |-> c[k]]
      BY <1>1 DEF NetInv, CalledOnce, c, d
    <3>3. QED
      BY <1>7, <3>1, <3>2 DEF e
  <2>2. \A j, k \in DOMAIN delivered' : delivered'[j] = delivered'[k] => j = k
    BY <1>1, <1>7, <2>1 DEF NetInv, CalledOnce, d
  <2>3. ASSUME NEW k \in 1 .. Len(c) - 1
        PROVE  /\ \A l \in 1 .. Len(c) - 1 : Tail(c)[k] = Tail(c)[l] => k = l
               /\ \A j \in DOMAIN delivered' : delivered'[j] # [id |-> id, call |-> Tail(c)[k]]
    <3>1. \A x, y \in 1 .. Len(c) : c[x] = c[y] => x = y
      BY <1>1, <1>3 DEF NetInv, CalledOnce, c
    <3>2. \A l \in 1 .. Len(c) - 1 : Tail(c)[k] = Tail(c)[l] => k = l
      <4>1. \A l \in 1 .. Len(c) - 1 : Tail(c)[k] = Tail(c)[l] => k + 1 = l + 1
        BY <1>4, <3>1
      <4>2. QED
        BY <1>3, <4>1
    <3>3. \A j \in 1 .. Len(d) : d[j] # [id |-> id, call |-> c[k + 1]]
      BY <1>1, <1>3, <1>4, <1>7 DEF NetInv, CalledOnce, c, d
    <3>4. e # [id |-> id, call |-> c[k + 1]]
      <4>1. k + 1 # 1 /\ k + 1 \in 1 .. Len(c) /\ 1 \in 1 .. Len(c)
        BY <1>3
      <4>2. c[k + 1] # c[1]
        BY <3>1, <4>1
      <4>3. QED
        BY <4>2 DEF e
    <3>5. \A j \in DOMAIN delivered' : j = Len(d) + 1 \/ j \in 1 .. Len(d)
      BY <1>7
    <3>6. \A j \in DOMAIN delivered' : delivered'[j] # [id |-> id, call |-> c[k + 1]]
      BY <1>7, <3>3, <3>4, <3>5
    <3>7. Tail(c)[k] = c[k + 1]
      BY <1>4
    <3>8. QED
      BY <3>2, <3>6, <3>7
  <2>4. /\ \A k, l \in DOMAIN Tail(c) : Tail(c)[k] = Tail(c)[l] => k = l
        /\ \A k \in DOMAIN Tail(c) : \A j \in DOMAIN delivered' :
              delivered'[j] # [id |-> id, call |-> Tail(c)[k]]
    BY <1>4, <2>3
  <2>5. QED
    BY <1>6, <2>2, <2>4 DEF CalledOnce
<1>12. StillOwed'
  <2>1. due[id] \subseteq {d[j].call : j \in {j \in DOMAIN d : d[j].id = id}} \cup ToSet(c)
    BY <1>1 DEF NetInv, StillOwed, CallsFor, c, d
  <2>2. due[id] \subseteq {delivered'[j].call :
                            j \in {j \in DOMAIN delivered' : delivered'[j].id = id}}
                        \cup ToSet(Tail(c))
    <3> DEFINE sent == {delivered'[j].call : j \in {j \in DOMAIN delivered' : delivered'[j].id = id}}
    <3>1. \A j \in DOMAIN d : d[j].id = id => d[j].call \in sent
      BY <1>7
    <3>2. c[1] \in sent
      BY <1>7 DEF e
    <3>3. \A k \in 1 .. Len(c) : k # 1 => c[k] \in ToSet(Tail(c))
      <4>1. \A k \in 1 .. Len(c) : k # 1 => k - 1 \in 1 .. Len(c) - 1 /\ (k - 1) + 1 = k
        BY <1>3
      <4>2. QED
        BY <1>4, <4>1 DEF ToSet
    <3> HIDE DEF sent
    <3>4. ToSet(c) \subseteq sent \cup ToSet(Tail(c))
      BY <1>3, <3>2, <3>3 DEF ToSet
    <3>5. {d[j].call : j \in {j \in DOMAIN d : d[j].id = id}} \subseteq sent
      BY <3>1
    <3>6. QED
      BY <2>1, <3>4, <3>5 DEF sent
  <2>3. QED
    BY <1>1, <1>6, <2>2 DEF NetInv, StillOwed, Registered, CallsFor, regVars, netVars
<1>13. QED
  BY <1>8, <1>9, <1>10, <1>11, <1>12 DEF NetInv

LEMMA PacketDoneInv ==
    ASSUME NetInv, PacketDone PROVE NetInv'
<1>1. /\ NetTypeOK /\ UNCHANGED <<regVars, netVars, pending, pendingBytes, delivered>>
      /\ update \in [at : {"asleep", "take", "copy", "call"}, packet : Packets \cup {None},
                     calls : Seq(HandlerCalls), count : 0 .. MaxDispatch, bytes : Nat]
      /\ update' = IF Spent THEN Asleep ELSE [update EXCEPT !.at = "take", !.packet = None]
  BY DEF PacketDone, NetInv, NetTypeOK
<1>2. /\ update' \in [at : {"asleep", "take", "copy", "call"}, packet : Packets \cup {None},
                      calls : Seq(HandlerCalls), count : 0 .. MaxDispatch, bytes : Nat]
      /\ update'.at \in {"asleep", "take"}
      /\ update'.at = "take" => update'.count < MaxDispatch
  <2>1. CASE Spent
    <3>1. update' = Asleep /\ 0 \in 0 .. MaxDispatch
      BY <1>1, <2>1
    <3>2. QED
      BY <3>1 DEF Asleep
  <2>2. CASE ~Spent
    <3>1. update' = [update EXCEPT !.at = "take", !.packet = None]
      BY <1>1, <2>2
    <3>2. update.count # MaxDispatch /\ update.count \in 0 .. MaxDispatch
      BY <1>1, <2>2 DEF Spent
    <3>3. update.count < MaxDispatch
      BY <3>2
    <3>4. QED
      BY <1>1, <3>1, <3>3
  <2>3. QED
    BY <2>1, <2>2
<1>3. NetTypeOK'
  BY <1>1, <1>2 DEF NetTypeOK, regVars, netVars
<1>4. ObserversOnce' /\ Books'
  BY <1>1 DEF NetInv, ObserversOnce, Books, AddsUp, regVars
<1>5. InOrder' /\ CalledOnce' /\ StillOwed'
  BY <1>1, <1>2 DEF NetInv, InOrder, NotYetOut, Dispatching, CalledOnce, StillOwed,
                    Registered, CallsFor, regVars, netVars
<1>6. QED
  BY <1>3, <1>4, <1>5 DEF NetInv

LEMMA NetNextInv == NetInv /\ [NetNext]_netAll => NetInv'
<1> SUFFICES ASSUME NetInv, [NetNext]_netAll PROVE NetInv'
  OBVIOUS
<1>1. CASE UNCHANGED netAll
  <2>1. UNCHANGED <<server, observers, arrived, receiving, due, pending, pendingBytes,
                    update, delivered>>
    BY <1>1 DEF netAll, regVars, netVars
  <2>2. NetTypeOK' /\ ObserversOnce' /\ Books'
    BY <2>1 DEF NetInv, NetTypeOK, ObserversOnce, Books, AddsUp
  <2>3. InOrder' /\ CalledOnce' /\ StillOwed'
    BY <2>1 DEF NetInv, InOrder, NotYetOut, Dispatching, CalledOnce, StillOwed,
                Registered, CallsFor
  <2>4. QED
    BY <2>2, <2>3 DEF NetInv
<1>2. CASE NetNext
  BY <1>2, NetRegisterInv, ProcessMessageInv, QueuePacketInv, NetUpdateInv,
     TakePendingInv, CopyHandlersInv, RunHandlerInv, PacketDoneInv
     DEF NetNext, Receive, GameThread
<1>3. QED
  BY <1>1, <1>2

(* The queue keeps its bounds and its books; a packet that is done has been*)
(* handed to everybody registered when it was taken from the client, to    *)
(* nobody twice and to nobody before an older one.                         *)
THEOREM OwedIsDeliveredAlways == NetSpec => []OwedIsDelivered
<1>1. NetInv => OwedIsDelivered
  <2> SUFFICES ASSUME NetInv PROVE OwedIsDelivered
    OBVIOUS
  <2>1. QueueBounded
    <3>1. PICK rest \in [1 .. Len(pending) + 1 -> 0 .. Quota] :
              AddsUp(rest) /\ rest[1] = pendingBytes
      BY DEF NetInv, Books
    <3>2. rest[1] \in 0 .. Quota
      BY NetTypes DEF NetInv
    <3>3. QED
      BY <3>1, <3>2 DEF NetInv, Books, QueueBounded
  <2>2. ASSUME update.at = "call", update.calls = << >>
        PROVE  /\ due[update.packet.id] \subseteq CallsFor(update.packet.id)
               /\ \A k, l \in DOMAIN delivered :
                     /\ delivered[k].id <= update.packet.id
                     /\ k # l => delivered[k] # delivered[l]
    BY <2>2 DEF NetInv, StillOwed, CalledOnce, InOrder, ToSet
  <2>3. QED
    BY <2>1, <2>2 DEF OwedIsDelivered
<1>2. QED
  BY <1>1, NetInitInv, NetNextInv, PTL DEF NetSpec
=============================================================================
