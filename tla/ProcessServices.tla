--------------------------- MODULE ProcessServices ----------------------------
(***************************************************************************)
(* What every binary of the project shares: the knobs (common/Config.cpp), *)
(* the log (common/Log.cpp), the profiler of loads and frames              *)
(* (engine/diag/AssetProfile.cpp), and the d3d9.dll through which the      *)
(* runtime gets into the client (engine/gpu/Proxy.cpp), with a log of its  *)
(* own.  The text of a knob is what is read of it: its first character,    *)
(* the number it starts with and its length.                               *)
(***************************************************************************)
EXTENDS Integers, Sequences, FiniteSetsExt

CONSTANTS Writers,               \* threads that write lines
          FlushAt,               \* 64 in the code: lines the buffer may hold
          MaxLines, MaxSamples, MaxTime, \* bounds
          Environments, Files    \* bounds: the settings a process may start with

KnobNames == {"WXL_LOG_LEVEL", "WXL_LOG_FLUSH", "WXL_CLIENT_ASSET_PROFILE", "WXL_CLIENT_ASSET_PROFILE_INTERVAL_SEC"}

ASSUME ServicesAssumption ==
    /\ FlushAt \in Nat \ {0} /\ MaxTime \in Nat
    /\ \A env \in Environments, name \in KnobNames : env[name].number \in Int
    /\ \A file \in Files :
          /\ DOMAIN file.lines \subseteq Nat
          /\ \A i \in DOMAIN file.lines : file.lines[i].value.number \in Int

VARIABLES settings, \* [env, here, up]: the environment and the two places of the file
          level,    \* [min, resolved]
          writing,  \* per thread: where it is in a call, and the line's level
          logs,     \* of the runtime and of the proxy
          dropped,  \* levels of the lines a threshold kept out
          prof,     \* time, the window and what was reported of it
          samples,  \* all that was recorded
          proxy     \* [real, attempted, loads, served, refused]

serviceVars == <<settings, level, writing, logs, dropped, prof, samples, proxy>>

Debug == 1
Info == 2
Warn == 3
Off == 5

-----------------------------------------------------------------------------
(* Knobs.  The file in the working directory hides the one above it.       *)

Absent == [first |-> "", number |-> -1, length |-> 0]
CfgFile(name) ==
    LET lines == IF settings.here.there THEN settings.here.lines ELSE settings.up.lines
        entries == {i \in DOMAIN lines : lines[i].kind = "entry" /\ lines[i].key = name}
    IN  IF entries = {} THEN Absent ELSE lines[Min(entries)].value

Fits(value, capacity) == 0 < value.length /\ value.length < capacity
ReadEnv(name, capacity) ==
    LET env == settings.env[name] IN
    IF Fits(env, capacity) THEN env
    ELSE IF Fits(CfgFile(name), capacity) THEN CfgFile(name) ELSE Absent

Truthy(raw, fallback) == IF raw = Absent THEN fallback ELSE raw.first \notin {"0", "n", "f"}
Env(name, fallback) == Truthy(ReadEnv(name, 16), fallback)
Unclamped(n, low, high) == n
Clamped(n, low, high) == IF n < low THEN low ELSE IF n > high THEN high ELSE n
U32(name, fallback, low, high) ==
    LET read == ReadEnv(name, 32).number IN IF read < 0 THEN fallback ELSE Clamped(read, low, high)

-----------------------------------------------------------------------------
(* The log.                                                                *)

Digits == <<"0", "1", "2", "3", "4", "5">>
Letters == [t |-> 0, d |-> 1, i |-> 2, w |-> 3, e |-> 4, o |-> 5]
\* Only the first character counts: "25" is level 2.
LevelFromEnv ==
    LET raw == ReadEnv("WXL_LOG_LEVEL", 16)
        digits == {d \in DOMAIN Digits : Digits[d] = raw.first}
    IN  IF raw.first \in DOMAIN Letters THEN Letters[raw.first]
        ELSE IF digits # {} THEN Min(digits) - 1 ELSE Info
FlushEveryLine == Env("WXL_LOG_FLUSH", FALSE)

Closed == [open |-> FALSE, onDisk |-> 0, buffered |-> <<>>, pending |-> 0]
Opened(log, opens) == IF log.open THEN log ELSE [log EXCEPT !.open = opens]
Flushed(log) == [log EXCEPT !.onDisk = @ + Len(log.buffered), !.buffered = <<>>]
EmitOnlyFull(log, line) ==
    LET put == [log EXCEPT !.buffered = Append(@, line), !.pending = @ + 1] IN
    IF ~log.open THEN log
    ELSE IF FlushEveryLine \/ put.pending >= FlushAt THEN [Flushed(put) EXCEPT !.pending = 0]
    ELSE put
Emit(log, line) ==
    LET put == [log EXCEPT !.buffered = Append(@, line), !.pending = @ + 1] IN
    IF ~log.open THEN log
    ELSE IF FlushEveryLine \/ put.pending >= FlushAt \/ line >= Warn THEN [Flushed(put) EXCEPT !.pending = 0]
    ELSE put
\* A thread asks for the threshold, which the first ones find out together.
AskLevelMarking(w, line) ==
    /\ writing[w].at = "idle" /\ logs.runtime.onDisk + Len(logs.runtime.buffered) < MaxLines
    /\ writing' = [writing EXCEPT ![w] = [at |-> IF level.resolved THEN "resolved" ELSE "store", line |-> line]]
    /\ level' = [level EXCEPT !.resolved = TRUE] /\ UNCHANGED <<logs, dropped>>
AskLevel(w, line) ==
    /\ writing[w].at = "idle" /\ logs.runtime.onDisk + Len(logs.runtime.buffered) < MaxLines
    /\ writing' = [writing EXCEPT ![w] = [at |-> IF level.resolved THEN "resolved" ELSE "store", line |-> line]]
    /\ UNCHANGED <<level, logs, dropped>>
StoreLevel(w) ==
    /\ writing[w].at = "store"
    /\ writing' = [writing EXCEPT ![w].at = "mark"] /\ level' = [level EXCEPT !.min = LevelFromEnv]
    /\ UNCHANGED <<logs, dropped>>
MarkResolved(w) ==
    /\ writing[w].at = "mark"
    /\ writing' = [writing EXCEPT ![w].at = "resolved"] /\ level' = [level EXCEPT !.resolved = TRUE]
    /\ UNCHANGED <<logs, dropped>>
WriteLine(w) ==
    LET line == writing[w].line IN
    /\ writing[w].at = "resolved" /\ writing' = [writing EXCEPT ![w].at = "idle"]
    /\ IF line >= level.min
       THEN logs' = [logs EXCEPT !.runtime = Emit(@, line)] /\ UNCHANGED dropped
       ELSE dropped' = dropped \cup {line} /\ UNCHANGED logs
    /\ UNCHANGED level
OpenLog(opens) == logs' = [logs EXCEPT !.runtime = Opened(@, opens)] /\ UNCHANGED <<level, writing, dropped>>

-----------------------------------------------------------------------------
(* The profiler.  Loads are recorded by any thread, frames by one; a tick  *)
(* is a second, a frame is told by the marks of 25, 50 and 100 ms it       *)
(* passes.                                                                 *)

Phases == {"request", "upload"}
Nothing == [calls |-> [p \in Phases |-> 0], slow |-> [p \in Phases |-> 0], frames |-> 0, hitches |-> [n \in 1..3 |-> 0]]
WithLoad(window, phase, isSlow) ==
    [window EXCEPT !.calls[phase] = @ + 1, !.slow[phase] = @ + (IF isSlow THEN 1 ELSE 0)]
WithFrame(window, passed) ==
    [window EXCEPT !.frames = @ + 1, !.hitches = [n \in 1..3 |-> @[n] + (IF n <= passed THEN 1 ELSE 0)]]
Together(a, b) ==
    [calls |-> [p \in Phases |-> a.calls[p] + b.calls[p]], slow |-> [p \in Phases |-> a.slow[p] + b.slow[p]],
     frames |-> a.frames + b.frames, hitches |-> [n \in 1..3 |-> a.hitches[n] + b.hitches[n]]]

Profiling == Env("WXL_CLIENT_ASSET_PROFILE", TRUE)
Interval == U32("WXL_CLIENT_ASSET_PROFILE_INTERVAL_SEC", 30, 5, 600)
Room == samples.frames + samples.calls["request"] + samples.calls["upload"] < MaxSamples

Record(phase, isSlow) ==
    IF Profiling /\ Room
    THEN prof' = [prof EXCEPT !.window = WithLoad(@, phase, isSlow)] /\ samples' = WithLoad(samples, phase, isSlow)
    ELSE UNCHANGED <<prof, samples>> \* switched off, or at the bound
ReportedKept(window, started, now) ==
    [prof EXCEPT !.now = now, !.window = window, !.started = now, !.next = now + Interval,
                 !.reported = Together(@, window), !.shortest = IF now - started < @ THEN now - started ELSE @]
Reported(window, started, now) ==
    [prof EXCEPT !.now = now, !.window = Nothing, !.started = now, !.next = now + Interval,
                 !.reported = Together(@, window), !.shortest = IF now - started < @ THEN now - started ELSE @]
RecordFrame(seconds, passed) ==
    LET now == prof.now + seconds
        first == prof.started = 0
        started == IF first THEN now ELSE prof.started
        next == IF first THEN now + Interval ELSE prof.next
        window == WithFrame(prof.window, passed)
    IN  /\ Profiling /\ Room /\ now <= MaxTime
        /\ samples' = WithFrame(samples, passed)
        /\ prof' = IF now >= next THEN Reported(window, started, now)
                   ELSE [prof EXCEPT !.now = now, !.started = started, !.next = next, !.window = window]

-----------------------------------------------------------------------------
(* The proxy.  A library is the set of entry points it has, none where it  *)
(* cannot be loaded.                                                       *)

Entries == {"9", "9Ex"}
SayUnflushed(log, opens) ==
    LET to == Opened(log, opens) IN IF Info >= LevelFromEnv THEN Emit(to, Info) ELSE to
Say(log, opens) ==
    LET to == Opened(log, opens) IN IF Info >= LevelFromEnv THEN Flushed(Emit(to, Info)) ELSE to
EnsureRealAgain(library) == library
EnsureReal(library) == IF proxy.real # {} THEN proxy.real ELSE library
Direct3DCreate(entry, library, runtime, opens) ==
    LET real == EnsureReal(library)
        told == IF proxy.real # {} THEN logs.proxy ELSE Say(logs.proxy, opens)
    IN  /\ library = {} => logs.proxy.onDisk + Len(logs.proxy.buffered) < MaxLines
        /\ proxy' = [real |-> real, attempted |-> TRUE,
                     loads |-> proxy.loads + (IF ~proxy.attempted /\ runtime THEN 1 ELSE 0),
                     served |-> IF entry \in real THEN proxy.served \cup {entry} ELSE proxy.served,
                     refused |-> entry \notin real /\ entry \in proxy.served]
        /\ logs' = [logs EXCEPT !.proxy = IF proxy.attempted \/ runtime THEN told ELSE Say(told, opens)]

-----------------------------------------------------------------------------

ServicesInit ==
    /\ settings \in [env : Environments, here : Files, up : Files]
    /\ level = [min |-> Info, resolved |-> FALSE]
    /\ writing = [w \in Writers |-> [at |-> "idle", line |-> Off]]
    /\ logs = [runtime |-> Closed, proxy |-> Closed]
    /\ dropped = {}
    /\ prof = [now |-> 1, started |-> 0, next |-> 0, window |-> Nothing, reported |-> Nothing, shortest |-> 600]
    /\ samples = Nothing
    /\ proxy = [real |-> {}, attempted |-> FALSE, loads |-> 0, served |-> {}, refused |-> FALSE]

Writes ==
    \/ \E w \in Writers, line \in {Debug, Info, Warn} : AskLevel(w, line)
    \/ \E w \in Writers : StoreLevel(w) \/ MarkResolved(w) \/ WriteLine(w)
    \/ \E opens \in BOOLEAN : OpenLog(opens)
Profiles ==
    \/ \E phase \in Phases, isSlow \in BOOLEAN : Record(phase, isSlow)
    \/ \E seconds \in {0, 4, 5}, passed \in 0..3 : RecordFrame(seconds, passed)
Creates ==
    \E entry \in Entries, library \in SUBSET Entries, runtime, opens \in BOOLEAN :
        Direct3DCreate(entry, library, runtime, opens)

LinesNext == Writes /\ UNCHANGED <<settings, prof, samples, proxy>>
WindowsNext == Profiles /\ UNCHANGED <<settings, level, writing, logs, dropped, proxy>>
FactoriesNext == Creates /\ UNCHANGED <<settings, level, writing, dropped, prof, samples>>
\* The three share nothing but the knobs, which never change.
ServicesNext == LinesNext \/ WindowsNext \/ FactoriesNext
ServicesSpec == ServicesInit /\ [][ServicesNext]_serviceVars

(* However the process ends, the log on disk ends before no warning and    *)
(* lacks fewer lines than the buffer takes, the proxy's lacks none; no     *)
(* thread drops a line at the default threshold that the user's would have *)
(* let pass, which finding it out twice could do; each load and frame is   *)
(* in exactly one window, and no window is shorter than the shortest       *)
(* interval a setting can ask for; the runtime is loaded once, and an      *)
(* entry point that once made a factory makes one again.                   *)
ProcessServes ==
    /\ \A k \in DOMAIN logs.runtime.buffered : logs.runtime.buffered[k] < Warn
    /\ Len(logs.runtime.buffered) < FlushAt /\ logs.proxy.buffered = <<>>
    /\ \A line \in dropped : line < LevelFromEnv
    /\ Together(prof.reported, prof.window) = samples
    /\ prof.shortest >= 5
    /\ proxy.loads <= 1 /\ ~proxy.refused
==============================================================================
