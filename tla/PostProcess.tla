----------------------------- MODULE PostProcess -----------------------------
(***************************************************************************)
(* The post-process pipeline of wxl-modern-render: gpu/Pipeline.cpp, the   *)
(* command list and fence of gpu/Framework.cpp, the targets and passes of  *)
(* its effects, the module that runs it once per frame.                    *)
(*                                                                         *)
(* A frame borrows the client's surfaces, records one command list, hands  *)
(* the surfaces back with a fence and goes on while the GPU works.  A      *)
(* picture is the sequence of the passes it went through; "old" is any     *)
(* picture of another frame.  Recording errors are noted in wrong, objects *)
(* freed or reused under the GPU in raced.                                 *)
(***************************************************************************)
EXTENDS Naturals, Sequences, FiniteSets

CONSTANTS
    Descs,      \* the backbuffers a reset can choose: [size, fmt, samples]
    MaxResets,  \* bound: resets of the device
    MaxFailures,\* bound: creations that fail
    NoFormat    \* no format

ASSUME PostAssumption ==
    /\ \A d \in Descs : d.samples \in Nat \ {0} /\ d.fmt # NoFormat
    /\ MaxResets \in Nat /\ MaxFailures \in Nat

(* The effects and their places in the chain.                              *)
Chain == [Ao |-> 1, Fxaa |-> 2, Smaa |-> 3, Cmaa2 |-> 4]
Effects == DOMAIN Chain
AntiAliasing == {"Fxaa", "Smaa", "Cmaa2"}
Borrowed == {"bb", "ss", "depth"}
Targets == [scene |-> {"scene0", "scene1"}, resolve |-> {"resolve"}, Ao |-> {"ao", "aoB"},
            Smaa |-> {"edges", "blend"}, Cmaa2 |-> {"color", "control", "indirect"}]
Groups == DOMAIN Targets
Owned == UNION {Targets[g] : g \in Groups}
Resources == Owned \cup Borrowed
Scene(i) == IF i = 0 THEN "scene0" ELSE "scene1"

VARIABLES
    bb,         \* the backbuffer of the device
    resets, failures,
    effects,    \* m_effects: those that did not fail their Init
    enabled,    \* the effects switched on in the panel
    needsDepth, \* needDepth of the last frame: the core binds a depth for the next
    gpuReady,   \* m_gpuReady
    initFmt,    \* the format m_init was done for
    blitBB,     \* the format and samples m_blitPsoBB is for
    owned,      \* the targets that exist
    madeFor,    \* the size and format each group of targets was last made for
    state,      \* the state each resource is really in, at this point of the list
    sceneState, \* m_sceneState
    lent,       \* surfaces unwrapped and not returned
    flight,     \* what the last submission uses, until the GPU is done with it
    pic,        \* the picture in each resource
    step, frame,\* where OnWorldRenderEnd is; its locals
    wrong, raced

postVars == <<bb, resets, failures, effects, enabled, needsDepth, gpuReady, initFmt, blitBB, owned, madeFor, state,
          sceneState, lent, flight, pic, step, frame, wrong, raced>>
device == <<bb, resets, enabled, needsDepth>>
recorded == <<state, sceneState, pic, wrong>>

NoFrame == [ss |-> FALSE, depth |-> FALSE, resolve |-> FALSE, src |-> "bb", cur |-> 2, todo |-> {},
            starved |-> FALSE, out |-> "none"]
HasEnabledEffect == enabled \cap effects # {}

PostInit ==
    /\ bb \in Descs /\ resets = 0 /\ failures = 0
    /\ effects = Effects /\ enabled = {} /\ needsDepth = FALSE /\ gpuReady = FALSE
    /\ initFmt = NoFormat /\ blitBB = NoFormat
    /\ owned = {} /\ madeFor = [g \in Groups |-> NoFormat]
    /\ state = [r \in Resources |-> IF r \in Borrowed THEN "COMMON" ELSE "gone"]
    /\ sceneState = [i \in 0..1 |-> "COMMON"]
    /\ lent = {} /\ flight = {} /\ pic = [r \in Resources |-> <<"old">>]
    /\ step = "idle" /\ frame = NoFrame /\ wrong = {} /\ raced = {}

-----------------------------------------------------------------------------
(* The framework: barriers, targets, the fence.                            *)

(* A list has for each resource its barriers in order; each of them names  *)
(* the state it believes the resource is in and the one it brings it to.   *)
Reached(st, list) ==
    [r \in Resources |-> IF st[r] = "gone" \/ list[r] = <<>> THEN st[r] ELSE list[r][Len(list[r])][2]]
Mistaken(st, list) ==
    {r \in Resources : \E n \in DOMAIN list[r] :
        list[r][n][1] # IF n = 1 \/ st[r] = "gone" THEN st[r] ELSE list[r][n - 1][2]}
Barriers(st, list) ==
    /\ state' = Reached(st, list)
    /\ wrong' = wrong \cup Mistaken(st, list)

(* Releases what is left of a group and makes it anew; some of it may fail.*)
CreateTargets(g, key, failing, busy) ==
    /\ Cardinality(failing) + failures <= MaxFailures
    /\ failures' = failures + Cardinality(failing)
    /\ raced' = raced \cup (owned \cap Targets[g] \cap busy)
    /\ owned' = (owned \ Targets[g]) \cup (Targets[g] \ failing)
    /\ madeFor' = [madeFor EXCEPT ![g] = key]

WaitForGpu(needed) == IF needed THEN {} ELSE flight

MayFail == failures < MaxFailures /\ failures' = failures + 1

(* Hands back what was borrowed, without a fence.                          *)
Abort(f) ==
    /\ lent' = {}
    /\ step' = "present"
    /\ frame' = [f EXCEPT !.out = "aborted"]

Key == [size |-> bb.size, fmt |-> bb.fmt]

-----------------------------------------------------------------------------
(* One frame, at the boundary between the world and the UI.                *)

(* The client draws the world, into the supersample surface if one is      *)
(* armed; a multisampled world has no depth to read.  Depth is there for   *)
(* the frame after one that asked for it, whether an effect still wants it *)
(* or not, and not yet for the one that first asks.                        *)
NeedsDepth == {"Ao"}
OnWorldRenderEnd(ss, depth) ==
    /\ step = "idle"
    /\ depth => needsDepth /\ (bb.samples = 1 \/ ss)
    /\ needsDepth' = (enabled \cap effects \cap NeedsDepth # {})
    /\ pic' = [pic EXCEPT ![IF ss THEN "ss" ELSE "bb"] = <<"world">>]
    /\ IF ss \/ HasEnabledEffect
       THEN step' = "unwrap" /\ frame' = [NoFrame EXCEPT !.ss = ss, !.depth = depth]
       ELSE step' = "present" /\ frame' = [NoFrame EXCEPT !.out = "skipped"]
    /\ UNCHANGED <<bb, resets, enabled, failures, effects, gpuReady, initFmt, blitBB, owned, madeFor, state,
                   sceneState, lent, flight, wrong, raced>>

(* The framework comes up with the first frame that needs it; everything   *)
(* it makes may fail.                                                      *)
InitGpu == IF gpuReady THEN {TRUE} ELSE BOOLEAN

(* The framework, then the backbuffer and the supersample surface.         *)
Unwrap ==
    /\ step = "unwrap"
    /\ \/ /\ gpuReady' = TRUE
          /\ \/ /\ lent' = IF frame.ss THEN {"bb", "ss"} ELSE {"bb"}
                /\ frame' = [frame EXCEPT !.src = IF frame.ss THEN "ss" ELSE "bb"]
                /\ UNCHANGED failures
             \/ /\ frame.ss /\ MayFail
                /\ lent' = {"bb"} /\ UNCHANGED frame
          /\ step' = "init"
       \/ /\ MayFail
          /\ gpuReady' \in InitGpu
          /\ step' = "present" /\ frame' = [frame EXCEPT !.out = "aborted"]
          /\ UNCHANGED lent
    /\ UNCHANGED <<device, effects, initFmt, blitBB, owned, madeFor, recorded, flight, raced>>

(* What the Init of an effect makes, for targets of a format: the tables   *)
(* it uploads through the frame's own list, and its drawing passes, each   *)
(* for one format of the target it draws into.  Compute passes have none.  *)
Packed == "packed"
AoInit(fmt) == [tables |-> {}, passes |-> << <<"scene", fmt>> >>]
FxaaInit(fmt) == [tables |-> {}, passes |-> << <<"scene", fmt>> >>]
SmaaSceneOnly(fmt) ==
    [tables |-> {"area", "search"}, passes |-> << <<"edges", fmt>>, <<"blend", Packed>>, <<"scene", fmt>> >>]
SmaaInit(fmt) ==
    [tables |-> {"area", "search"}, passes |-> << <<"edges", Packed>>, <<"blend", Packed>>, <<"scene", fmt>> >>]
Cmaa2Init(fmt) == [tables |-> {}, passes |-> << <<"color", Packed>>, <<"scene", fmt>> >>]
EffectInit(e, fmt) == CASE e = "Ao" -> AoInit(fmt) [] e = "Fxaa" -> FxaaInit(fmt)
                        [] e = "Smaa" -> SmaaInit(fmt) [] e = "Cmaa2" -> Cmaa2Init(fmt)
UploadRaces == IF flight # {} /\ \E e \in effects : EffectInit(e, bb.fmt).tables # {} THEN {"allocator"} ELSE {}

(* An effect whose Init fails is dropped for good; a failed fill pass is   *)
(* tried again in the next frame, after the Inits of all effects.          *)
EnsureInit ==
    /\ step = "init"
    /\ IF initFmt # NoFormat THEN step' = "targets" /\ UNCHANGED <<effects, initFmt, failures, raced, lent, frame>> ELSE
       /\ raced' = raced \cup UploadRaces
       /\ \E dropped \in SUBSET effects, fill \in BOOLEAN :
            LET n == Cardinality(dropped) + (IF fill THEN 0 ELSE 1) IN
            /\ failures + n <= MaxFailures /\ failures' = failures + n
            /\ effects' = effects \ dropped
            /\ IF fill THEN /\ initFmt' = bb.fmt /\ step' = "targets"
                            /\ UNCHANGED <<lent, frame>>
                       ELSE UNCHANGED initFmt /\ Abort(frame)
    /\ UNCHANGED <<device, gpuReady, blitBB, owned, madeFor, recorded, flight>>

(* The early return looks at the first target only.                        *)
SceneFits == "scene0" \in owned /\ madeFor.scene = Key
CreateScene(failing) ==
    LET busy == WaitForGpu("scene0" \in owned)
    IN  CreateTargets("scene", Key, failing, busy) /\ flight' = busy

EnsureTargets ==
    /\ step = "targets"
    /\ \E failing \in SUBSET Targets.scene :
         /\ IF SceneFits
            THEN failing = {} /\ UNCHANGED <<failures, owned, madeFor, flight, raced, state, sceneState, pic>>
            ELSE /\ CreateScene(failing)
                 /\ sceneState' = [i \in 0..1 |-> "COMMON"]
                 /\ state' = [r \in Resources |-> IF r \notin Targets.scene THEN state[r]
                                                     ELSE IF r \in owned' THEN "COMMON" ELSE "gone"]
                 /\ pic' = [r \in Resources |-> IF r \in Targets.scene THEN <<"old">> ELSE pic[r]]
         /\ IF Targets.scene \subseteq owned'
            THEN step' = "blit" /\ UNCHANGED <<lent, frame>> ELSE Abort(frame)
    /\ UNCHANGED <<device, effects, gpuReady, initFmt, blitBB, wrong>>

EnsureBlitBB ==
    /\ step = "blit"
    /\ LET want == [fmt |-> bb.fmt, samples |-> bb.samples] IN
       IF blitBB = want
       THEN step' = "resolve" /\ UNCHANGED <<failures, blitBB, lent, flight, frame>>
       ELSE /\ flight' = WaitForGpu(blitBB # NoFormat)
            /\ \/ blitBB' = want /\ step' = "resolve" /\ UNCHANGED <<failures, lent, frame>>
               \/ MayFail /\ blitBB' = NoFormat /\ Abort(frame)
    /\ UNCHANGED <<device, effects, gpuReady, initFmt, owned, madeFor, recorded, raced>>

(* Only a multisampled world that is not in the supersample surface.       *)
EnsureMsaaResolve ==
    /\ step = "resolve"
    /\ LET resolve == bb.samples > 1 /\ "ss" \notin lent
           busy == WaitForGpu("resolve" \in owned) IN
       IF ~resolve \/ ("resolve" \in owned /\ madeFor.resolve = Key)
       THEN /\ step' = "record"
            /\ frame' = IF resolve THEN [frame EXCEPT !.resolve = TRUE, !.src = "resolve"] ELSE frame
            /\ UNCHANGED <<failures, owned, madeFor, state, lent, flight, raced>>
       ELSE \E failing \in SUBSET {"resolve"} :
            /\ CreateTargets("resolve", Key, failing, busy) /\ flight' = busy
            /\ state' = [state EXCEPT !["resolve"] = IF failing = {} THEN "COMMON" ELSE "gone"]
            /\ IF failing # {} THEN Abort(frame) ELSE
               /\ frame' = [frame EXCEPT !.resolve = TRUE, !.src = "resolve"]
               /\ step' = "record" /\ UNCHANGED lent
    /\ UNCHANGED <<device, effects, gpuReady, initFmt, blitBB, sceneState, pic, wrong>>

(* The list and its allocator are used again.                              *)
BeginFrame == flight' = {} /\ UNCHANGED raced

(* What draws with passes made for some formats leave behind: the scene's  *)
(* targets have the backbuffer's format, those of the effects their own.   *)
FormatOf(target) == IF target = "scene" THEN bb.fmt ELSE Packed
Drawn(passes, picture) ==
    IF \A k \in DOMAIN passes : passes[k][2] = FormatOf(passes[k][1]) THEN picture ELSE <<"undefined">>
Draw(fmt, picture) == Drawn(<< <<"scene", fmt>> >>, picture)
(* What a shader reads: a multisampled surface cannot be sampled.          *)
Sampled(r) == IF r = "bb" /\ bb.samples > 1 THEN <<"undefined">> ELSE pic[r]
SceneTo(i, s) == IF sceneState[i] = s THEN <<>> ELSE << <<sceneState[i], s>> >>

(* Resolves the multisampled world, borrows the depth, and copies the      *)
(* input into the first target unless it is the backbuffer itself.         *)
ResolveBarriers(r) ==
    CASE ~frame.resolve -> <<>>
      [] frame.resolve /\ r = "bb" -> << <<"COMMON", "RESOLVE_SOURCE">>, <<"RESOLVE_SOURCE", "COMMON">> >>
      [] frame.resolve /\ r = "resolve" -> << <<"COMMON", "RESOLVE_DEST">>, <<"RESOLVE_DEST", "COMMON">> >>
      [] OTHER -> <<>>
InputBarriers(depth, r) ==
    CASE r = frame.src -> << <<"COMMON", "PSR">> >>
      [] r = "depth" /\ depth -> << <<"COMMON", "SRV">> >>
      [] r = "scene0" /\ frame.src # "bb" -> SceneTo(0, "RT")
      [] OTHER -> <<>>
Record ==
    /\ step = "record"
    /\ BeginFrame
    /\ \E depth \in IF frame.depth THEN BOOLEAN ELSE {FALSE} :
       LET src == frame.src
           fill == src # "bb"
           read == IF frame.resolve THEN pic["bb"] ELSE Sampled(src)
       IN  /\ Barriers(state, [r \in Resources |-> ResolveBarriers(r) \o InputBarriers(depth, r)])
           /\ lent' = IF depth THEN lent \cup {"depth"} ELSE lent
           /\ sceneState' = IF fill THEN [sceneState EXCEPT ![0] = "RT"] ELSE sceneState
           /\ pic' = IF fill THEN [pic EXCEPT !["scene0"] = Draw(initFmt, read), ![src] = read] ELSE pic
           /\ frame' = [frame EXCEPT !.cur = IF fill THEN 0 ELSE 2, !.depth = depth,
                                     !.todo = enabled \cap effects]
    /\ step' = "chain"
    /\ UNCHANGED <<device, failures, effects, gpuReady, initFmt, blitBB, owned, madeFor>>

(* The targets of an effect, the barriers on them, whether it draws at all.*)
SmaaTargetsFit == "edges" \in owned /\ madeFor.Smaa = bb.size
Cmaa2TargetsFit == "color" \in owned /\ madeFor.Cmaa2 = bb.size
AoTargetsFit == "ao" \in owned /\ madeFor.Ao = bb.size

Fxaa(r) == <<>>
Smaa(r) ==
    IF r \in Targets.Smaa THEN << <<"COMMON", "RT">>, <<"RT", "PSR">>, <<"PSR", "COMMON">> >> ELSE <<>>
Cmaa2(r) ==
    CASE r = "color" -> << <<"COMMON", "RT">>, <<"RT", "NPSR">>, <<"NPSR", "UAV">>, <<"UAV", "PSR">>,
                           <<"PSR", "COMMON">> >>
      [] r = "indirect" -> << <<"UAV", "INDIRECT">>, <<"INDIRECT", "UAV">>, <<"UAV", "INDIRECT">>,
                              <<"INDIRECT", "UAV">> >>
      [] OTHER -> <<>>
Ao(r) ==
    CASE r = "ao" /\ frame.depth -> << <<"COMMON", "UAV">>, <<"UAV", "NPSR">>, <<"NPSR", "COMMON">> >>
      [] r = "aoB" /\ frame.depth -> << <<"COMMON", "UAV">>, <<"UAV", "PSR">>, <<"PSR", "COMMON">> >>
      [] OTHER -> <<>>
Pass(e, r) == CASE e = "Ao" -> Ao(r) [] e = "Fxaa" -> Fxaa(r) [] e = "Smaa" -> Smaa(r) [] e = "Cmaa2" -> Cmaa2(r)
Draws(e, have) == e \in {"Smaa", "Cmaa2"} => Targets[e] \subseteq have
Fits(e) == CASE e = "Ao" -> AoTargetsFit \/ ~frame.depth [] e = "Fxaa" -> TRUE
             [] e = "Smaa" -> SmaaTargetsFit [] e = "Cmaa2" -> Cmaa2TargetsFit
(* A fresh control buffer is zeroed before its first use.                  *)
FreshState(r) == IF r \in {"control", "indirect"} THEN "UAV" ELSE "COMMON"

(* Each enabled effect reads the current picture and draws into the other  *)
(* target; one without targets of its own returns without drawing.         *)
NextTarget(cur) == IF cur = 2 THEN 0 ELSE 1 - cur
ChainSrcInput(cur) == frame.src
ChainSrc(cur) == IF cur = 2 THEN "bb" ELSE Scene(cur)
EffectBarriers(e, draws, r) ==
    CASE r = Scene(NextTarget(frame.cur)) -> SceneTo(NextTarget(frame.cur), "RT")
      [] frame.cur # 2 /\ r = Scene(frame.cur) -> SceneTo(frame.cur, "PSR")
      [] draws /\ r \notin Targets.scene -> Pass(e, r)
      [] OTHER -> <<>>
RenderEffect(e) ==
    /\ step = "chain" /\ e \in frame.todo /\ \A d \in frame.todo : Chain[e] <= Chain[d]
    /\ LET group == IF e \in Groups THEN Targets[e] ELSE {} IN
       \E failing \in SUBSET group :
         /\ IF Fits(e) THEN failing = {} /\ UNCHANGED <<failures, owned, madeFor, raced>>
            ELSE CreateTargets(e, bb.size, failing, flight)
         /\ LET remade == IF Fits(e) THEN {} ELSE group
                fresh == [r \in Resources |-> IF r \notin remade THEN state[r]
                                             ELSE IF r \in owned' THEN FreshState(r) ELSE "gone"]
                src == ChainSrc(frame.cur)
                dst == NextTarget(frame.cur)
                draws == Draws(e, owned')
                done == IF e = "Ao" /\ ~frame.depth THEN Sampled(src) ELSE Append(Sampled(src), e)
            IN  /\ Barriers(fresh, [r \in Resources |-> EffectBarriers(e, draws, r)])
                /\ sceneState' = [i \in 0..1 |-> IF i = dst THEN "RT" ELSE IF i = frame.cur THEN "PSR" ELSE sceneState[i]]
                /\ pic' = IF draws THEN [pic EXCEPT ![Scene(dst)] = Drawn(EffectInit(e, initFmt).passes, done)] ELSE pic
                /\ frame' = [frame EXCEPT !.cur = dst, !.todo = @ \ {e}, !.starved = @ \/ ~draws]
    /\ UNCHANGED <<device, effects, gpuReady, initFmt, blitBB, lent, flight, step>>

(* Draws the result into the backbuffer, puts every surface back into the  *)
(* state it was borrowed in, submits, and hands the surfaces back.         *)
RestoreBorrowedOnly(r) ==
    CASE r = "ss" /\ "ss" \in lent -> << <<"PSR", "COMMON">> >>
      [] r = "depth" /\ "depth" \in lent -> << <<"SRV", "COMMON">> >>
      [] OTHER -> <<>>
RestoreBarriers(r) ==
    CASE (r = "resolve" /\ frame.resolve) \/ (r = "ss" /\ "ss" \in lent) -> << <<"PSR", "COMMON">> >>
      [] r = "depth" /\ "depth" \in lent -> << <<"SRV", "COMMON">> >>
      [] OTHER -> <<>>
OutputBarriers(r) ==
    LET before == IF frame.src = "bb" THEN "PSR" ELSE "COMMON" IN
    CASE r = "bb" /\ frame.cur = 2 -> << <<"PSR", "COMMON">> >>
      [] r = "bb" /\ frame.cur # 2 -> << <<before, "RT">>, <<"RT", "COMMON">> >>
      [] frame.cur # 2 /\ r = Scene(frame.cur) -> SceneTo(frame.cur, "PSR")
      [] OTHER -> <<>>
EndFrame ==
    /\ step = "chain" /\ frame.todo = {}
    /\ Barriers(state, [r \in Resources |-> OutputBarriers(r) \o RestoreBarriers(r)])
    /\ sceneState' = IF frame.cur = 2 THEN sceneState ELSE [sceneState EXCEPT ![frame.cur] = "PSR"]
    /\ pic' = IF frame.cur = 2 THEN pic ELSE [pic EXCEPT !["bb"] = Draw(blitBB.fmt, pic[Scene(frame.cur)])]
    /\ flight' = owned \cup lent
    /\ lent' = {} /\ step' = "present" /\ frame' = [frame EXCEPT !.out = "drawn"]
    /\ UNCHANGED <<device, failures, effects, gpuReady, initFmt, blitBB, owned, madeFor, raced>>

-----------------------------------------------------------------------------
(* The client, the panel and the GPU.                                      *)

Present ==
    /\ step = "present"
    /\ step' = "idle" /\ frame' = NoFrame
    /\ pic' = [r \in Resources |-> <<"old">>]
    /\ UNCHANGED <<device, failures, effects, gpuReady, initFmt, blitBB, owned, madeFor, state, sceneState,
                   wrong, lent, flight, raced>>

(* The panel: switching one anti-aliasing method on switches off the rest. *)
Toggled(e) == IF e \in enabled THEN enabled \ {e}
              ELSE (IF e \in AntiAliasing THEN enabled \ AntiAliasing ELSE enabled) \cup {e}
DrawGraphicsPanel(e) ==
    /\ step = "idle" /\ e \in effects
    /\ enabled' = Toggled(e)
    /\ UNCHANGED <<bb, resets, needsDepth, failures, effects, gpuReady, initFmt, blitBB, owned, madeFor, recorded, lent,
                   flight, step, frame, raced>>

(* The client resets the device, which frees its surfaces.                 *)
PrepareNothing == flight
PrepareForReset == IF gpuReady THEN {} ELSE flight
OnDeviceLost(d) ==
    /\ step = "idle" /\ resets < MaxResets
    /\ flight' = PrepareForReset
    /\ raced' = raced \cup (Borrowed \cap flight')
    /\ bb' = d /\ resets' = resets + 1
    /\ UNCHANGED <<failures, enabled, needsDepth, effects, gpuReady, initFmt, blitBB, owned, madeFor, recorded, lent,
                   step, frame>>

GpuDone ==
    /\ flight # {} /\ flight' = {}
    /\ UNCHANGED <<device, failures, effects, gpuReady, initFmt, blitBB, owned, madeFor, recorded, lent, step,
                   frame, raced>>

PostNext ==
    \/ \E ss, depth \in BOOLEAN : OnWorldRenderEnd(ss, depth)
    \/ Unwrap \/ EnsureInit \/ EnsureTargets \/ EnsureBlitBB \/ EnsureMsaaResolve
    \/ Record \/ EndFrame \/ Present
    \/ \E e \in Effects : RenderEffect(e) \/ DrawGraphicsPanel(e)
    \/ \E d \in Descs : OnDeviceLost(d)
    \/ GpuDone

PostSpec == PostInit /\ [][PostNext]_postVars

-----------------------------------------------------------------------------
PostTypeOK ==
    /\ effects \subseteq Effects /\ enabled \subseteq Effects /\ needsDepth \in BOOLEAN
    /\ \A d, e \in enabled \cap AntiAliasing : d = e
    /\ owned \subseteq Owned /\ lent \subseteq Borrowed /\ flight \subseteq Owned \cup Borrowed
    /\ failures \in 0..MaxFailures /\ resets \in 0..MaxResets
    /\ \A r \in Owned : (state[r] = "gone") = (r \notin owned)

(* Between frames every borrowed surface is back, in the state it was      *)
(* borrowed in, and no barrier of any frame assumed a state its resource   *)
(* was not in.  The exception is an ambient occlusion target that could    *)
(* not be made: AoEffect::Render has no check for it.                      *)
SurfacesComeBack ==
    /\ PostTypeOK
    /\ step \in {"idle", "present"} => lent = {} /\ \A r \in Borrowed : state[r] = "COMMON"
    /\ wrong \subseteq Targets.Ao
    /\ wrong # {} => failures > 0

(* Nothing the GPU may still be using is freed or used again: not a target *)
(* that is made anew, not the allocator of the list, not the client's      *)
(* surfaces in a reset.                                                    *)
NothingFreedInFlight == raced = {}

(* Between them: what was borrowed comes back whole, and what is in use is *)
(* neither freed nor drawn over.                                           *)
SurfacesKept == SurfacesComeBack /\ NothingFreedInFlight

(* A frame shows the world it was called for, through exactly the passes   *)
(* switched on, in their order.  Exceptions: an effect without its targets *)
(* leaves an older picture where its own should be, a supersample surface  *)
(* that could not be borrowed leaves the world behind, and every pass is   *)
(* made for the format of the first frame and never again.                 *)
PassesShown == {e \in enabled \cap effects : e = "Ao" => frame.depth}
Shows(picture, passes) ==
    LET after == 2 .. Len(picture)
    IN  /\ picture # <<>> /\ picture[1] = "world"
        /\ {picture[k] : k \in after} = passes
        /\ \A j, k \in after : j < k => Chain[picture[j]] < Chain[picture[k]]
ShowsThisFrame ==
    step = "present" /\ frame.out = "drawn" /\ ~frame.starved /\ bb.fmt = initFmt
        /\ (frame.ss => frame.src = "ss")
        => Shows(pic["bb"], PassesShown)
=============================================================================
