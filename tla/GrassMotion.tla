----------------------------- MODULE GrassMotion ------------------------------
(***************************************************************************)
(* Moving grass (wxl-modern-render/src/grass/GrassMotion.cpp).  The vertex *)
(* shader of the client's grass is found where it is used: after the       *)
(* constants of a chunk were uploaded, the next draw with the stride of    *)
(* blades has it bound.  A copy with a motion block is assembled from it,  *)
(* and later binds of the original get the copy instead.  Shaders are      *)
(* known by their address, to which no reference is held.                  *)
(***************************************************************************)
EXTENDS Integers

CONSTANTS GrassShaders,  \* the client's permutations, with and without shadow
          OtherShaders,
          MaxNewDevices, \* bound: devices after the first
          NoShader

ASSUME GrassAssumption ==
    /\ GrassShaders \cap OtherShaders = {}
    /\ NoShader \notin GrassShaders \cup OtherShaders

VARIABLES grassHooks, \* [upload, bind, draw]: in place, the last two on this device
          capture,    \* [engine, ours, failed]: shaders; ours knows its original and device
          armed,      \* [pending, dirty, player]: the three flags of the capture
          gpu,        \* the device: its number, the shader asked for and the one bound
          pass        \* the client's frame: grass pass, uploads, player, constants, last draw

grassVars == <<grassHooks, capture, armed, gpu, pass>>

Shaders == GrassShaders \cup OtherShaders
NoCapture == [engine |-> NoShader, ours |-> NoShader, failed |-> NoShader]
Ours(s) == [from |-> s, device |-> gpu.number]
NoDraw == [grass |-> FALSE, by |-> NoShader, asked |-> NoShader, const |-> "zero", player |-> FALSE]

GrassInit ==
    /\ grassHooks = [upload |-> FALSE, bind |-> FALSE, draw |-> FALSE]
    /\ capture = NoCapture
    /\ armed = [pending |-> FALSE, dirty |-> TRUE, player |-> FALSE]
    /\ gpu = [number |-> 1, asked |-> NoShader, bound |-> NoShader]
    /\ pass = [on |-> FALSE, uploaded |-> FALSE, done |-> FALSE, resident |-> FALSE, const |-> "zero", last |-> NoDraw]

(* Each frame ends with the hooks looked after and the constants due again.*)
(* The slot of draws is not tried again once that of binds is taken, and   *)
(* none is where the feature is switched off.                              *)
EnsureHooks(swapped) ==
    grassHooks' =
        [upload |-> grassHooks.upload \/ swapped.upload, bind |-> grassHooks.bind \/ swapped.bind,
         draw   |-> grassHooks.draw \/ (~grassHooks.bind /\ swapped.draw)]
OnEndSceneOnce(swapped) ==
    /\ EnsureHooks(swapped) /\ UNCHANGED <<armed, capture, gpu>>
    /\ pass' = [pass EXCEPT !.on = FALSE, !.uploaded = FALSE, !.done = FALSE, !.const = "old", !.last = NoDraw]
OnEndScene(swapped) ==
    /\ EnsureHooks(swapped)
    /\ armed' = [armed EXCEPT !.dirty = TRUE]
    /\ pass' = [pass EXCEPT !.on = FALSE, !.uploaded = FALSE, !.done = FALSE, !.const = "old", !.last = NoDraw]
    /\ UNCHANGED <<capture, gpu>>

\* One pass a frame; the client clears its constants first.
BeginPass ==
    /\ ~pass.done
    /\ pass' = [pass EXCEPT !.on = TRUE, !.done = TRUE, !.const = "zero"]
    /\ UNCHANGED <<grassHooks, capture, armed, gpu>>
PlayerMoves ==
    /\ pass' = [pass EXCEPT !.resident = ~@] /\ UNCHANGED <<grassHooks, capture, armed, gpu>>

\* The first upload of a frame writes the constants, given a player.
ReadPlayer == pass.resident
WriteFrameConstants(const) == IF ReadPlayer THEN "now" ELSE const
hkChunkUpload ==
    /\ pass.on
    /\ IF ~grassHooks.upload THEN UNCHANGED armed /\ pass' = [pass EXCEPT !.uploaded = TRUE]
       ELSE /\ armed' = [pending |-> TRUE, dirty |-> FALSE, player |-> IF armed.dirty THEN ReadPlayer ELSE armed.player]
            /\ pass' = [pass EXCEPT !.uploaded = TRUE,
                                    !.const = IF armed.dirty THEN WriteFrameConstants(@) ELSE @]
    /\ UNCHANGED <<grassHooks, capture, gpu>>

hkSetVertexShader(s) ==
    /\ s # gpu.asked
    /\ gpu' = [gpu EXCEPT !.asked = s,
                 !.bound = IF grassHooks.bind /\ s = capture.engine /\ capture.ours # NoShader /\ armed.player
                           THEN capture.ours ELSE s]
    /\ UNCHANGED <<grassHooks, capture, armed, pass>>

IsOurs(s) == s \notin Shaders
BuildReplacement(s, succeeds) ==
    IF succeeds THEN [engine |-> s, ours |-> Ours(s), failed |-> NoShader] ELSE [capture EXCEPT !.failed = s]
IdentifiedAnyDraw(grass) == grassHooks.draw /\ armed.pending
Identified(grass) == grassHooks.draw /\ armed.pending /\ grass
hkDIP(grass, succeeds) ==
    LET s == gpu.bound
        fresh == s \notin {capture.ours, capture.engine, capture.failed}
    IN  /\ gpu.asked \in IF grass THEN GrassShaders ELSE OtherShaders
        /\ grass => pass.on /\ pass.uploaded
        /\ IF Identified(grass)
           THEN /\ armed' = [armed EXCEPT !.pending = FALSE]
                /\ capture' = IF fresh THEN BuildReplacement(s, succeeds) ELSE capture
           ELSE UNCHANGED <<armed, capture>>
        /\ pass' = [pass EXCEPT !.last = [grass |-> grass, by |-> s, asked |-> gpu.asked,
                                          const |-> pass.const, player |-> armed.player]]
        /\ UNCHANGED <<grassHooks, gpu>>

\* A reset unbinds everything and drops the capture.
OnDeviceReset ==
    /\ capture' = NoCapture /\ armed' = [armed EXCEPT !.pending = FALSE, !.player = FALSE]
    /\ gpu' = [gpu EXCEPT !.asked = NoShader, !.bound = NoShader]
    /\ pass' = [pass EXCEPT !.last = NoDraw] /\ UNCHANGED grassHooks
\* A device made anew comes with its own slots, and without that event.
NewDevice ==
    /\ gpu.number <= MaxNewDevices
    /\ gpu' = [number |-> gpu.number + 1, asked |-> NoShader, bound |-> NoShader]
    /\ grassHooks' = [grassHooks EXCEPT !.bind = FALSE, !.draw = FALSE]
    /\ pass' = [pass EXCEPT !.last = NoDraw] /\ UNCHANGED <<capture, armed>>

GrassNext ==
    \/ \E upload, bind, draw \in BOOLEAN : OnEndScene([upload |-> upload, bind |-> bind, draw |-> draw])
    \/ BeginPass \/ PlayerMoves \/ hkChunkUpload
    \/ \E s \in Shaders : hkSetVertexShader(s)
    \/ \E grass, succeeds \in BOOLEAN : hkDIP(grass, succeeds)
    \/ OnDeviceReset \/ NewDevice

GrassSpec == GrassInit /\ [][GrassNext]_grassVars

-----------------------------------------------------------------------------

(* The copy is drawn with in place of the grass shader it was made from    *)
(* and of nothing else, never made from a copy (which would move twice),   *)
(* and grass drawn while there is a player finds the constants of its own  *)
(* frame.  After a new device without a reset, which keeps the copy of the *)
(* old one (GrassMotion.cpp:450 has no other caller), only this: the copy  *)
(* is that of a grass shader.                                              *)
OnlyGrassMoves ==
    LET last == pass.last IN
    /\ capture.ours # NoShader => capture.ours.from \in GrassShaders /\ capture.ours.from = capture.engine
    /\ IsOurs(last.by) /\ last.by # NoShader => last.grass
    /\ IsOurs(last.by) /\ last.by # NoShader /\ last.by.device = gpu.number => last.by.from = last.asked
    /\ last.grass /\ last.player => last.const = "now"
==============================================================================
