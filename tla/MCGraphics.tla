----------------------------- MODULE MCGraphics ------------------------------
(* The client's device and the post-process pipeline, one at a time: a      *)
(* behaviour belongs to the part chosen in its first state and the other    *)
(* rests.  Devices: two addresses, one device after the other, also at the  *)
(* same address.  Post-process: a backbuffer of two sizes, with and without *)
(* multisampling, and in another format.                                    *)
EXTENDS RenderDevice, PostProcess

CONSTANTS d1, d2
VARIABLE part

MCDescs == {[size |-> 1, fmt |-> "x8", samples |-> 1], [size |-> 2, fmt |-> "x8", samples |-> 4],
            [size |-> 2, fmt |-> "r5", samples |-> 1]}

DeviceRests == DeviceInit /\ loaded = {} /\ shared
PostRests == PostInit /\ bb.size = 1

MCInit == \/ part = "device" /\ DeviceInit /\ PostRests
          \/ part = "post" /\ DeviceRests /\ PostInit

MCNext == \/ part = "device" /\ DeviceNext /\ UNCHANGED <<part, postVars>>
          \/ part = "post" /\ PostNext /\ UNCHANGED <<part, deviceVars>>

MCSpec == MCInit /\ [][MCNext]_<<part, deviceVars, postVars>>
==============================================================================
