------------------------------- MODULE MCScreen -------------------------------
(* The client's events and what the extensions draw over its picture, one   *)
(* part at a time: a behaviour belongs to the part chosen in its first      *)
(* state, and the state of the others rests.                                *)
EXTENDS MarkerPass, QuestHighlight, GlueZoom, PingAddon, Shapes, GrassMotion, PingApi, ClientEvents

CONSTANTS u1, u2, u3, e1, e2
VARIABLE part

Races == "human" :> "human_hd" @@ "orc" :> "orc_hd" @@ "chosen" :> "human_hd" @@ "player" :> "orc_hd"
         @@ "altar" :> "altar"
Screens == "human" :> "create" @@ "orc" :> "create" @@ "chosen" :> "select" @@ "player" :> "world"
           @@ "altar" :> "create"
Models == DOMAIN Races
People == Models \ {"altar"}
PackedEntries == u1 :> e1 @@ u2 :> e2 @@ u3 :> e1
Guids == {<<0, 1>>, <<1, 0>>}
Names == {<< >>, <<Letter, Colon>>, <<Letter, Letter, Letter>>}
NameCharacters == {Letter, Colon, Blank}

Init == /\ MarkerInit /\ CircleInit /\ GlueInit /\ WheelInit /\ FrameInit /\ ShapesInit /\ GrassInit /\ ApiInit
        /\ ClientInit
        /\ part \in {"markers", "circles", "cache", "zoom", "wheel", "ping", "shapes", "grass", "api", "events"}
        /\ part # "zoom" => ~hooked
        /\ part # "api" => theirs = {}
        /\ part # "wheel" => ~looking /\ mouse.over = Nothing

Next == /\ UNCHANGED part
        /\ \/ part = "markers" /\ MarkerNext
              /\ UNCHANGED <<circleVars, glueVars, wheelVars, frameVars, shapeVars, grassVars, apiVars, eventVars>>
           \/ /\ \/ part = "circles" /\ DrawNext
                 \/ part = "cache" /\ CacheNext
                 \/ part = "cache" /\ ~cache.walking /\ WorldLeave
              /\ UNCHANGED <<markerVars, glueVars, wheelVars, frameVars, shapeVars, grassVars, apiVars, eventVars>>
           \/ part = "zoom" /\ GlueNext
              /\ UNCHANGED <<markerVars, circleVars, wheelVars, frameVars, shapeVars, grassVars, apiVars, eventVars>>
           \/ part = "wheel" /\ WheelNext
              /\ UNCHANGED <<markerVars, circleVars, glueVars, frameVars, shapeVars, grassVars, apiVars, eventVars>>
           \/ part = "ping" /\ FrameNext
              /\ UNCHANGED <<markerVars, circleVars, glueVars, wheelVars, shapeVars, grassVars, apiVars, eventVars>>
           \/ part = "shapes" /\ ShapesNext
              /\ UNCHANGED <<markerVars, circleVars, glueVars, wheelVars, frameVars, grassVars, apiVars, eventVars>>
           \/ part = "grass" /\ GrassNext
              /\ UNCHANGED <<markerVars, circleVars, glueVars, wheelVars, frameVars, shapeVars, apiVars, eventVars>>
           \/ part = "api" /\ ApiNext
              /\ UNCHANGED <<markerVars, circleVars, glueVars, wheelVars, frameVars, shapeVars, grassVars, eventVars>>
           \/ part = "events" /\ ClientNext
              /\ UNCHANGED <<markerVars, circleVars, glueVars, wheelVars, frameVars, shapeVars, grassVars, apiVars>>

Spec == Init
        /\ [][Next]_<<part, markerVars, circleVars, glueVars, wheelVars, frameVars, shapeVars, grassVars, apiVars,
                      eventVars>>
==============================================================================
