------------------------------ MODULE MCStartup ------------------------------
(* One Boot address, one of the five storage entry points, one Normal       *)
(* feature, and two extensions: one publishes what the other may need.     *)
EXTENDS Startup, TLC

CONSTANTS engine, open, render, ext1, ext2

MCStorage == <<open>>
MCKeys == {"storage", "framescript"}
MCCore == {"storage"}
MCNeeds  == <<{"storage"}, {"framescript"}>>
MCOffers == <<{"framescript"}, {"framescript"}>>
MCKinds == {"absent", "otherBuild", "failing", "usable"}
(* One hook point under two names.  The first DLL attaches by address; the  *)
(* second by name, its failing build by one that nobody registered.        *)
MCPoints == <<[name |-> "Shader.EffectBind", address |-> ext2], [name |-> "Wmo.CompositeEffectBind", address |-> ext2]>>
MCAsks == <<[kind \in MCKinds |-> {ext1}],
            [kind \in MCKinds |-> IF kind = "failing" THEN {"Wmo.CompositeEffectBind", "Shader.EffectBound"}
                                  ELSE {"Shader.EffectBind", "Wmo.CompositeEffectBind"}]>>
=============================================================================
