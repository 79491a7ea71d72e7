---------------------------- MODULE MCQuestTracker ----------------------------
(* Two quests and two maps; one quest is only on the first map.            *)
EXTENDS QuestTracker

CONSTANTS q1, q2, m1, m2

MCQuests == {q1, q2}
MCMaps == {m1, m2}
MCEligible == {<<q1, m1>>, <<q2, m1>>, <<q2, m2>>}

=============================================================================
