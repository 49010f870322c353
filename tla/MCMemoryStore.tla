--------------------------- MODULE MCMemoryStore ---------------------------
EXTENDS MemoryStore

CONSTANTS a1, u1, u2, u3, l1, l2

MCAgents == {a1}
MCLessons == {l1, l2}
MCLessonShape ==
    [l \in MCLessons |-> [group |-> "stage", pattern |-> None, paths |-> {},
                          plain |-> IF l = l1 THEN {TRUE} ELSE BOOLEAN]]
MCEvaluations ==
    [l \in MCLessons |->
        IF l = l1 THEN {e \in Evaluations : e.value = "high" /\ e.policy = "long_term"}
        ELSE {e \in Evaluations : e.value = "low"}]
\* Agents of several users seeded the same preference at the same time.
Seeded(u) == Preference(u, "language")
MCOverlapped == {<<Seeded(u1), Seeded(u2)>>, <<Seeded(u1), Seeded(u2), Seeded(u3)>>}
MCAgentRuns == [a \in MCAgents |-> 2]
=============================================================================
