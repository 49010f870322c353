------------------------ MODULE MCLifecycleScheduler ------------------------
(* Three calls: two of the same cron minute, one of the next.               *)
EXTENDS LifecycleScheduler

CONSTANTS c1, c2, c3

MCCalls  == {c1, c2, c3}
MCRunKey == [c \in MCCalls |-> IF c = c3 THEN "next_minute" ELSE "minute"]
=============================================================================
