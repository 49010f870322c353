-------------------------- MODULE ApprovalContract --------------------------
(***************************************************************************)
(* What a graph that stops at the Approval Interrupt is promised: the      *)
(* answer it resumes with is "approved" only if a human who was shown this *)
(* very request agreed to it, and a request with a time limit is answered. *)
(* Requests about the same task and tool may come to share a record.  They *)
(* are promised less: a human agreed to one of them.                       *)
(***************************************************************************)
CONSTANTS
    Requests,      \* interrupts of all graphs
    Limited,       \* those whose waiting has a time limit
    About          \* request -> the task and tool it asks about

VARIABLES
    asked,         \* requests raised so far
    agreed,        \* requests a human was shown and agreed to
    shared,        \* requests that came to share a record
    answer         \* request -> "none", "approved" or "refused"

vars == <<asked, agreed, shared, answer>>

Init ==
    /\ asked = {}
    /\ agreed = {}
    /\ shared = {}
    /\ answer = [r \in Requests |-> "none"]

Ask(r) ==
    /\ r \notin asked
    /\ asked' = asked \cup {r}
    /\ UNCHANGED <<agreed, shared, answer>>

Agree(r) ==
    /\ r \in asked
    /\ agreed' = agreed \cup {r}
    /\ UNCHANGED <<asked, shared, answer>>

\* r takes the place of q, which was raised before it or beside it.
Share(r, q) ==
    /\ {r, q} \subseteq asked /\ r # q
    /\ About[r] = About[q] /\ answer[r] = "none"
    /\ shared' = shared \cup {r, q}
    /\ UNCHANGED <<asked, agreed, answer>>

MayApprove(r) ==
    \/ r \in agreed
    \/ r \in shared /\ \E q \in agreed : About[q] = About[r]

Resume(r) ==
    /\ r \in asked
    /\ answer[r] = "none"
    /\ \/ MayApprove(r) /\ answer' = [answer EXCEPT ![r] = "approved"]
       \/ answer' = [answer EXCEPT ![r] = "refused"]
    /\ UNCHANGED <<asked, agreed, shared>>

Next ==
    \E r \in Requests : Ask(r) \/ Agree(r) \/ Resume(r) \/ \E q \in Requests : Share(r, q)

Spec == Init /\ [][Next]_vars /\ \A r \in Limited : WF_vars(Resume(r))
=============================================================================
