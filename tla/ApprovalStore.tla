---------------------------- MODULE ApprovalStore ----------------------------
(***************************************************************************)
(* approval_store.py with its callers: the CLI loop of every graph thread  *)
(* (cli.py) and the request handlers of the approval server, a thread each *)
(* (approval_server.py).  They share one SQLite table.  Every statement    *)
(* commits on its own, so a step is one statement: a method that reads and *)
(* then writes is interleaved with the others between the two.             *)
(*                                                                         *)
(* Times are abstracted to whether they have passed: due for expires_at,   *)
(* which is looked at while a row is pending, late for the deadline of     *)
(* wait_for_decision.  The audit table is a log nobody decides by, and is  *)
(* left out.                                                               *)
(***************************************************************************)
EXTENDS Naturals

CONSTANTS
    Agents,          \* graph threads, each with its CLI process
    Approvers,       \* humans at the approval page
    TaskTool,        \* agent -> the [task, tool] it asks about, policy.py's _approval_id
    Mode,            \* agent -> approval_mode, "api" or "cli"
    MaxRequests      \* bound: agent -> interrupts of its thread

ASSUME StoreAssumption ==
    /\ Mode \in [Agents -> {"api", "cli"}]
    /\ DOMAIN TaskTool = Agents
    /\ Agents \cap Approvers = {}
    /\ MaxRequests \in [Agents -> Nat]

Requests  == UNION {[agent : {a}, n : 1..MaxRequests[a]] : a \in Agents}
NoRequest == [agent |-> "none", n |-> 0]
\* The stable id of a task and tool, or that id with a fresh uuid suffix.
Ids  == [of : {TaskTool[a] : a \in Agents}, suffix : Requests \cup {NoRequest}]
NoId == [of |-> "none", suffix |-> NoRequest]

VARIABLES
    records,         \* approval_requests: id -> [request, status, due]
    proc,            \* the method each process is in, and its local variables
    asked, agreed,   \* history: requests raised; requests agreed to as shown
    past,            \* history: agent -> requests answered before its look-up, until it upserts
    shared,          \* history: requests that came to share a record
    answer           \* request -> what its graph was resumed with

histories == <<asked, agreed, past, shared>>
vars == <<records, proc, histories, answer>>

Procs == Agents \cup Approvers
Idle  == [pc |-> "idle", id |-> NoId, request |-> NoRequest, verdict |-> "none",
          expire |-> FALSE, late |-> FALSE]

Init ==
    /\ records = [id \in {} |-> NoRequest]
    /\ proc = [p \in Procs |-> Idle]
    /\ asked = {}
    /\ agreed = {}
    /\ past = [a \in Agents |-> {}]
    /\ shared = {}
    /\ answer = [r \in Requests |-> "none"]

At(p, where) == proc[p].pc = where /\ ~proc[p].expire
Enter(p, where) == proc' = [proc EXCEPT ![p].pc = where]
Expires(p, value) == proc' = [proc EXCEPT ![p].expire = value]

(***************************************************************************)
(* get: a pending record that is due is marked expired and read again.     *)
(* The UPDATE of mark_expired is the only one that checks the status.      *)
(***************************************************************************)
Reading == {"created", "polling", "gave_up", "viewing", "deciding", "decided"}
Stale(id) == records[id].status = "pending" /\ records[id].due

GetFindsExpired(p) ==
    /\ \E where \in Reading : At(p, where)
    /\ Stale(proc[p].id)
    /\ Expires(p, TRUE)
    /\ UNCHANGED <<records, histories, answer>>

MarkExpired(p) ==
    /\ proc[p].expire
    /\ records' = IF records[proc[p].id].status = "pending"
                  THEN [records EXCEPT ![proc[p].id].status = "expired",
                                       ![proc[p].id].due = FALSE]
                  ELSE records
    /\ Expires(p, FALSE)
    /\ UNCHANGED <<histories, answer>>

Gets(p, where) == At(p, where) /\ ~Stale(proc[p].id)
Status(p) == records[proc[p].id].status

(***************************************************************************)
(* create_or_update_request: look the stable id up, then upsert.           *)
(***************************************************************************)
Exists(id) == id \in DOMAIN records
StableId(a) == [of |-> TaskTool[a], suffix |-> NoRequest]
\* Mutant: a settled record is used again.
RequestIdReused(a, r) == StableId(a)
RequestId(a, r) ==
    IF Exists(StableId(a)) /\ records[StableId(a)].status # "pending"
    THEN [of |-> TaskTool[a], suffix |-> r]
    ELSE StableId(a)

Interrupt(a) ==
    /\ At(a, "idle")
    /\ \E r \in Requests :
          /\ r.agent = a /\ r \notin asked
          /\ \A q \in Requests : q.agent = a /\ q.n < r.n => q \in asked
          /\ proc' = [proc EXCEPT ![a] = [Idle EXCEPT !.pc = "upserting", !.request = r,
                                                      !.id = RequestId(a, r)]]
          /\ asked' = asked \cup {r}
          /\ past' = [past EXCEPT ![a] = {q \in Requests : answer[q] # "none"}]
    /\ UNCHANGED <<records, agreed, shared, answer>>

\* Mutant: an update that inserts nothing.
UpsertUpdatesOnly(a) ==
    /\ At(a, "upserting")
    /\ records' = [id \in DOMAIN records |->
                      IF id = proc[a].id
                      THEN [request |-> proc[a].request, status |-> "pending", due |-> FALSE]
                      ELSE records[id]]
    /\ Enter(a, "created")
    /\ UNCHANGED <<histories, answer>>
Upsert(a) ==
    /\ At(a, "upserting")
    /\ records' = [id \in DOMAIN records \cup {proc[a].id} |->
                      IF id = proc[a].id
                      THEN [request |-> proc[a].request, status |-> "pending", due |-> FALSE]
                      ELSE records[id]]
    /\ shared' = IF Exists(proc[a].id)
                 THEN shared \cup {records[proc[a].id].request, proc[a].request}
                 ELSE shared
    /\ past' = [past EXCEPT ![a] = {}]
    /\ Enter(a, "created")
    /\ UNCHANGED <<asked, agreed, answer>>

Created(a) ==
    /\ Gets(a, "created")
    /\ Enter(a, IF Mode[a] = "api" THEN "waiting" ELSE "asking")
    /\ UNCHANGED <<records, histories, answer>>

(***************************************************************************)
(* wait_for_decision, and the graph resumed with to_resume_value.          *)
(***************************************************************************)
\* Mutant: whatever was not denied is approved.
ResumeValueOptimistic(status) == IF status = "denied" THEN "refused" ELSE "approved"
ResumeValue(status) == IF status = "approved" THEN "approved" ELSE "refused"

Resume(a) ==
    /\ answer' = [answer EXCEPT ![proc[a].request] = ResumeValue(Status(a))]
    /\ proc' = [proc EXCEPT ![a] = Idle]
    /\ UNCHANGED <<records, histories>>

WaitLoop(a) ==
    /\ At(a, "waiting")
    /\ proc' = IF proc[a].late
               THEN [proc EXCEPT ![a].pc = "gave_up", ![a].expire = TRUE]
               ELSE [proc EXCEPT ![a].pc = "polling"]
    /\ UNCHANGED <<records, histories, answer>>

Poll(a) ==
    /\ Gets(a, "polling")
    /\ IF Status(a) = "pending"
       THEN Enter(a, "waiting") /\ UNCHANGED <<records, histories, answer>>
       ELSE Resume(a)

GiveUp(a) == Gets(a, "gave_up") /\ Resume(a)

(***************************************************************************)
(* A human is shown a request, at the approval page or by the CLI itself,  *)
(* and answers; decide looks at the record, then updates it.               *)
(***************************************************************************)
OpenPage(h) ==
    /\ At(h, "idle")
    /\ \E id \in DOMAIN records :
          /\ records[id].status = "pending"
          /\ proc' = [proc EXCEPT ![h].pc = "viewing", ![h].id = id]
    /\ UNCHANGED <<records, histories, answer>>

View(h) ==
    /\ Gets(h, "viewing")
    /\ proc' = [proc EXCEPT ![h].pc = "asking", ![h].request = records[proc[h].id].request]
    /\ UNCHANGED <<records, histories, answer>>

HumanAnswers(p) ==
    /\ At(p, "asking")
    /\ \E verdict \in {"approved", "denied"} :
          /\ proc' = [proc EXCEPT ![p].pc = "deciding", ![p].verdict = verdict]
          /\ agreed' = agreed \cup (IF verdict = "approved" THEN {proc[p].request} ELSE {})
    /\ UNCHANGED <<records, asked, past, shared, answer>>

\* decide returns to the handler, which is done, or to the CLI, which resumes.
Returns(p) ==
    IF p \in Agents THEN Resume(p)
    ELSE proc' = [proc EXCEPT ![p] = Idle] /\ UNCHANGED <<records, histories, answer>>

DecideLooks(p) ==
    /\ Gets(p, "deciding")
    /\ IF Status(p) = "pending"
       THEN Enter(p, "updating") /\ UNCHANGED <<records, histories, answer>>
       ELSE Returns(p)

DecideUpdates(p) ==
    /\ At(p, "updating")
    /\ records' = [records EXCEPT ![proc[p].id].status = proc[p].verdict,
                                  ![proc[p].id].due = FALSE]
    /\ Enter(p, "decided")
    /\ UNCHANGED <<histories, answer>>

DecideReturns(p) == Gets(p, "decided") /\ Returns(p)

(***************************************************************************)
(* Time passes.                                                            *)
(***************************************************************************)
BecomesDue(id) ==
    /\ records[id].status = "pending" /\ ~records[id].due
    /\ records' = [records EXCEPT ![id].due = TRUE]
    /\ UNCHANGED <<proc, histories, answer>>

DeadlinePasses(a) ==
    /\ proc[a].pc \in {"waiting", "polling"}
    /\ ~proc[a].late
    /\ proc' = [proc EXCEPT ![a].late = TRUE]
    /\ UNCHANGED <<records, histories, answer>>

\* One method call goes on; the humans' own moves are not among these steps.
Runs(p) ==
    \/ GetFindsExpired(p) \/ MarkExpired(p)
    \/ DecideLooks(p) \/ DecideUpdates(p) \/ DecideReturns(p)
    \/ p \in Agents /\ (Upsert(p) \/ Created(p) \/ WaitLoop(p) \/ Poll(p) \/ GiveUp(p))
    \/ p \in Approvers /\ View(p)

Next ==
    \/ \E p \in Procs : Runs(p) \/ HumanAnswers(p)
    \/ \E a \in Agents : Interrupt(a) \/ DeadlinePasses(a)
    \/ \E h \in Approvers : OpenPage(h)
    \/ \E id \in DOMAIN records : BecomesDue(id)

Spec == Init /\ [][Next]_vars

\* A process inside a method goes on, and deadlines pass; nobody has to raise a
\* request, open the page or answer.
FairSpec ==
    /\ Spec
    /\ \A p \in Procs : WF_vars(Runs(p))
    /\ \A a \in Agents : WF_vars(DeadlinePasses(a))

(***************************************************************************)
(* Properties.                                                             *)
(***************************************************************************)
\* Types of the table and of the methods in progress; a method only ever works
\* on a record that exists.
TypeOK ==
    /\ DOMAIN records \subseteq Ids
    /\ \A id \in DOMAIN records :
          records[id] \in [request : Requests, due : BOOLEAN,
                           status : {"pending", "approved", "denied", "expired"}]
    /\ \A p \in Procs :
          /\ proc[p].pc \in Reading \cup {"idle", "upserting", "waiting", "asking", "updating"}
          /\ proc[p].verdict \in {"none", "approved", "denied"}
          /\ proc[p].pc \notin {"idle", "upserting"} => Exists(proc[p].id)
    /\ asked \subseteq Requests /\ agreed \subseteq asked /\ shared \subseteq asked
    /\ past \in [Agents -> SUBSET Requests]
    /\ answer \in [Requests -> {"none", "approved", "refused"}]

\* A settled record is made pending again only by a request that was raised before
\* the graph it was settled for got its answer.  A later request about the same
\* task and tool, of this thread or of another, gets a record of its own.
SettledStaysSettled ==
    [][\A id \in DOMAIN records :
          records[id].status # "pending" /\ records'[id].status = "pending" =>
             records[id].request \notin past[records'[id].request.agent]]_vars

\* The store, its server and the CLI keep the contract of ApprovalContract, threads
\* that ask about the same task and tool at the same time included.
Contract ==
    INSTANCE ApprovalContract WITH
        Limited <- {r \in Requests : Mode[r.agent] = "api"},
        About   <- [r \in Requests |-> TaskTool[r.agent]]
KeepsContract == Contract!Spec
=============================================================================
