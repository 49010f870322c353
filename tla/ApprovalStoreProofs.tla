------------------------ MODULE ApprovalStoreProofs ------------------------
(***************************************************************************)
(* Theorems about ApprovalStore for any number of graph threads, approvers *)
(* and requests, whether the threads ask about the same task and tool or   *)
(* not: its types, when a settled record is made pending again, and that   *)
(* every step is one the contract allows.                                  *)
(***************************************************************************)
EXTENDS ApprovalStore, TLAPS

USE DEF histories

Statuses == {"pending", "approved", "denied", "expired"}
RecordType == [request : Requests, status : Statuses, due : BOOLEAN]
Places == Reading \cup {"idle", "upserting", "waiting", "asking", "updating"}
ProcType ==
    [pc : Places, id : Ids \cup {NoId}, request : Requests \cup {NoRequest},
     verdict : {"none", "approved", "denied"}, expire : BOOLEAN, late : BOOLEAN]
Answers == {"none", "approved", "refused"}

Table ==
    /\ DOMAIN records \subseteq Ids
    /\ records \in [DOMAIN records -> RecordType]
    /\ \A id \in DOMAIN records : records[id].request \in asked

Histories ==
    /\ asked \subseteq Requests /\ agreed \subseteq asked /\ shared \subseteq asked
    /\ past \in [Agents -> SUBSET Requests]
    /\ answer \in [Requests -> Answers]

\* What a method has in hand.
Holds(p, q) ==
    /\ q.pc \notin {"idle", "upserting"} => Exists(q.id)
    /\ q.pc \in {"asking", "deciding", "updating", "decided"} => q.request \in asked
    /\ q.pc \in {"deciding", "updating", "decided"} => q.verdict # "none"
    /\ p \in Agents /\ q.pc # "idle" => q.request \in asked /\ q.id \in Ids
    /\ q.expire => q.pc \in Reading
Inside(p) == Holds(p, proc[p])

IInv ==
    /\ Table /\ Histories
    /\ proc \in [Procs -> ProcType]
    /\ \A p \in Procs : Inside(p)

LEMMA IdleType == Idle \in ProcType /\ Idle.pc = "idle" /\ ~Idle.expire
BY DEF Idle, ProcType, Places, Reading

LEMMA InitTypes == Init => IInv
BY IdleType DEF Init, IInv, Table, Histories, Inside, Holds, Answers, RecordType

\* A step of one process that loses no record and no request leaves the others
\* with what they had.
LEMMA OthersStay ==
    ASSUME IInv, NEW p \in Procs, NEW q \in ProcType,
           proc' = [proc EXCEPT ![p] = q], Table', Histories',
           DOMAIN records \subseteq DOMAIN records', asked \subseteq asked',
           Inside(p)'
    PROVE  IInv'
BY DEF IInv, Inside, Holds, Exists

\* The record in hand.
LEMMA InHand ==
    ASSUME IInv, NEW p \in Procs, proc[p].pc \notin {"idle", "upserting"}
    PROVE  /\ proc[p].id \in DOMAIN records /\ records[proc[p].id] \in RecordType
           /\ records[proc[p].id].request \in asked
           /\ Status(p) \in Statuses
<1>1. proc[p].id \in DOMAIN records
  BY DEF IInv, Inside, Holds, Exists
<1> QED BY <1>1 DEF IInv, Table, RecordType, Status

LEMMA GetTypes ==
    ASSUME IInv, NEW p \in Procs, GetFindsExpired(p) \/ MarkExpired(p)
    PROVE  IInv'
<1>0. proc[p] \in ProcType /\ proc[p].pc \in Places
  BY DEF IInv, ProcType
<1>1. CASE GetFindsExpired(p)
  <2> DEFINE q == [proc[p] EXCEPT !.expire = TRUE]
  <2>1. /\ q \in ProcType /\ q.pc = proc[p].pc /\ q.id = proc[p].id /\ q.request = proc[p].request
        /\ q.verdict = proc[p].verdict
    BY <1>0 DEF ProcType
  <2>2. proc' = [proc EXCEPT ![p] = q] /\ proc'[p] = q /\ proc[p].pc \in Reading
    BY <1>1 DEF GetFindsExpired, Expires, At, IInv
  <2> HIDE DEF q
  <2>3. Table' /\ Histories' /\ UNCHANGED <<records, asked>>
    BY <1>1 DEF GetFindsExpired, IInv, Table, Histories
  <2>4. Inside(p)'
    BY <2>1, <2>2, <2>3 DEF IInv, Inside, Holds, Exists
  <2> QED BY <2>1, <2>2, <2>3, <2>4, OthersStay
<1>2. CASE MarkExpired(p)
  <2> DEFINE q == [proc[p] EXCEPT !.expire = FALSE]
  <2>1. /\ q \in ProcType /\ q.pc = proc[p].pc /\ q.id = proc[p].id /\ q.request = proc[p].request
        /\ q.verdict = proc[p].verdict /\ ~q.expire
    BY <1>0 DEF ProcType
  <2>2. proc' = [proc EXCEPT ![p] = q] /\ proc'[p] = q /\ proc[p].pc \in Reading
    BY <1>2 DEF MarkExpired, Expires, IInv, Inside, Holds
  <2>3. proc[p].id \in DOMAIN records /\ records[proc[p].id] \in RecordType
    BY <2>2, InHand DEF Reading
  <2>4. Table' /\ Histories' /\ asked' = asked /\ DOMAIN records' = DOMAIN records
    BY <1>2, <2>3 DEF MarkExpired, IInv, Table, Histories, RecordType, Statuses
  <2> HIDE DEF q
  <2>5. Inside(p)'
    BY <2>1, <2>2, <2>4 DEF IInv, Inside, Holds, Exists
  <2> QED BY <2>1, <2>2, <2>4, <2>5, OthersStay
<1> QED BY <1>1, <1>2
\* A step that only moves one process on.
LEMMA Moves ==
    ASSUME IInv, NEW p \in Procs, NEW q \in ProcType, proc' = [proc EXCEPT ![p] = q],
           UNCHANGED <<records, asked>>, Histories', Holds(p, q)
    PROVE  IInv'
<1>1. proc'[p] = q
  BY DEF IInv
<1>2. Table' /\ Inside(p)'
  BY <1>1 DEF IInv, Table, Inside, Holds, Exists
<1> QED BY <1>2, OthersStay

LEMMA ResumeTypes ==
    ASSUME IInv, NEW a \in Agents, proc[a].pc \notin {"idle", "upserting"}, Resume(a)
    PROVE  IInv'
<1>1. Histories'
  BY DEF Resume, ResumeValue, IInv, Histories, Answers
<1>2. Holds(a, Idle)
  BY IdleType DEF Holds
<1> QED BY <1>1, <1>2, IdleType, Moves DEF Resume, Procs

LEMMA ReturnTypes ==
    ASSUME IInv, NEW p \in Procs, proc[p].pc \notin {"idle", "upserting"}, Returns(p)
    PROVE  IInv'
<1>1. CASE p \in Agents
  BY <1>1, ResumeTypes DEF Returns
<1>2. CASE p \notin Agents
  <2>1. Histories'
    BY <1>2 DEF Returns, IInv, Histories
  <2>2. Holds(p, Idle)
    BY IdleType DEF Holds
  <2> QED BY <1>2, <2>1, <2>2, IdleType, Moves DEF Returns
<1> QED BY <1>1, <1>2

\* Entering the next place of the same method.
LEMMA EnterTypes ==
    ASSUME IInv, NEW p \in Procs, NEW where \in Places \ {"idle", "upserting"}, Enter(p, where),
           proc[p].pc \notin {"idle", "upserting"}, ~proc[p].expire,
           where \in {"asking", "deciding", "updating", "decided"} => proc[p].request \in asked,
           where \in {"deciding", "updating", "decided"} => proc[p].verdict # "none",
           UNCHANGED <<records, histories, answer>>
    PROVE  IInv'
<1> DEFINE q == [proc[p] EXCEPT !.pc = where]
<1>1. proc[p] \in ProcType
  BY DEF IInv
<1>2. /\ q \in ProcType /\ q.pc = where /\ q.id = proc[p].id /\ q.request = proc[p].request
      /\ q.verdict = proc[p].verdict /\ ~q.expire
  BY <1>1 DEF ProcType
<1>3. proc' = [proc EXCEPT ![p] = q]
  BY DEF Enter
<1> HIDE DEF q
<1>4. Holds(p, q) /\ Histories'
  BY <1>2 DEF IInv, Inside, Holds, Exists, Histories
<1> QED BY <1>2, <1>3, <1>4, Moves

LEMMA AgentTypes ==
    ASSUME IInv, NEW a \in Agents, Created(a) \/ WaitLoop(a) \/ Poll(a) \/ GiveUp(a)
    PROVE  IInv'
<1>0. a \in Procs /\ proc[a] \in ProcType
  BY DEF Procs, IInv
<1>1. CASE Created(a)
  <2>1. /\ proc[a].pc = "created" /\ ~proc[a].expire /\ proc[a].request \in asked
    BY <1>0, <1>1 DEF Created, Gets, At, IInv, Inside, Holds
  <2>2. PICK where \in {"waiting", "asking"} : Enter(a, where)
    BY <1>1 DEF Created
  <2> QED BY <1>0, <1>1, <2>1, <2>2, EnterTypes DEF Created, Places
<1>2. CASE WaitLoop(a)
  <2>1. /\ proc[a].pc = "waiting" /\ ~proc[a].expire
    BY <1>2 DEF WaitLoop, At
  <2>2. CASE ~proc[a].late
    BY <1>0, <1>2, <2>1, <2>2, EnterTypes DEF WaitLoop, Enter, Places, Reading
  <2>3. CASE proc[a].late
    <3> DEFINE q == [proc[a] EXCEPT !.pc = "gave_up", !.expire = TRUE]
    <3>1. /\ q \in ProcType /\ q.pc = "gave_up" /\ q.id = proc[a].id
          /\ q.request = proc[a].request
      BY <1>0 DEF ProcType, Places, Reading
    <3>2. proc' = [proc EXCEPT ![a] = q]
      BY <1>0, <1>2, <2>3 DEF WaitLoop, IInv
    <3> HIDE DEF q
    <3>3. Holds(a, q) /\ Histories'
      BY <1>0, <1>2, <2>1, <3>1 DEF WaitLoop, IInv, Inside, Holds, Exists, Histories, Reading
    <3> QED BY <1>0, <1>2, <3>1, <3>2, <3>3, Moves DEF WaitLoop
  <2> QED BY <2>2, <2>3
<1>3. CASE Poll(a)
  <2>1. /\ proc[a].pc = "polling" /\ ~proc[a].expire
    BY <1>3 DEF Poll, Gets, At
  <2>2. CASE Status(a) = "pending"
    BY <1>0, <1>3, <2>1, <2>2, EnterTypes DEF Poll, Places
  <2>3. CASE Status(a) # "pending"
    BY <1>3, <2>1, <2>3, ResumeTypes DEF Poll
  <2> QED BY <2>2, <2>3
<1>4. CASE GiveUp(a)
  BY <1>4, ResumeTypes DEF GiveUp, Gets, At
<1> QED BY <1>1, <1>2, <1>3, <1>4

LEMMA HumanTypes ==
    ASSUME IInv, NEW p \in Procs,
           HumanAnswers(p) \/ (p \notin Agents /\ (OpenPage(p) \/ View(p)))
    PROVE  IInv'
<1>0. proc[p] \in ProcType
  BY DEF IInv
<1>1. CASE OpenPage(p) /\ p \notin Agents
  <2>1. PICK id \in DOMAIN records :
            proc' = [proc EXCEPT ![p].pc = "viewing", ![p].id = id]
    BY <1>1 DEF OpenPage
  <2> DEFINE q == [proc[p] EXCEPT !.pc = "viewing", !.id = id]
  <2>2. id \in Ids
    BY DEF IInv, Table
  <2>3. q \in ProcType /\ q.pc = "viewing" /\ q.id = id /\ ~q.expire
    BY <1>0, <1>1, <2>2 DEF ProcType, Places, Reading, OpenPage, At
  <2>4. proc' = [proc EXCEPT ![p] = q]
    BY <1>0, <2>1 DEF IInv
  <2> HIDE DEF q
  <2>5. Holds(p, q) /\ Histories'
    BY <1>1, <2>3 DEF OpenPage, IInv, Holds, Exists, Histories, Reading
  <2> QED BY <1>1, <2>3, <2>4, <2>5, Moves DEF OpenPage
<1>2. CASE View(p) /\ p \notin Agents
  <2> DEFINE q == [proc[p] EXCEPT !.pc = "asking", !.request = records[proc[p].id].request]
  <2>1. proc[p].pc = "viewing" /\ ~proc[p].expire
    BY <1>2 DEF View, Gets, At
  <2>2. /\ records[proc[p].id].request \in asked /\ records[proc[p].id].request \in Requests
        /\ proc[p].id \in DOMAIN records
    BY <2>1, InHand DEF IInv, Histories
  <2>3. /\ q \in ProcType /\ q.pc = "asking" /\ q.id = proc[p].id /\ ~q.expire
        /\ q.request \in asked
    BY <1>0, <2>1, <2>2 DEF ProcType, Places
  <2>4. proc' = [proc EXCEPT ![p] = q]
    BY <1>0, <1>2 DEF View, IInv
  <2> HIDE DEF q
  <2>5. Holds(p, q) /\ Histories'
    BY <1>2, <2>2, <2>3 DEF View, IInv, Holds, Exists, Histories
  <2> QED BY <1>2, <2>3, <2>4, <2>5, Moves DEF View
<1>3. CASE HumanAnswers(p)
  <2>1. proc[p].pc = "asking" /\ ~proc[p].expire /\ proc[p].request \in asked
    BY <1>3 DEF HumanAnswers, At, IInv, Inside, Holds
  <2>2. PICK verdict \in {"approved", "denied"} :
            /\ proc' = [proc EXCEPT ![p].pc = "deciding", ![p].verdict = verdict]
            /\ agreed' = agreed \cup (IF verdict = "approved" THEN {proc[p].request} ELSE {})
    BY <1>3 DEF HumanAnswers
  <2> DEFINE q == [proc[p] EXCEPT !.pc = "deciding", !.verdict = verdict]
  <2>3. /\ q \in ProcType /\ q.pc = "deciding" /\ q.id = proc[p].id /\ ~q.expire
        /\ q.request = proc[p].request /\ q.verdict # "none"
    BY <1>0, <2>1 DEF ProcType, Places, Reading
  <2>4. proc' = [proc EXCEPT ![p] = q]
    BY <1>0, <2>2 DEF IInv
  <2> HIDE DEF q
  <2>5. Holds(p, q) /\ Histories'
    BY <1>3, <2>1, <2>2, <2>3 DEF HumanAnswers, IInv, Inside, Holds, Exists, Histories
  <2> QED BY <1>3, <2>3, <2>4, <2>5, Moves DEF HumanAnswers
<1> QED BY <1>1, <1>2, <1>3

LEMMA DecideTypes ==
    ASSUME IInv, NEW p \in Procs, DecideLooks(p) \/ DecideUpdates(p) \/ DecideReturns(p)
    PROVE  IInv'
<1>1. CASE DecideLooks(p)
  <2>1. /\ proc[p].pc = "deciding" /\ ~proc[p].expire /\ proc[p].request \in asked
        /\ proc[p].verdict # "none"
    BY <1>1 DEF DecideLooks, Gets, At, IInv, Inside, Holds
  <2>2. CASE Status(p) = "pending"
    BY <1>1, <2>1, <2>2, EnterTypes DEF DecideLooks, Places
  <2>3. CASE Status(p) # "pending"
    BY <1>1, <2>1, <2>3, ReturnTypes DEF DecideLooks
  <2> QED BY <2>2, <2>3
<1>2. CASE DecideUpdates(p)
  <2>1. proc[p].pc = "updating" /\ ~proc[p].expire /\ proc[p] \in ProcType
    BY <1>2 DEF DecideUpdates, At, IInv
  <2>2. proc[p].id \in DOMAIN records /\ proc[p].request \in asked /\ proc[p].verdict # "none"
    BY <2>1, InHand DEF IInv, Inside, Holds
  <2> DEFINE q == [proc[p] EXCEPT !.pc = "decided"]
  <2>3. /\ q \in ProcType /\ q.pc = "decided" /\ q.id = proc[p].id /\ ~q.expire
        /\ q.request = proc[p].request /\ q.verdict = proc[p].verdict
    BY <2>1 DEF ProcType, Places, Reading
  <2>4. proc' = [proc EXCEPT ![p] = q] /\ proc'[p] = q
    BY <1>2 DEF DecideUpdates, Enter, IInv
  <2> HIDE DEF q
  <2>5. DOMAIN records' = DOMAIN records /\ asked' = asked /\ Histories'
    BY <1>2 DEF DecideUpdates, IInv, Histories
  <2>6. Table'
    BY <1>2, <2>1, <2>2 DEF DecideUpdates, IInv, Table, RecordType, Statuses, ProcType
  <2>7. Inside(p)'
    BY <2>1, <2>2, <2>3, <2>4, <2>5 DEF Inside, Holds, Exists, Reading, IInv
  <2> QED BY <2>3, <2>4, <2>5, <2>6, <2>7, OthersStay
<1>3. CASE DecideReturns(p)
  BY <1>3, ReturnTypes DEF DecideReturns, Gets, At
<1> QED BY <1>1, <1>2, <1>3

LEMMA RequestIdTypes ==
    ASSUME NEW a \in Agents, NEW r \in Requests
    PROVE  RequestId(a, r) \in Ids
BY DEF RequestId, StableId, Ids

LEMMA RequestTypes ==
    ASSUME IInv, NEW a \in Agents, Interrupt(a) \/ Upsert(a)
    PROVE  IInv'
<1>0. a \in Procs /\ proc[a] \in ProcType
  BY DEF Procs, IInv
<1>1. CASE Interrupt(a)
  <2>1. PICK r \in Requests :
            /\ proc' = [proc EXCEPT ![a] = [Idle EXCEPT !.pc = "upserting", !.request = r,
                                                        !.id = RequestId(a, r)]]
            /\ asked' = asked \cup {r}
            /\ past' = [past EXCEPT ![a] = {q \in Requests : answer[q] # "none"}]
    BY <1>1 DEF Interrupt
  <2> DEFINE q == [Idle EXCEPT !.pc = "upserting", !.request = r, !.id = RequestId(a, r)]
  <2>2. RequestId(a, r) \in Ids
    BY RequestIdTypes
  <2>3. /\ q \in ProcType /\ q.pc = "upserting" /\ q.request = r /\ q.id \in Ids /\ ~q.expire
    BY <2>2 DEF Idle, ProcType, Places
  <2>4. proc' = [proc EXCEPT ![a] = q] /\ proc'[a] = q
    BY <1>0, <2>1 DEF IInv
  <2> HIDE DEF q
  <2>7. past' \in [Agents -> SUBSET Requests]
    BY <2>1 DEF IInv, Histories
  <2>5. Table' /\ Histories' /\ records' = records /\ r \in asked'
    BY <1>1, <2>1, <2>7 DEF Interrupt, IInv, Table, Histories
  <2>6. Inside(a)'
    BY <2>3, <2>4, <2>5 DEF Inside, Holds
  <2> QED BY <1>0, <2>1, <2>3, <2>4, <2>5, <2>6, OthersStay
<1>2. CASE Upsert(a)
  <2> DEFINE q == [proc[a] EXCEPT !.pc = "created"]
             new == [request |-> proc[a].request, status |-> "pending", due |-> FALSE]
  <2>1. /\ proc[a].pc = "upserting" /\ ~proc[a].expire
        /\ proc[a].request \in asked /\ proc[a].id \in Ids
    BY <1>0, <1>2 DEF Upsert, At, IInv, Inside, Holds
  <2>2. /\ q \in ProcType /\ q.pc = "created" /\ q.id = proc[a].id
        /\ q.request = proc[a].request /\ ~q.expire
    BY <1>0, <2>1 DEF ProcType, Places, Reading
  <2>3. proc' = [proc EXCEPT ![a] = q] /\ proc'[a] = q
    BY <1>0, <1>2 DEF Upsert, Enter, IInv
  <2>4. new \in RecordType /\ new.request \in asked
    BY <2>1 DEF RecordType, Statuses, IInv, Histories
  <2>5. /\ DOMAIN records' = DOMAIN records \cup {proc[a].id} /\ UNCHANGED <<asked, agreed, answer>>
        /\ records' = [id \in DOMAIN records \cup {proc[a].id} |->
                          IF id = proc[a].id THEN new ELSE records[id]]
    BY <1>2 DEF Upsert
  <2> HIDE DEF q, new
  <2>8. shared' \subseteq asked /\ past' \in [Agents -> SUBSET Requests]
    BY <1>2, <2>1 DEF Upsert, Exists, IInv, Table, Histories
  <2>6. Table' /\ Histories'
    BY <2>1, <2>4, <2>5, <2>8 DEF IInv, Table, Histories
  <2>7. Inside(a)'
    BY <2>1, <2>2, <2>3, <2>5 DEF Inside, Holds, Exists
  <2> QED BY <1>0, <2>2, <2>3, <2>5, <2>6, <2>7, OthersStay
<1> QED BY <1>1, <1>2

LEMMA ClockTypes ==
    ASSUME IInv, \/ \E id \in DOMAIN records : BecomesDue(id)
                 \/ \E a \in Agents : DeadlinePasses(a)
    PROVE  IInv'
<1>1. ASSUME NEW id \in DOMAIN records, BecomesDue(id)
      PROVE  IInv'
  <2>1. Table' /\ DOMAIN records' = DOMAIN records
    BY <1>1 DEF BecomesDue, IInv, Table, RecordType
  <2> QED BY <1>1, <2>1 DEF BecomesDue, IInv, Histories, Inside, Holds, Exists
<1>2. ASSUME NEW a \in Agents, DeadlinePasses(a)
      PROVE  IInv'
  <2> DEFINE q == [proc[a] EXCEPT !.late = TRUE]
  <2>1. a \in Procs /\ proc[a] \in ProcType
    BY DEF Procs, IInv
  <2>2. /\ q \in ProcType /\ q.pc = proc[a].pc /\ q.id = proc[a].id
        /\ q.request = proc[a].request /\ q.verdict = proc[a].verdict
        /\ q.expire = proc[a].expire
    BY <2>1 DEF ProcType
  <2>3. proc' = [proc EXCEPT ![a] = q]
    BY <1>2, <2>1 DEF DeadlinePasses, IInv
  <2> HIDE DEF q
  <2>4. Holds(a, q) /\ Histories'
    BY <1>2, <2>1, <2>2 DEF DeadlinePasses, IInv, Inside, Holds, Histories
  <2> QED BY <1>2, <2>1, <2>2, <2>3, <2>4, Moves DEF DeadlinePasses
<1> QED BY <1>1, <1>2

LEMMA TypesStep ==
    ASSUME IInv, [Next]_vars
    PROVE  IInv'
<1>1. ASSUME NEW p \in Procs, Runs(p) \/ HumanAnswers(p) PROVE IInv'
  BY <1>1, StoreAssumption, GetTypes, DecideTypes, AgentTypes, HumanTypes, RequestTypes
     DEF Runs
<1>2. ASSUME NEW a \in Agents, Interrupt(a) \/ DeadlinePasses(a) PROVE IInv'
  BY <1>2, RequestTypes, ClockTypes
<1>3. ASSUME NEW h \in Approvers, OpenPage(h) PROVE IInv'
  BY <1>3, StoreAssumption, HumanTypes DEF Procs
<1>4. CASE UNCHANGED vars
  BY <1>4 DEF vars, IInv, Table, Histories, Inside, Holds, Exists
<1> QED BY <1>1, <1>2, <1>3, <1>4, ClockTypes DEF Next

LEMMA TypesHold == Spec => []IInv
BY InitTypes, TypesStep, PTL DEF Spec

\* The table and the methods in progress keep their types for any number of
\* threads, and a method only ever works on a record that exists.
THEOREM TypeCorrect == Spec => []TypeOK
<1>1. IInv => TypeOK
  BY DEF IInv, TypeOK, Table, Histories, RecordType, Statuses, ProcType, Places, Answers,
         Inside, Holds
<1> QED BY <1>1, TypesHold, PTL

(***************************************************************************)
(* The contract.  A record belongs to the request that wrote it last; each *)
(* request it was taken from before is shared, as is the one that took it. *)
(***************************************************************************)
Settled(id) == records[id].status # "pending"

\* A human agreed to this request or, when it is shared, to one about the same.
Agreeable(r) ==
    r \in agreed \/ (r \in shared /\ \E q \in agreed : TaskTool[q.agent] = TaskTool[r.agent])

\* A record is about what its request asks, and is approved only as its request
\* may be; once its graph has an answer it is settled.
Recorded ==
    \A id \in DOMAIN records :
        /\ id.of = TaskTool[records[id].request.agent]
        /\ id.suffix \in {NoRequest, records[id].request}
        /\ records[id].status = "approved" => Agreeable(records[id].request)
        /\ answer[records[id].request] # "none" => Settled(id)

\* The record in hand is still that of the request in hand, or both are shared.
InCommon(p) ==
    \/ records[proc[p].id].request = proc[p].request
    \/ {records[proc[p].id].request, proc[p].request} \subseteq shared

\* A thread in a method has one request without an answer.  Before the upsert no
\* record is its own, and none it will take over was settled for a graph that had
\* its answer at the look-up.
Asks(a) ==
    /\ \A r \in past[a] : answer[r] # "none"
    /\ proc[a].pc # "idle" =>
          /\ proc[a].request.agent = a /\ proc[a].id.of = TaskTool[a]
          /\ answer[proc[a].request] = "none"
          /\ \A id \in DOMAIN records : records[id].request = proc[a].request =>
                id = proc[a].id /\ proc[a].pc # "upserting"
    /\ proc[a].pc = "upserting" =>
          /\ proc[a].id.suffix \in {NoRequest, proc[a].request}
          /\ proc[a].id \in DOMAIN records => records[proc[a].id].request \notin past[a]
    /\ proc[a].pc \notin {"idle", "upserting"} => InCommon(a)
    /\ proc[a].pc = "decided" \/ (proc[a].pc = "gave_up" /\ ~proc[a].expire) =>
          (records[proc[a].id].request = proc[a].request => Settled(proc[a].id))

\* A human answers the request that was shown, about the task and tool of the
\* record the answer is written to.
Shown(p) ==
    /\ proc[p].pc \in {"asking", "deciding", "updating"} =>
          InCommon(p) /\ TaskTool[proc[p].request.agent] = proc[p].id.of
    /\ proc[p].pc \in {"deciding", "updating"} /\ proc[p].verdict = "approved" =>
          proc[p].request \in agreed

CInv ==
    /\ IInv /\ Recorded
    /\ \A a \in Agents : Asks(a)
    /\ \A p \in Procs : Shown(p)
    /\ \A r \in Requests : answer[r] # "none" => r \in asked

Only(p) == \A o \in Procs \ {p} : proc'[o] = proc[o]

\* What a step does to a record: it keeps its request and, once settled, stays so,
\* or the step upserts another request over it.
RecordKept(id) ==
    /\ id \in DOMAIN records' /\ records'[id].request = records[id].request
    /\ Settled(id) => Settled(id)'
TakenOver(p, id) ==
    /\ id \in DOMAIN records' /\ p \in Agents /\ proc[p].pc # "idle"
    /\ records'[id].request = proc[p].request
    /\ {records[id].request, proc[p].request} \subseteq shared'
RecordsKept == \A id \in DOMAIN records : RecordKept(id)

\* What the step of one process leaves to the others.
LEMMA OthersKeep ==
    ASSUME CInv, IInv', NEW p \in Procs, Only(p), Recorded',
           agreed \subseteq agreed', shared \subseteq shared',
           \A id \in DOMAIN records : RecordKept(id) \/ TakenOver(p, id),
           \A id \in DOMAIN records' \ DOMAIN records :
               p \in Agents /\ proc[p].pc # "idle" /\ records'[id].request = proc[p].request,
           \A r \in Requests : answer'[r] # answer[r] =>
               p \in Agents /\ proc[p].pc # "idle" /\ r = proc[p].request /\ answer'[r] # "none",
           \A a \in Agents \ {p} : past'[a] = past[a],
           p \in Agents => Asks(p)', Shown(p)',
           \A r \in Requests : answer'[r] # "none" => r \in asked'
    PROVE  CInv'
<1>0. IInv /\ (p \in Agents /\ proc[p].pc # "idle" =>
                  proc[p].request.agent = p /\ answer[proc[p].request] = "none")
  BY DEF CInv, Asks
<1>1. ASSUME NEW a \in Agents, a # p PROVE Asks(a)'
  <2>1. /\ a \in Procs /\ proc'[a] = proc[a] /\ Asks(a) /\ Inside(a) /\ past'[a] = past[a]
        /\ past[a] \subseteq Requests
    BY <1>1 DEF Procs, Only, CInv, IInv, Histories
  <2>2. \A r \in past'[a] : answer'[r] # "none"
    BY <2>1 DEF Asks
  <2> DEFINE r == proc[a].request
             id == proc[a].id
  <2>3. proc[a].pc # "idle" => /\ r \in Requests /\ r.agent = a /\ answer[r] = "none"
                               /\ answer'[r] = "none"
    BY <1>0, <1>1, <2>1 DEF Asks, Inside, Holds, IInv, Histories
  <2>4. proc[a].pc # "idle" =>
           \A i \in DOMAIN records' : records'[i].request = r =>
               /\ i \in DOMAIN records /\ RecordKept(i)
               /\ i = id /\ proc[a].pc # "upserting"
    BY <1>0, <1>1, <2>1, <2>3 DEF Asks, RecordKept, TakenOver
  <2>5. proc[a].pc = "upserting" /\ id \in DOMAIN records' => records'[id].request \notin past[a]
    <3>1. CASE id \in DOMAIN records /\ RecordKept(id)
      BY <2>1, <3>1 DEF Asks, RecordKept
    <3>2. CASE id \in DOMAIN records' /\ records'[id].request = proc[p].request
               /\ p \in Agents /\ proc[p].pc # "idle"
      BY <1>0, <2>1, <3>2 DEF Asks
    <3> QED BY <3>1, <3>2 DEF TakenOver
  <2>6. proc[a].pc \notin {"idle", "upserting"} => InCommon(a)'
    BY <2>1 DEF Asks, InCommon, RecordKept, TakenOver, Inside, Holds, Exists
  <2> HIDE DEF r, id
  <2>7. proc[a].pc = "decided" \/ (proc[a].pc = "gave_up" /\ ~proc[a].expire) =>
           (records'[id].request = r => Settled(id)')
    <3>1. proc[a].pc \in {"decided", "gave_up"} => id \in DOMAIN records
      BY <2>1 DEF Inside, Holds, Exists, id
    <3> QED BY <2>1, <2>4, <3>1 DEF Asks, RecordKept, TakenOver, r, id
  <2> QED BY <2>1, <2>2, <2>3, <2>4, <2>5, <2>6, <2>7 DEF Asks, Settled, r, id
<1>2. ASSUME NEW o \in Procs, o # p PROVE Shown(o)'
  <2>1. proc'[o] = proc[o] /\ Shown(o) /\ Inside(o)
    BY <1>2 DEF Only, CInv, IInv
  <2> QED BY <2>1 DEF Shown, InCommon, Inside, Holds, Exists, RecordKept, TakenOver
<1> QED BY <1>1, <1>2 DEF CInv

\* What a step has to show: the invariant, which records it may make pending
\* again, and a step of the contract.
Reopens ==
    \A id \in DOMAIN records : Settled(id) /\ ~Settled(id)' =>
        records[id].request \notin past[records'[id].request.agent]
Kept == CInv' /\ Reopens /\ [Contract!Next]_(Contract!vars)

LEMMA AgreeableIsAllowed ==
    ASSUME IInv, NEW r \in Requests, Agreeable(r)
    PROVE  Contract!MayApprove(r)
BY DEF Agreeable, Contract!MayApprove, IInv, Histories

LEMMA EnterFields ==
    ASSUME IInv, NEW p \in Procs, NEW where, Enter(p, where)
    PROVE  /\ proc'[p].pc = where /\ proc'[p].id = proc[p].id
           /\ proc'[p].request = proc[p].request /\ proc'[p].verdict = proc[p].verdict
           /\ proc'[p].expire = proc[p].expire /\ Only(p)
<1>1. proc[p] \in ProcType
  BY DEF IInv
<1> QED BY <1>1 DEF Enter, IInv, Only, ProcType

\* A step of one process that changes neither table nor histories.
LEMMA StepKept ==
    ASSUME CInv, IInv', NEW p \in Procs, Only(p), UNCHANGED <<records, histories, answer>>,
           p \in Agents => Asks(p)', Shown(p)'
    PROVE  Kept
<1>1. RecordsKept /\ Recorded' /\ Reopens
  BY DEF RecordsKept, RecordKept, Reopens, Settled, CInv, Recorded, Agreeable
<1>2. CInv'
  BY <1>1, OthersKeep DEF CInv, RecordsKept
<1> QED BY <1>1, <1>2 DEF Kept, Contract!vars

\* The answer of a graph: its own record is settled, and approved only as it may be.
LEMMA ResumeKept ==
    ASSUME CInv, IInv', NEW a \in Agents, proc[a].pc \notin {"idle", "upserting"},
           records[proc[a].id].request = proc[a].request => Settled(proc[a].id), Resume(a)
    PROVE  Kept
<1> DEFINE r == proc[a].request
<1>1. a \in Procs /\ IInv /\ Asks(a) /\ Inside(a)
  BY DEF Procs, CInv, IInv
<1>2. /\ proc'[a] = Idle /\ Only(a) /\ answer' = [answer EXCEPT ![r] = ResumeValue(Status(a))]
      /\ UNCHANGED <<records, histories>>
  BY <1>1 DEF Resume, IInv, Only
<1>3. r \in asked /\ r \in Requests /\ r.agent = a /\ answer[r] = "none"
  BY <1>1 DEF Asks, Inside, Holds, IInv, Histories
<1>4. /\ \A s \in Requests : s # r => answer'[s] = answer[s]
      /\ answer'[r] # "none"
  BY <1>2, <1>3 DEF IInv, Histories, ResumeValue
<1>5. RecordsKept /\ Reopens
  BY <1>2 DEF RecordsKept, RecordKept, Reopens, Settled
<1>6. Recorded'
  <2>1. ASSUME NEW id \in DOMAIN records, answer'[records[id].request] # "none" PROVE Settled(id)
    <3>1. records[id].request \in Requests
      BY <1>1 DEF IInv, Table, RecordType
    <3>2. CASE records[id].request = r
      BY <1>1, <3>2 DEF Asks
    <3>3. CASE records[id].request # r
      BY <1>4, <2>1, <3>1, <3>3 DEF CInv, Recorded
    <3> QED BY <3>2, <3>3
  <2> QED BY <1>2, <2>1 DEF CInv, Recorded, Agreeable, Settled
<1>7. Asks(a)' /\ Shown(a)'
  <2>1. \A q \in past'[a] : answer'[q] # "none"
    BY <1>1, <1>2, <1>4 DEF Asks, IInv, Histories
  <2> QED BY <1>2, <2>1, IdleType DEF Asks, Shown, Idle
<1>8. CInv'
  <2>1. \A s \in Requests : answer'[s] # "none" => s \in asked'
    BY <1>2, <1>3, <1>4 DEF CInv
  <2>2. \A s \in Requests : answer'[s] # answer[s] => s = r /\ answer'[s] # "none"
    BY <1>4
  <2> HIDE DEF r
  <2> QED BY <1>1, <1>2, <1>5, <1>6, <1>7, <2>1, <2>2, OthersKeep DEF RecordsKept, r
<1>9. Contract!Resume(r)
  <2>1. ASSUME Status(a) = "approved" PROVE Contract!MayApprove(r)
    <3>1. /\ proc[a].id \in DOMAIN records /\ Agreeable(records[proc[a].id].request)
          /\ proc[a].id.of = TaskTool[records[proc[a].id].request.agent]
          /\ proc[a].id.of = TaskTool[r.agent] /\ InCommon(a)
      BY <1>1, <1>3, <2>1, InHand DEF CInv, Recorded, Status, Asks
    <3>2. Agreeable(r)
      BY <3>1 DEF InCommon, Agreeable
    <3> QED BY <1>1, <1>3, <3>2, AgreeableIsAllowed
  <2> QED BY <1>2, <1>3, <2>1 DEF Contract!Resume, ResumeValue
<1> QED BY <1>3, <1>5, <1>8, <1>9 DEF Kept, Contract!Next

LEMMA ReturnKept ==
    ASSUME CInv, IInv', NEW p \in Procs, proc[p].pc \notin {"idle", "upserting"},
           p \in Agents =>
               (records[proc[p].id].request = proc[p].request => Settled(proc[p].id)),
           Returns(p)
    PROVE  Kept
<1>1. CASE p \in Agents
  BY <1>1, ResumeKept DEF Returns
<1>2. CASE p \notin Agents
  <2>1. proc'[p] = Idle /\ Only(p)
    BY <1>2 DEF Returns, CInv, IInv, Only
  <2> QED BY <1>2, <2>1, IdleType, StepKept DEF Returns, Shown
<1> QED BY <1>1, <1>2

\* A step that only settles a record, or lets it become due.
LEMMA SettleKept ==
    ASSUME CInv, IInv', NEW p \in Procs, Only(p), RecordsKept,
           DOMAIN records' = DOMAIN records, UNCHANGED <<histories, answer>>,
           \A id \in DOMAIN records :
               records'[id].status = "approved" => Agreeable(records[id].request),
           p \in Agents => Asks(p)', Shown(p)'
    PROVE  Kept
<1>1. Recorded' /\ Reopens
  BY DEF Recorded, RecordsKept, RecordKept, CInv, Settled, Agreeable, Reopens
<1>2. CInv'
  BY <1>1, OthersKeep DEF CInv, RecordsKept
<1> QED BY <1>1, <1>2 DEF Kept, Contract!vars

LEMMA ExpiresFields ==
    ASSUME IInv, NEW p \in Procs, NEW value \in BOOLEAN, Expires(p, value)
    PROVE  /\ proc'[p].pc = proc[p].pc /\ proc'[p].id = proc[p].id
           /\ proc'[p].request = proc[p].request /\ proc'[p].verdict = proc[p].verdict
           /\ proc'[p].expire = value /\ Only(p)
<1>1. proc[p] \in ProcType
  BY DEF IInv
<1> QED BY <1>1 DEF Expires, IInv, Only, ProcType

LEMMA GetKept ==
    ASSUME CInv, IInv', NEW p \in Procs, GetFindsExpired(p) \/ MarkExpired(p)
    PROVE  Kept
<1>0. proc[p] \in ProcType /\ IInv /\ Shown(p) /\ (p \in Agents => Asks(p))
  BY DEF CInv, IInv
<1>2. CASE GetFindsExpired(p)
  <2>1. UNCHANGED <<records, histories, answer>> /\ Expires(p, TRUE)
    BY <1>2 DEF GetFindsExpired
  <2>2. /\ proc'[p].pc = proc[p].pc /\ proc'[p].id = proc[p].id
        /\ proc'[p].request = proc[p].request /\ proc'[p].verdict = proc[p].verdict
        /\ proc'[p].expire /\ Only(p)
    BY <1>0, <2>1, ExpiresFields
  <2>3. Shown(p)' /\ (p \in Agents => Asks(p)')
    BY <1>0, <2>1, <2>2 DEF Shown, Asks, InCommon, Settled
  <2> QED BY <2>1, <2>2, <2>3, StepKept
<1>3. CASE MarkExpired(p)
  <2>1. UNCHANGED <<histories, answer>> /\ Expires(p, FALSE) /\ proc[p].pc \in Reading
    BY <1>0, <1>3 DEF MarkExpired, IInv, Inside, Holds
  <2>2. proc[p].id \in DOMAIN records /\ records[proc[p].id] \in RecordType
    BY <1>0, <2>1, InHand DEF Reading
  <2>3. /\ DOMAIN records' = DOMAIN records /\ Settled(proc[p].id)'
        /\ \A id \in DOMAIN records :
              /\ records'[id].request = records[id].request
              /\ \/ records'[id].status = records[id].status
                 \/ ~Settled(id) /\ records'[id].status = "expired"
    <3>1. DOMAIN records' = DOMAIN records
      BY <1>3 DEF MarkExpired
    <3>2. proc'[p].id = proc[p].id
      BY <1>0, <2>1, ExpiresFields
    <3>3. CASE records[proc[p].id].status = "pending"
      BY <1>0, <1>3, <2>2, <3>1, <3>2, <3>3 DEF MarkExpired, IInv, Table, RecordType, Settled
    <3>4. CASE records[proc[p].id].status # "pending"
      BY <1>3, <3>1, <3>2, <3>4 DEF MarkExpired, Settled
    <3> QED BY <3>3, <3>4
  <2>4. RecordsKept
    BY <2>3 DEF RecordsKept, RecordKept, Settled
  <2>5. /\ proc'[p].pc = proc[p].pc /\ proc'[p].id = proc[p].id
        /\ proc'[p].request = proc[p].request /\ proc'[p].verdict = proc[p].verdict
        /\ Only(p)
    BY <1>0, <2>1, ExpiresFields
  <2>6. Shown(p)'
    BY <1>0, <2>1, <2>2, <2>3, <2>5 DEF Shown, InCommon, Reading
  <2>7. p \in Agents => Asks(p)'
    BY <1>0, <2>1, <2>2, <2>3, <2>5 DEF Asks, InCommon, Settled, Reading
  <2>8. \A id \in DOMAIN records :
            records'[id].status = "approved" => Agreeable(records[id].request)
    BY <2>3 DEF CInv, Recorded
  <2> QED BY <2>1, <2>3, <2>4, <2>5, <2>6, <2>7, <2>8, SettleKept
<1> QED BY <1>2, <1>3

LEMMA AgentKept ==
    ASSUME CInv, IInv', NEW a \in Agents,
           Created(a) \/ WaitLoop(a) \/ Poll(a) \/ GiveUp(a)
    PROVE  Kept
<1>0. a \in Procs /\ proc[a] \in ProcType /\ IInv /\ Shown(a) /\ Asks(a)
  BY DEF Procs, CInv, IInv
<1>1. ASSUME NEW where \in {"waiting", "polling", "asking"}, Enter(a, where),
             proc[a].pc \in {"created", "waiting", "polling"},
             UNCHANGED <<records, histories, answer>>
      PROVE  Kept
  <2>1. /\ proc'[a].pc = where /\ proc'[a].id = proc[a].id
        /\ proc'[a].request = proc[a].request /\ proc'[a].verdict = proc[a].verdict
        /\ Only(a)
    BY <1>0, <1>1, EnterFields
  <2>2. Asks(a)' /\ Shown(a)'
    BY <1>0, <1>1, <2>1 DEF Asks, Shown, InCommon, Settled
  <2> QED BY <1>0, <1>1, <2>1, <2>2, StepKept
<1>2. CASE Created(a)
  BY <1>1, <1>2 DEF Created, Gets, At
<1>3. CASE WaitLoop(a)
  <2>1. CASE proc[a].late
    <3>1. /\ proc'[a].pc = "gave_up" /\ proc'[a].id = proc[a].id /\ proc'[a].expire
          /\ proc'[a].request = proc[a].request /\ Only(a)
      BY <1>0, <1>3, <2>1 DEF WaitLoop, IInv, Only, ProcType
    <3>2. Asks(a)' /\ Shown(a)'
      <4>1. UNCHANGED <<records, histories, answer>> /\ proc[a].pc = "waiting"
        BY <1>3 DEF WaitLoop, At
      <4> QED BY <1>0, <3>1, <4>1 DEF Asks, Shown, InCommon
    <3> QED BY <1>0, <1>3, <3>1, <3>2, StepKept DEF WaitLoop
  <2>2. CASE ~proc[a].late
    BY <1>1, <1>3, <2>2 DEF WaitLoop, At, Enter
  <2> QED BY <2>1, <2>2
<1>4. CASE Poll(a)
  <2>1. CASE Status(a) = "pending"
    BY <1>1, <1>4, <2>1 DEF Poll, Gets, At
  <2>2. CASE Status(a) # "pending"
    BY <1>4, <2>2, ResumeKept DEF Poll, Gets, At, Status, Settled
  <2> QED BY <2>1, <2>2
<1>5. CASE GiveUp(a)
  BY <1>0, <1>5, ResumeKept DEF GiveUp, Gets, At, Asks
<1> QED BY <1>2, <1>3, <1>4, <1>5

LEMMA PageKept ==
    ASSUME CInv, IInv', NEW p \in Procs \ Agents, OpenPage(p) \/ View(p)
    PROVE  Kept
<1>0. proc[p] \in ProcType /\ IInv /\ Shown(p)
  BY DEF CInv, IInv
<1>1. CASE OpenPage(p)
  <2>1. proc'[p].pc = "viewing" /\ Only(p)
    BY <1>0, <1>1 DEF OpenPage, IInv, Only, ProcType
  <2> QED BY <1>1, <2>1, StepKept DEF OpenPage, Shown
<1>2. CASE View(p)
  <2>1. /\ proc'[p].pc = "asking" /\ proc'[p].id = proc[p].id
        /\ proc'[p].request = records[proc[p].id].request /\ Only(p)
    BY <1>0, <1>2 DEF View, IInv, Only, ProcType
  <2>2. proc[p].id \in DOMAIN records
    BY <1>0, <1>2, InHand DEF View, Gets, At
  <2>3. Shown(p)'
    BY <1>2, <2>1, <2>2 DEF View, Shown, InCommon, CInv, Recorded
  <2> QED BY <1>2, <2>1, <2>3, StepKept DEF View
<1> QED BY <1>1, <1>2

LEMMA AnswerKept ==
    ASSUME CInv, IInv', NEW p \in Procs, HumanAnswers(p)
    PROVE  Kept
<1>0. /\ proc[p] \in ProcType /\ IInv /\ Shown(p) /\ (p \in Agents => Asks(p))
      /\ proc[p].pc = "asking" /\ proc[p].request \in asked /\ proc[p].request \in Requests
  BY DEF CInv, IInv, HumanAnswers, At, Inside, Holds, Histories
<1>1. PICK verdict \in {"approved", "denied"} :
          /\ proc' = [proc EXCEPT ![p].pc = "deciding", ![p].verdict = verdict]
          /\ agreed' = agreed \cup (IF verdict = "approved" THEN {proc[p].request} ELSE {})
  BY DEF HumanAnswers
<1>2. /\ proc'[p].pc = "deciding" /\ proc'[p].id = proc[p].id
      /\ proc'[p].request = proc[p].request /\ proc'[p].verdict = verdict /\ Only(p)
  BY <1>0, <1>1 DEF IInv, Only, ProcType
<1>3. /\ UNCHANGED <<records, asked, past, shared, answer>> /\ agreed \subseteq agreed'
      /\ verdict = "approved" => agreed' = agreed \cup {proc[p].request}
      /\ verdict = "denied" => agreed' = agreed
  BY <1>1 DEF HumanAnswers
<1>4. RecordsKept /\ Reopens /\ Recorded'
  BY <1>3 DEF RecordsKept, RecordKept, Reopens, Settled, CInv, Recorded, Agreeable
<1>5. Shown(p)' /\ (p \in Agents => Asks(p)')
  BY <1>0, <1>2, <1>3 DEF Shown, Asks, InCommon, Settled
<1>6. CInv'
  BY <1>2, <1>3, <1>4, <1>5, OthersKeep DEF CInv, RecordsKept
<1>7. Contract!Agree(proc[p].request) \/ UNCHANGED <<histories, answer>>
  BY <1>0, <1>3 DEF Contract!Agree
<1> QED BY <1>0, <1>4, <1>6, <1>7 DEF Kept, Contract!Next, Contract!vars

LEMMA DecideKept ==
    ASSUME CInv, IInv', NEW p \in Procs,
           DecideLooks(p) \/ DecideUpdates(p) \/ DecideReturns(p)
    PROVE  Kept
<1>0. /\ proc[p] \in ProcType /\ IInv /\ Shown(p) /\ (p \in Agents => Asks(p)) /\ Inside(p)
  BY DEF CInv, IInv
<1>1. CASE DecideLooks(p)
  <2>1. proc[p].pc = "deciding"
    BY <1>1 DEF DecideLooks, Gets, At
  <2>2. CASE Status(p) = "pending"
    <3>1. /\ proc'[p].pc = "updating" /\ proc'[p].id = proc[p].id
          /\ proc'[p].request = proc[p].request /\ proc'[p].verdict = proc[p].verdict
          /\ Only(p) /\ UNCHANGED <<records, histories, answer>>
      BY <1>0, <1>1, <2>2, EnterFields DEF DecideLooks
    <3>2. Shown(p)' /\ (p \in Agents => Asks(p)')
      BY <1>0, <2>1, <3>1 DEF Shown, Asks, InCommon, Settled
    <3> QED BY <3>1, <3>2, StepKept
  <2>3. CASE Status(p) # "pending"
    BY <1>1, <2>1, <2>3, ReturnKept DEF DecideLooks, Status, Settled
  <2> QED BY <2>2, <2>3
<1>2. CASE DecideUpdates(p)
  <2>1. /\ proc[p].pc = "updating" /\ ~proc[p].expire /\ Enter(p, "decided")
        /\ UNCHANGED <<histories, answer>>
    BY <1>2 DEF DecideUpdates, At
  <2>2. /\ proc'[p].pc = "decided" /\ proc'[p].id = proc[p].id
        /\ proc'[p].request = proc[p].request /\ Only(p)
    BY <1>0, <2>1, EnterFields
  <2>3. /\ proc[p].id \in DOMAIN records /\ records[proc[p].id] \in RecordType
        /\ proc[p].verdict \in {"approved", "denied"}
    BY <1>0, <2>1, InHand DEF Inside, Holds, ProcType
  <2>4. /\ DOMAIN records' = DOMAIN records /\ Settled(proc[p].id)'
        /\ records'[proc[p].id].status = proc[p].verdict
        /\ \A id \in DOMAIN records :
              /\ records'[id].request = records[id].request
              /\ id # proc[p].id => records'[id].status = records[id].status
    BY <1>0, <1>2, <2>2, <2>3 DEF DecideUpdates, IInv, Table, RecordType, Settled
  <2>5. RecordsKept
    BY <2>2, <2>4 DEF RecordsKept, RecordKept, Settled
  <2>6. Shown(p)'
    BY <2>2 DEF Shown
  <2>7. p \in Agents => Asks(p)'
    BY <1>0, <2>1, <2>2, <2>3, <2>4 DEF Asks, InCommon, Settled
  <2>8. \A id \in DOMAIN records :
            records'[id].status = "approved" => Agreeable(records[id].request)
    BY <1>0, <2>1, <2>3, <2>4 DEF CInv, Recorded, Shown, InCommon, Agreeable
  <2> QED BY <2>1, <2>2, <2>4, <2>5, <2>6, <2>7, <2>8, SettleKept
<1>3. CASE DecideReturns(p)
  BY <1>0, <1>3, ReturnKept DEF DecideReturns, Gets, At, Asks
<1> QED BY <1>1, <1>2, <1>3

LEMMA InterruptKept ==
    ASSUME CInv, IInv', NEW a \in Agents, Interrupt(a)
    PROVE  Kept
<1>0. a \in Procs /\ proc[a] \in ProcType /\ IInv /\ Asks(a) /\ proc[a].pc = "idle"
  BY DEF Procs, CInv, IInv, Interrupt, At
<1>1. PICK r \in Requests :
          /\ r.agent = a /\ r \notin asked /\ asked' = asked \cup {r}
          /\ proc' = [proc EXCEPT ![a] = [Idle EXCEPT !.pc = "upserting", !.request = r,
                                                      !.id = RequestId(a, r)]]
          /\ past' = [past EXCEPT ![a] = {q \in Requests : answer[q] # "none"}]
  BY DEF Interrupt
<1>2. UNCHANGED <<records, agreed, shared, answer>>
  BY DEF Interrupt
<1>3. /\ proc'[a].pc = "upserting" /\ proc'[a].request = r /\ proc'[a].id = RequestId(a, r)
      /\ Only(a)
  BY <1>0, <1>1 DEF IInv, Only, Idle
<1>4. /\ past'[a] = {q \in Requests : answer[q] # "none"}
      /\ \A b \in Agents \ {a} : past'[b] = past[b]
  BY <1>0, <1>1 DEF IInv, Histories
<1>5. \A id \in DOMAIN records : records[id].request # r
  BY <1>0, <1>1 DEF IInv, Table
<1>6. /\ RequestId(a, r).of = TaskTool[a] /\ RequestId(a, r).suffix \in {NoRequest, r}
      /\ RequestId(a, r) \in DOMAIN records =>
            answer[records[RequestId(a, r)].request] = "none"
  <2>1. StableId(a).of = TaskTool[a] /\ StableId(a).suffix = NoRequest /\ r # NoRequest
    BY StoreAssumption DEF StableId, Requests, NoRequest
  <2>2. CASE RequestId(a, r) = StableId(a)
    <3>1. RequestId(a, r) # [of |-> TaskTool[a], suffix |-> r]
      BY <2>1, <2>2
    <3>2. StableId(a) \in DOMAIN records => ~Settled(StableId(a))
      BY <3>1 DEF RequestId, Exists, Settled
    <3> QED BY <2>1, <2>2, <3>2 DEF CInv, Recorded
  <2>3. CASE RequestId(a, r) = [of |-> TaskTool[a], suffix |-> r]
    <3>1. \A id \in DOMAIN records : id.suffix # r
      BY <1>5, <2>1 DEF CInv, Recorded
    <3> QED BY <2>3, <3>1
  <2> QED BY <2>2, <2>3 DEF RequestId, StableId
<1>7. RecordsKept /\ Reopens /\ Recorded'
  BY <1>2 DEF RecordsKept, RecordKept, Reopens, Settled, CInv, Recorded, Agreeable
<1>8. Shown(a)'
  BY <1>3 DEF Shown
<1>9. answer[r] = "none"
  BY <1>1 DEF CInv
<1>10. Asks(a)'
  BY <1>1, <1>2, <1>3, <1>4, <1>5, <1>6, <1>9 DEF Asks
<1>11. CInv'
  BY <1>0, <1>1, <1>2, <1>3, <1>4, <1>7, <1>8, <1>10, OthersKeep DEF CInv, RecordsKept
<1>12. Contract!Ask(r)
  BY <1>1, <1>2 DEF Contract!Ask
<1> QED BY <1>7, <1>11, <1>12 DEF Kept, Contract!Next

LEMMA UpsertKept ==
    ASSUME CInv, IInv', NEW a \in Agents, Upsert(a)
    PROVE  Kept
<1>0. /\ a \in Procs /\ proc[a] \in ProcType /\ IInv /\ Asks(a) /\ Inside(a)
      /\ proc[a].pc = "upserting" /\ Enter(a, "created")
  BY DEF Procs, CInv, IInv, Upsert, At
<1> DEFINE r == proc[a].request
           at == proc[a].id
<1>1. /\ proc'[a].pc = "created" /\ proc'[a].id = at /\ proc'[a].request = r /\ Only(a)
  BY <1>0, EnterFields
<1>2. /\ DOMAIN records' = DOMAIN records \cup {at} /\ UNCHANGED <<asked, agreed, answer>>
      /\ records'[at].request = r /\ records'[at].status = "pending"
      /\ \A id \in DOMAIN records : id # at => records'[id] = records[id]
  BY DEF Upsert
<1>3. past'[a] = {} /\ \A b \in Agents \ {a} : past'[b] = past[b]
  BY <1>0 DEF Upsert, IInv, Histories
<1>4. /\ at.of = TaskTool[a] /\ r.agent = a /\ at.suffix \in {NoRequest, r}
      /\ r \in asked /\ r \in Requests /\ answer[r] = "none"
      /\ \A id \in DOMAIN records : records[id].request # r
      /\ at \in DOMAIN records => records[at].request \notin past[a]
  BY <1>0 DEF Asks, Inside, Holds, IInv, Histories
<1>5. /\ shared \subseteq shared'
      /\ at \in DOMAIN records => shared' = shared \cup {records[at].request, r}
      /\ at \notin DOMAIN records => shared' = shared
  BY DEF Upsert, Exists
<1> HIDE DEF r, at
<1>6. \A id \in DOMAIN records : RecordKept(id) \/ TakenOver(a, id)
  BY <1>0, <1>2, <1>5 DEF RecordKept, TakenOver, Settled, r
<1>7. Recorded'
  BY <1>2, <1>4, <1>5 DEF CInv, Recorded, Agreeable, Settled
<1>8. Reopens
  BY <1>2, <1>4 DEF Reopens, Settled
<1>9. Shown(a)' /\ Asks(a)'
  BY <1>1, <1>2, <1>3, <1>4 DEF Shown, Asks, InCommon
<1>10. CInv'
  <2>1. \A id \in DOMAIN records' \ DOMAIN records : records'[id].request = proc[a].request
    BY <1>2 DEF r
  <2> QED BY <1>0, <1>1, <1>2, <1>3, <1>5, <1>6, <1>7, <1>9, <2>1, OthersKeep DEF CInv
<1>11. [Contract!Next]_(Contract!vars)
  <2>1. CASE at \in DOMAIN records
    <3>1. /\ records[at].request \in asked /\ records[at].request \in Requests
          /\ TaskTool[records[at].request.agent] = TaskTool[r.agent]
      BY <1>0, <1>4, <2>1 DEF IInv, Table, Histories, CInv, Recorded
    <3>2. Contract!Share(r, records[at].request)
      BY <1>2, <1>4, <1>5, <2>1, <3>1 DEF Contract!Share
    <3> QED BY <1>4, <3>1, <3>2 DEF Contract!Next
  <2>2. CASE at \notin DOMAIN records
    BY <1>2, <1>5, <2>2 DEF Contract!vars
  <2> QED BY <2>1, <2>2
<1> QED BY <1>8, <1>10, <1>11 DEF Kept

LEMMA ClockKept ==
    ASSUME CInv, IInv', \/ \E id \in DOMAIN records : BecomesDue(id)
                       \/ \E a \in Agents : DeadlinePasses(a)
    PROVE  Kept
<1>0. IInv
  BY DEF CInv
<1>1. ASSUME NEW id \in DOMAIN records, BecomesDue(id)
      PROVE  Kept
  <2>1. /\ DOMAIN records' = DOMAIN records /\ UNCHANGED <<proc, histories, answer>>
        /\ \A i \in DOMAIN records :
              records'[i].request = records[i].request /\ records'[i].status = records[i].status
    BY <1>0, <1>1 DEF BecomesDue, IInv, Table, RecordType
  <2>2. Reopens /\ Recorded'
    BY <2>1 DEF Reopens, Settled, CInv, Recorded, Agreeable
  <2>3. \A p \in Procs : Shown(p)'
    BY <1>0, <2>1 DEF Shown, InCommon, CInv, IInv, Inside, Holds, Exists
  <2>4. ASSUME NEW a \in Agents PROVE Asks(a)'
    <3>1. Asks(a) /\ Inside(a)
      BY DEF CInv, IInv, Procs
    <3> QED BY <2>1, <3>1 DEF Asks, InCommon, Settled, Inside, Holds, Exists
  <2> QED BY <2>1, <2>2, <2>3, <2>4 DEF Kept, CInv, Contract!vars
<1>2. ASSUME NEW a \in Agents, DeadlinePasses(a)
      PROVE  Kept
  <2>1. a \in Procs /\ proc[a] \in ProcType /\ Asks(a) /\ Shown(a)
    BY DEF Procs, CInv, IInv
  <2>2. /\ proc'[a].pc = proc[a].pc /\ proc'[a].id = proc[a].id
        /\ proc'[a].request = proc[a].request /\ proc'[a].verdict = proc[a].verdict
        /\ proc'[a].expire = proc[a].expire /\ Only(a)
        /\ UNCHANGED <<records, histories, answer>>
    BY <1>0, <1>2, <2>1 DEF DeadlinePasses, IInv, Only, ProcType
  <2>3. Asks(a)' /\ Shown(a)'
    BY <2>1, <2>2 DEF Asks, Shown, InCommon, Settled
  <2> QED BY <2>1, <2>2, <2>3, StepKept
<1> QED BY <1>1, <1>2

LEMMA StartKept == Init => CInv /\ Contract!Init
<1> SUFFICES ASSUME Init PROVE CInv /\ Contract!Init
  OBVIOUS
<1>1. IInv
  BY InitTypes
<1>2. \A p \in Procs : proc[p].pc = "idle"
  BY IdleType DEF Init
<1>3. DOMAIN records = {} /\ \A a \in Agents : past[a] = {}
  BY DEF Init
<1>4. (\A a \in Agents : Asks(a)) /\ (\A p \in Procs : Shown(p)) /\ Recorded
  BY <1>2, <1>3 DEF Asks, Shown, Recorded, Procs
<1> QED BY <1>1, <1>4 DEF Init, CInv, Contract!Init

LEMMA NextKept ==
    ASSUME CInv, [Next]_vars
    PROVE  Kept
<1>0. IInv'
  BY TypesStep DEF CInv
<1>1. ASSUME NEW p \in Procs, Runs(p) \/ HumanAnswers(p) PROVE Kept
  BY <1>0, <1>1, StoreAssumption, GetKept, DecideKept, AgentKept, PageKept, AnswerKept,
     UpsertKept DEF Runs
<1>2. ASSUME NEW a \in Agents, Interrupt(a) \/ DeadlinePasses(a) PROVE Kept
  BY <1>0, <1>2, InterruptKept, ClockKept
<1>3. ASSUME NEW h \in Approvers, OpenPage(h) PROVE Kept
  BY <1>0, <1>3, StoreAssumption, PageKept DEF Procs
<1>4. CASE UNCHANGED vars
  BY <1>0, <1>4 DEF vars, Kept, CInv, Recorded, Agreeable, Asks, Shown, InCommon, Reopens, Settled,
                    Contract!vars
<1> QED BY <1>0, <1>1, <1>2, <1>3, <1>4, ClockKept DEF Next

\* A settled record is made pending again only by a request raised before the graph
\* it was settled for got its answer, whatever threads and approvers interleave and
\* however many of them ask about the same task and tool.
THEOREM SettledStays == Spec => SettledStaysSettled
<1>1. ASSUME CInv, [Next]_vars
      PROVE  /\ CInv'
             /\ \A id \in DOMAIN records :
                   records[id].status # "pending" /\ records'[id].status = "pending" =>
                      records[id].request \notin past[records'[id].request.agent]
  BY <1>1, NextKept DEF Kept, Reopens, Settled
<1> QED BY <1>1, StartKept, PTL DEF Spec, SettledStaysSettled

\* Every step of the store, its server and the CLI is a step the contract allows: a
\* graph resumes once with an answer, and with "approved" only after a human who
\* was shown its request, or one it came to share a record with, agreed to it.
THEOREM StepsOfTheContract == Spec => Contract!Init /\ [][Contract!Next]_(Contract!vars)
<1>1. ASSUME CInv, [Next]_vars
      PROVE  CInv' /\ [Contract!Next]_(Contract!vars)
  BY <1>1, NextKept DEF Kept
<1> QED BY <1>1, StartKept, PTL DEF Spec
=============================================================================
