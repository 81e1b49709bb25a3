-------------------------- MODULE CallServiceSafety --------------------------
(***************************************************************************)
(* Safety of CallService: one dial and one acting agent per call whatever  *)
(* crashes, and no call that its jobs leave open when they end.            *)
(***************************************************************************)
EXTENDS CallServiceProofs

USE DEF failures

\* Statuses before the dial; nothing leads back into them.
Early == Waiting \cup {Absent, "prewarming"}

\* Where the status of a call can have come from.
LEMMA Backwards ==
  ASSUME TypeOK, RowInv, [Next]_vars, NEW c \in Call
  PROVE  /\ status'[c] = Absent => status[c] = Absent
         /\ status'[c] = "created" => status[c] \in {Absent, "created"}
         /\ status'[c] = "validating" => status[c] \in {"created", "validating"}
         /\ status'[c] = "queued" => status[c] \in {"validating", "queued"}
         /\ status'[c] = "prewarming" => status[c] \in {"queued", "prewarming"}
         /\ status'[c] \in NonTerminal => status[c] \in NonTerminal \cup {Absent}
<1> status \in [Call -> Lifecycle!CallStatus \cup {Absent}]
  BY DEF TypeOK
<1> USE StatusFacts
<1>1. CASE status' = status
  BY <1>1
<1>2. ASSUME NEW d \in Call, Lifecycle!Create(d)
      PROVE  status[d] = Absent /\ status' = [status EXCEPT ![d] = "created"]
  BY <1>2 DEF Lifecycle!Create, Absent
<1>3. ASSUME NEW d \in Call, Lifecycle!Move(d)
      PROVE  \E s \in Lifecycle!Transitions[status[d]] :
               status[d] \in Lifecycle!CallStatus /\ status' = [status EXCEPT ![d] = s]
  BY <1>3 DEF Lifecycle!Move
<1>4. ASSUME NEW s \in Lifecycle!CallStatus, NEW t \in Lifecycle!Transitions[s]
      PROVE  /\ t \in Lifecycle!CallStatus \ {"created"}
             /\ t = "validating" => s = "created"
             /\ t = "queued" => s = "validating"
             /\ t = "prewarming" => s = "queued"
             /\ s \in NonTerminal
  BY <1>4 DEF Lifecycle!Transitions, Lifecycle!Abort
<1>5. CASE Lifecycle!Next
  <2>1. PICK d \in Call : Lifecycle!Create(d) \/ Lifecycle!Move(d)
    BY <1>5 DEF Lifecycle!Next
  <2>2. CASE d # c
    BY <2>1, <2>2, <1>2, <1>3
  <2>3. CASE d = c /\ Lifecycle!Create(d)
    BY <2>3, <1>2
  <2>4. CASE d = c /\ Lifecycle!Move(d)
    <3>1. PICK s \in Lifecycle!Transitions[status[c]] :
            status[c] \in Lifecycle!CallStatus /\ status' = [status EXCEPT ![c] = s]
      BY <2>4, <1>3
    <3>2. status'[c] = s
      BY <3>1
    <3> QED BY <3>1, <3>2, <1>4
  <2> QED BY <2>1, <2>2, <2>3, <2>4
<1>6. QED
  BY <1>1, <1>5, LegalNext

-----------------------------------------------------------------------------
(* One dial per call: the dial follows the step from PREWARMING to         *)
(* DIALING, which a call takes once.                                       *)

DialInv ==
  \A c \in Call : dials[c] <= 1 /\ (status[c] \in Early => dials[c] = 0)

\* Only Dial calls create_sip_participant.
LEMMA DialStep ==
  ASSUME TypeOK, [Next]_vars
  PROVE  \/ dials' = dials
         \/ \E j \in Job : /\ status[j[1]] = "prewarming"
                           /\ status' = [status EXCEPT ![j[1]] = "dialing"]
                           /\ dials' = [dials EXCEPT ![j[1]] = @ + 1]
<1>1. ASSUME NEW j \in Job, Dial(j)
      PROVE  \/ dials' = dials
             \/ /\ status[j[1]] = "prewarming"
                /\ status' = [status EXCEPT ![j[1]] = "dialing"]
                /\ dials' = [dials EXCEPT ![j[1]] = @ + 1]
  BY <1>1 DEF Dial, Advance, Update, Goto, TypeOK
<1>2. ASSUME NEW j \in Job, HandleCall(j) \/ Conversation(j) \/ WorkerFault(j), ~Dial(j)
      PROVE  dials' = dials
  BY <1>2 DEF HandleCall, Conversation, WorkerFault, Fetch, Prewarm,
     MarkRinging, AwaitDial, FailDial, Connect, AcceptInbound, ConnectInbound, Activate,
     HangUpParticipant, Disconnected, WatchdogFail, Report, Complete, Finalize,
     HandlerRead, HandlerFail, RequestInput, Finish, WatchdogReport, WatchdogRead
<1>3. ASSUME NEW p \in Proc, DispatchQueued(p) \/ Crash(p)
      PROVE  dials' = dials
  BY <1>3 DEF DispatchQueued, CountDispatched, ListQueued, Dispatch, DispatchFails,
     RecordDispatch, RecordRefusal, Crash, livekit
<1>4. ASSUME NEW c \in Call, \/ CancelCall(c) \/ Phone(c) \/ RoomExpires(c)
                             \/ InputAnswered(c) \/ Ring(c)
      PROVE  dials' = dials
  BY <1>4 DEF CancelCall, CancelRead, CancelDelete, CancelDeleteFails, CancelUpdate,
     Phone, Answer, Refuse, HangUp, RoomExpires, InputAnswered, Ring, livekit
<1>5. ASSUME NEW c \in Outbound, CreateCall(c)
      PROVE  dials' = dials
  BY <1>5 DEF CreateCall, Insert, Validate, Queue, transition, livekit
<1>6. ASSUME NEW j \in Job, Redeliver(j) \/ WorkerCrash(j)
      PROVE  dials' = dials
  BY <1>6 DEF Redeliver, WorkerCrash, livekit
<1>7. CASE UNCHANGED vars
  BY <1>7 DEF vars
<1>8. QED
  BY <1>1, <1>2, <1>3, <1>4, <1>5, <1>6, <1>7, Constants DEF Next, Call

LEMMA DialNext == TypeOK /\ RowInv /\ DialInv /\ [Next]_vars => DialInv'
<1> SUFFICES ASSUME TypeOK, RowInv, DialInv, [Next]_vars, NEW c \in Call
             PROVE  dials'[c] <= 1 /\ (status'[c] \in Early => dials'[c] = 0)
  BY DEF DialInv
<1>1. status'[c] \in Early => status[c] \in Early
  BY Backwards DEF Early, Waiting
<1>2. dials \in [Call -> Nat] /\ status \in [Call -> Lifecycle!CallStatus \cup {Absent}]
  BY DEF TypeOK
<1>3. CASE dials' = dials
  BY <1>1, <1>3 DEF DialInv
<1>4. ASSUME NEW j \in Job, status[j[1]] = "prewarming",
             status' = [status EXCEPT ![j[1]] = "dialing"],
             dials' = [dials EXCEPT ![j[1]] = @ + 1]
      PROVE  dials'[c] <= 1 /\ (status'[c] \in Early => dials'[c] = 0)
  <2>1. CASE j[1] = c
    <3>1. dials[c] = 0
      BY <1>4, <2>1 DEF DialInv, Early
    <3>2. status'[c] = "dialing" /\ dials'[c] = 1
      BY <1>2, <1>4, <2>1, <3>1
    <3> QED BY <3>2, StatusFacts DEF Early, Waiting
  <2>2. CASE j[1] # c
    BY <1>1, <1>2, <1>4, <2>2 DEF DialInv
  <2> QED BY <2>1, <2>2
<1>5. QED
  BY <1>3, <1>4, DialStep

\* The callee's phone rings at most once per call, for any number of jobs,
\* re-dispatches, lost dispatch answers and crashes.
THEOREM OneDial == Spec => []AtMostOneDial
<1>1. Init => DialInv
  BY DEF Init, DialInv
<1>2. DialInv => AtMostOneDial
  BY DEF DialInv, AtMostOneDial
<1>3. QED
  BY <1>1, <1>2, DialNext, Rows, PTL DEF Spec

-----------------------------------------------------------------------------
(* One acting agent per call: a job takes charge by the step from QUEUED   *)
(* to PREWARMING, and a call is never QUEUED again.                        *)

Unclaimed == Waiting \cup {Absent}

AgentInv ==
  \A j \in Job : j[1] \in Outbound =>
    /\ job[j] # "inserted"
    /\ job[j] \in InCharge => status[j[1]] \notin Unclaimed

\* A step of handle_call moves one job; it takes charge only by Prewarm.
LEMMA WorkerTakes ==
  ASSUME TypeOK, NEW j \in Job, NEW k \in Job,
         HandleCall(k) \/ Conversation(k) \/ WorkerFault(k),
         j[1] \in Outbound, job[j] # "inserted",
         (job'[j] \in InCharge /\ job[j] \notin InCharge) \/ job'[j] = "inserted"
  PROVE  /\ job[j] = "fetched" /\ job'[j] = "prewarmed" /\ status[j[1]] = "queued"
         /\ status'[j[1]] = "prewarming"
         /\ \A i \in Job \ {j} : job'[i] = job[i]
<1>1. j[1] \notin Inbound
  BY Constants
<1>2. CASE Prewarm(k)
  <2>1. \E pc \in {"prewarmed", "failing"} : job' = [job EXCEPT ![k] = pc]
    BY <1>2 DEF Prewarm, Advance, Goto
  <2>2. k = j
    BY <2>1 DEF TypeOK, InCharge
  <2>3. \/ job'[j] = "failing"
        \/ job'[j] = "prewarmed" /\ status[j[1]] = "queued" /\ status'[j[1]] = "prewarming"
    BY <1>2, <2>2, JobCall DEF Prewarm, Advance, Update, Goto, TypeOK
  <2>4. job[j] = "fetched"
    BY <1>2, <2>2 DEF Prewarm
  <2> QED BY <2>1, <2>2, <2>3, <2>4 DEF TypeOK, InCharge
<1>3. CASE \/ Fetch(k) \/ AcceptInbound(k) \/ ConnectInbound(k) \/ WorkerFault(k)
           \/ RequestInput(k) \/ WatchdogRead(k) \/ WatchdogFail(k)
           \/ HandlerRead(k) \/ HandlerFail(k)
  BY <1>1, <1>3 DEF Fetch, AcceptInbound, ConnectInbound, WorkerFault, RequestInput,
     WatchdogRead, WatchdogFail, HandlerRead, HandlerFail, Advance, Goto, TypeOK,
     InCharge, workers, Running
<1>4. CASE \/ Dial(k) \/ MarkRinging(k) \/ AwaitDial(k) \/ FailDial(k) \/ Connect(k)
           \/ Activate(k) \/ HangUpParticipant(k) \/ Disconnected(k) \/ Report(k)
           \/ Complete(k) \/ Finalize(k) \/ Finish(k) \/ WatchdogReport(k)
  BY <1>4 DEF Dial, WatchdogReport, MarkRinging, AwaitDial, FailDial, Connect, Activate,
     HangUpParticipant, Disconnected, Report, Complete, Finalize, Finish, Advance,
     Goto, TypeOK, InCharge
<1>5. QED
  BY <1>2, <1>3, <1>4 DEF HandleCall, Conversation

LEMMA AgentStep ==
  ASSUME TypeOK, [Next]_vars, NEW j \in Job, j[1] \in Outbound, job[j] # "inserted",
         (job'[j] \in InCharge /\ job[j] \notin InCharge) \/ job'[j] = "inserted"
  PROVE  /\ job[j] = "fetched" /\ job'[j] = "prewarmed" /\ status[j[1]] = "queued"
         /\ status'[j[1]] = "prewarming"
         /\ \A i \in Job \ {j} : job'[i] = job[i]
<1>1. ASSUME NEW p \in Proc, DispatchQueued(p)
      PROVE  job'[j] = job[j] \/ job'[j] = "offered"
  BY <1>1 DEF DispatchQueued, CountDispatched, ListQueued, Dispatch, DispatchFails,
     RecordDispatch, RecordRefusal, workers, TypeOK
<1>2. ASSUME NEW c \in Call, \/ CancelCall(c) \/ Phone(c) \/ RoomExpires(c)
                             \/ InputAnswered(c) \/ Ring(c)
      PROVE  job'[j] = job[j] \/ job'[j] = "offered" \/ job'[j] = "expired"
  BY <1>2 DEF CancelCall, CancelRead, CancelDelete, CancelDeleteFails, CancelUpdate,
     Phone, Answer, Refuse, HangUp, RoomExpires, InputAnswered, Ring, workers, TypeOK
<1>3. ASSUME NEW c \in Outbound, CreateCall(c)
      PROVE  job'[j] = job[j]
  BY <1>3 DEF CreateCall, Insert, Validate, Queue, transition, workers
<1>4. ASSUME NEW k \in Job, Redeliver(k) \/ WorkerCrash(k)
      PROVE  job'[j] = job[j] \/ job'[j] = "offered" \/ job'[j] = "dead"
  BY <1>4 DEF Redeliver, WorkerCrash, Goto, TypeOK
<1>5. ASSUME UNCHANGED vars \/ \E p \in Proc : Crash(p)
      PROVE  job'[j] = job[j]
  BY <1>5 DEF vars, Crash, workers
<1>6. ASSUME \A k \in Job : ~(HandleCall(k) \/ Conversation(k) \/ WorkerFault(k))
      PROVE  job'[j] = job[j] \/ job'[j] \in {"offered", "expired", "dead"}
  BY <1>1, <1>2, <1>3, <1>4, <1>5, <1>6, Constants DEF Next, Call
<1>7. QED
  BY <1>6, WorkerTakes DEF InCharge

LEMMA AgentNext ==
  ASSUME TypeOK, RowInv, AgentInv, OneAgentPerCall, [Next]_vars
  PROVE  AgentInv' /\ OneAgentPerCall'
<1>1. ASSUME NEW j \in Job, j[1] \in Outbound, status[j[1]] \notin Unclaimed
      PROVE  status'[j[1]] \notin Unclaimed
  BY <1>1, Backwards, JobCall DEF Unclaimed, Waiting
<1>2. ASSUME NEW j \in Job, j[1] \in Outbound
      PROVE  job'[j] # "inserted"
  BY <1>2, AgentStep DEF AgentInv
<1>3. ASSUME NEW j \in Job, j[1] \in Outbound, job'[j] \in InCharge
      PROVE  status'[j[1]] \notin Unclaimed
  <2>1. CASE job[j] \in InCharge
    BY <1>1, <1>3, <2>1 DEF AgentInv
  <2>2. CASE job[j] \notin InCharge
    BY <1>3, <2>2, AgentStep, StatusFacts DEF AgentInv, Unclaimed, Waiting
  <2> QED BY <2>1, <2>2
<1>4. ASSUME NEW j \in Job, NEW k \in Job, j[1] \in Outbound, j[1] = k[1],
             job'[j] \in InCharge, job'[k] \in InCharge
      PROVE  j = k
  <2>1. CASE job[j] \in InCharge /\ job[k] \in InCharge
    BY <1>4, <2>1 DEF OneAgentPerCall
  <2>2. ASSUME NEW i \in Job, NEW h \in Job, i[1] \in Outbound, i[1] = h[1],
               job'[i] \in InCharge, job'[h] \in InCharge, job[i] \notin InCharge
        PROVE  i = h
    <3>1. status[i[1]] = "queued" /\ \A l \in Job \ {i} : job'[l] = job[l]
      BY <2>2, AgentStep DEF AgentInv
    <3>2. job[h] \notin InCharge
      BY <2>2, <3>1 DEF AgentInv, Unclaimed, Waiting
    <3> QED BY <2>2, <3>1, <3>2
  <2> QED BY <1>4, <2>1, <2>2
<1>5. QED
  BY <1>2, <1>3, <1>4 DEF AgentInv, OneAgentPerCall

LEMMA Agents == Spec => [](TypeOK /\ RowInv /\ AgentInv /\ OneAgentPerCall)
<1>1. Init => AgentInv /\ OneAgentPerCall
  BY DEF Init, AgentInv, OneAgentPerCall, InCharge
<1>2. TypeOK /\ RowInv /\ AgentInv /\ OneAgentPerCall /\ [Next]_vars
        => (AgentInv /\ OneAgentPerCall)'
  BY AgentNext
<1>3. QED
  BY <1>1, <1>2, Rows, PTL DEF Spec

\* However many jobs LiveKit was given for an outbound call, by retries,
\* restarts or a second process, at most one of them acts for it.
THEOREM OneAgent == Spec => []OneAgentPerCall
  BY Agents, PTL

-----------------------------------------------------------------------------
(* What a request has in hand.  Until an outbound call is queued nobody    *)
(* but its request moves it on.                                            *)

Unqueued == {Absent, "created", "validating"}

RequestInv ==
  \A c \in Outbound :
    /\ status[c] \in {"created", "validating"} => client[c] \in {status[c], "failed"}
    /\ status[c] \in Unqueued => ~dispatched[c]
    /\ \A p \in Proc :
         /\ c \in run[p].batch => status[c] \notin Unqueued
         /\ run[p].owner = c =>
              client[c] # "idle" /\ status[c] \notin {"created", "validating"}

LEMMA RequestMoves ==
  ASSUME TypeOK, [Next]_vars, NEW c \in Outbound,
         status'[c] \in {"created", "validating"}, status'[c] # status[c]
  PROVE  CreateCall(c)
<1> SUFFICES ASSUME ~CreateCall(c) PROVE FALSE
  OBVIOUS
<1>1. c \in Call /\ c \notin Inbound
  BY Constants DEF Call
<1>2. ASSUME NEW d, NEW expected, NEW new, Update(d, expected, new)
      PROVE  d = c /\ new \in {"created", "validating"}
  BY <1>1, <1>2 DEF Update, TypeOK
<1>3. ASSUME NEW p \in Proc, DispatchQueued(p) \/ Crash(p) PROVE FALSE
  BY <1>2, <1>3 DEF DispatchQueued, CountDispatched, ListQueued, Dispatch, DispatchFails,
     RecordDispatch, RecordRefusal, Crash
<1>4. ASSUME NEW d \in Call, \/ CancelCall(d) \/ Phone(d) \/ RoomExpires(d)
                             \/ InputAnswered(d) \/ Ring(d)
      PROVE  FALSE
  BY <1>2, <1>4 DEF CancelCall, CancelRead, CancelDelete, CancelDeleteFails, CancelUpdate,
     Phone, Answer, Refuse, HangUp, RoomExpires, InputAnswered, Ring
<1>5. ASSUME NEW d \in Outbound, CreateCall(d) PROVE FALSE
  <2>1. d # c
    BY <1>5
  <2>2. CASE Insert(d)
    BY <1>1, <2>1, <2>2 DEF Insert, TypeOK
  <2>3. CASE Validate(d) \/ Queue(d)
    BY <1>2, <2>1, <2>3 DEF Validate, Queue, transition
  <2> QED BY <1>5, <2>2, <2>3 DEF CreateCall
<1>6. ASSUME NEW k \in Job, Redeliver(k) \/ WorkerCrash(k) PROVE FALSE
  BY <1>6 DEF Redeliver, WorkerCrash
<1>7. ASSUME NEW k \in Job, HandleCall(k) \/ Conversation(k) \/ WorkerFault(k) PROVE FALSE
  <2>1. ASSUME NEW expected, NEW new, NEW pc, Advance(k, expected, new, pc)
        PROVE  new \in {"created", "validating"}
    BY <1>2, <2>1 DEF Advance
  <2>2. CASE AcceptInbound(k)
    BY <1>1, <2>2 DEF AcceptInbound, TypeOK
  <2>3. CASE Prewarm(k) \/ Dial(k) \/ MarkRinging(k) \/ FailDial(k) \/ Connect(k)
             \/ Activate(k) \/ Finalize(k) \/ Finish(k) \/ WatchdogFail(k)
    BY <2>1, <2>3 DEF Prewarm, Dial, MarkRinging, FailDial, Connect, Activate, Finalize,
       Finish, WatchdogFail
  <2>4. CASE ConnectInbound(k) \/ Complete(k) \/ RequestInput(k) \/ HandlerFail(k)
    BY <1>2, <2>4 DEF ConnectInbound, Complete, RequestInput, HandlerFail
  <2>5. CASE \/ Fetch(k) \/ AwaitDial(k) \/ HangUpParticipant(k) \/ Disconnected(k)
             \/ WatchdogReport(k) \/ WatchdogRead(k) \/ Report(k) \/ HandlerRead(k)
             \/ WorkerFault(k)
    BY <2>5 DEF Fetch, AwaitDial, HangUpParticipant, Disconnected, WatchdogReport,
       WatchdogRead, Report, HandlerRead, WorkerFault
  <2> QED BY <1>7, <2>2, <2>3, <2>4, <2>5 DEF HandleCall, Conversation
<1>8. ~UNCHANGED vars
  BY DEF vars
<1> QED BY <1>3, <1>4, <1>5, <1>6, <1>7, <1>8, Constants DEF Next, Call

\* The request of a call that has a row is under way or over; the statements of
\* the dispatch run it awaits belong to a call that was queued.
LEMMA RequestLeave ==
  ASSUME TypeOK, RequestInv, NEW p \in Proc, NEW c \in Outbound, Leave(p, "returned")
  PROVE  /\ status[c] \in {"created", "validating"} => client'[c] = client[c]
         /\ client[c] # "idle" => client'[c] # "idle"
         /\ \A q \in Proc : run'[q] = run[q] \/ run'[q] = IdleRun
  BY DEF Leave, TypeOK, RequestInv

\* What a dispatch run does to requests and batches.
RunKeeps(c) ==
  /\ status[c] \in {"created", "validating"} => client'[c] = client[c]
  /\ client[c] # "idle" => client'[c] # "idle"
  /\ \A q \in Proc :
       /\ c \in run'[q].batch => c \in run[q].batch \/ status[c] = "queued"
       /\ run'[q].owner = c =>
            \/ run[q].owner = c
            \/ client[c] = "queued" /\ client'[c] # "idle"

LEMMA RunsKeep ==
  ASSUME TypeOK, RequestInv, NEW p \in Proc, DispatchQueued(p), NEW c \in Outbound
  PROVE  RunKeeps(c)
<1> Scheduler \notin Outbound
  BY Constants DEF Scheduler
<1>1. CASE Leave(p, "returned")
  BY <1>1, RequestLeave DEF IdleRun, RunKeeps
<1>2. ASSUME NEW o \in Outbound \cup {Scheduler}, CountDispatched(p, o)
      PROVE  RunKeeps(c)
  <2>1. o = c => client[c] = "queued"
    BY <1>2 DEF CountDispatched
  <2>2. client[c] = "queued" => status[c] \notin {"created", "validating"}
    BY DEF RequestInv
  <2>3. /\ o # c => client'[c] = client[c]
        /\ o = c => client'[c] \in {"dispatching", "returned"}
    BY <1>2 DEF CountDispatched
  <2>4. \A q \in Proc :
          \/ run'[q] = run[q]
          \/ run'[q].batch = {} /\ run'[q].owner = o
    BY <1>2 DEF CountDispatched, TypeOK
  <2> QED BY <2>1, <2>2, <2>3, <2>4 DEF RunKeeps
<1>3. CASE ListQueued(p) /\ ~Leave(p, "returned")
  <2>1. PICK B \in SUBSET Queued : run' = [run EXCEPT ![p].pc = "listed", ![p].batch = B]
    BY <1>3 DEF ListQueued
  <2>2. client' = client
    BY <1>3 DEF ListQueued
  <2> QED BY <2>1, <2>2 DEF RunKeeps, Queued, TypeOK, RunType
<1>4. ASSUME NEW j \in Job, Dispatch(p, j) \/ DispatchFails(p, j)
      PROVE  RunKeeps(c)
  <2>1. client' = client /\ \A q \in Proc : /\ run'[q].batch = run[q].batch
                                          /\ run'[q].owner = run[q].owner
    BY <1>4 DEF Dispatch, DispatchFails, TypeOK, RunType
  <2> QED BY <2>1 DEF RunKeeps
<1>5. CASE (RecordDispatch(p) \/ RecordRefusal(p)) /\ ~Leave(p, "returned")
  <2>1. PICK d \in Outbound : NextInBatch(p, d)
    BY <1>5 DEF RecordDispatch, RecordRefusal
  <2>2. client' = client /\ run' = [run EXCEPT ![p].pc = "listed", ![p].batch = @ \ {d}]
    BY <1>5, <2>1 DEF NextInBatch
  <2> QED BY <2>2 DEF RunKeeps, TypeOK, RunType
<1> QED BY <1>1, <1>2, <1>3, <1>4, <1>5 DEF DispatchQueued

\* Who does not dispatch, create or crash leaves requests and runs alone.
LEMMA Elsewhere ==
  ASSUME TypeOK, [Next]_vars, \A p \in Proc : ~DispatchQueued(p) /\ ~Crash(p),
         \A c \in Outbound : ~CreateCall(c)
  PROVE  UNCHANGED <<client, run, dispatched>>
<1>1. ASSUME NEW d \in Call, CancelCall(d) \/ Phone(d) \/ RoomExpires(d) \/ InputAnswered(d)
      PROVE  UNCHANGED <<client, run, dispatched>>
  BY <1>1 DEF CancelCall, CancelRead, CancelDelete, CancelDeleteFails, CancelUpdate,
     Phone, Answer, Refuse, HangUp, RoomExpires, InputAnswered, others, bystanders
<1>2. ASSUME NEW j \in Job, HandleCall(j) \/ Conversation(j) \/ WorkerFault(j)
      PROVE  UNCHANGED <<client, run, dispatched>>
  BY <1>2 DEF HandleCall, Conversation, WorkerFault, others, bystanders, Fetch, Prewarm,
     Dial, MarkRinging, AwaitDial, FailDial, Connect, AcceptInbound, ConnectInbound,
     Activate, HangUpParticipant, Disconnected, WatchdogFail, Report, Complete, Finalize,
     HandlerRead, HandlerFail, RequestInput, Finish, WatchdogReport, WatchdogRead
<1>3. CASE \/ \E d \in Inbound : Ring(d)
           \/ \E j \in Job : j[1] \in Inbound /\ Redeliver(j)
           \/ \E j \in Job : WorkerCrash(j)
           \/ UNCHANGED vars
  BY <1>3 DEF Ring, Redeliver, WorkerCrash, vars, bystanders
<1> QED BY <1>1, <1>2, <1>3, Constants DEF Next

LEMMA RequestNext == TypeOK /\ RowInv /\ RequestInv /\ [Next]_vars => RequestInv'
<1> SUFFICES ASSUME TypeOK, RowInv, RequestInv, [Next]_vars, NEW c \in Outbound
             PROVE
    /\ status'[c] \in {"created", "validating"} => client'[c] \in {status'[c], "failed"}
    /\ status'[c] \in Unqueued => ~dispatched'[c]
    /\ \A p \in Proc :
         /\ c \in run'[p].batch => status'[c] \notin Unqueued
         /\ run'[p].owner = c =>
              client'[c] # "idle" /\ status'[c] \notin {"created", "validating"}
  BY DEF RequestInv
<1> c \in Call
  BY DEF Call
<1>0. status'[c] \in Unqueued => status[c] \in Unqueued
  BY Backwards DEF Unqueued
<1>1. CASE CreateCall(c)
  <2>1. run' = run /\ dispatched' = dispatched
    BY <1>1 DEF CreateCall, Insert, Validate, Queue, transition
  <2>2. \A p \in Proc : run[p].owner = c => client'[c] # "idle" /\ ~Insert(c)
    BY <1>1 DEF RequestInv, CreateCall, Insert, Validate, Queue, transition, TypeOK
  <2>3. Validate(c) \/ Queue(c) => (status'[c] \in {"created", "validating"}
           => status[c] \in {"created", "validating"})
    BY DEF Validate, Queue, transition, Update, TypeOK
  <2>4. status'[c] \in {"created", "validating"} => client'[c] \in {status'[c], "failed"}
    <3>1. CASE Insert(c)
      BY <3>1 DEF Insert, TypeOK
    <3>2. CASE Validate(c) \/ Queue(c)
      BY <3>2 DEF Validate, Queue, transition, Update, TypeOK, RequestInv
    <3> QED BY <1>1, <3>1, <3>2 DEF CreateCall
  <2> QED BY <1>0, <1>1, <2>1, <2>2, <2>3, <2>4 DEF RequestInv, CreateCall
<1>2. CASE ~CreateCall(c)
  <2>0. status'[c] \in {"created", "validating"} => status'[c] = status[c]
    BY <1>2, RequestMoves
  <2>1. ASSUME NEW p \in Proc, DispatchQueued(p)
        PROVE  /\ RunKeeps(c)
               /\ dispatched'[c] => dispatched[c] \/ status[c] = "queued"
    <3>1. dispatched'[c] => dispatched[c] \/ status[c] = "queued"
      BY <2>1 DEF DispatchQueued, CountDispatched, ListQueued, Dispatch, DispatchFails,
         RecordDispatch, RecordRefusal, TypeOK
    <3> QED BY <2>1, <3>1, RunsKeep
  <2>2. ASSUME NEW p \in Proc, Crash(p)
        PROVE  /\ dispatched' = dispatched
               /\ client'[c] \in {client[c], "failed"}
               /\ \A q \in Proc : run'[q] = run[q] \/ run'[q] = IdleRun
    BY <2>2 DEF Crash, TypeOK
  <2>3. ASSUME NEW d \in Outbound, CreateCall(d)
        PROVE  run' = run /\ dispatched' = dispatched /\ client'[c] = client[c]
    BY <1>2, <2>3 DEF CreateCall, Insert, Validate, Queue, transition, TypeOK
  <2>4. CASE \E p \in Proc : DispatchQueued(p)
    <3>1. client[c] = "queued" => status[c] \notin {"created", "validating"}
      BY DEF RequestInv
    <3>2. "queued" \notin Unqueued
      BY StatusFacts DEF Unqueued, Absent
    <3> QED BY <1>0, <2>0, <2>1, <2>4, <3>1, <3>2 DEF RequestInv, RunKeeps
  <2>5. CASE \E p \in Proc : Crash(p)
    <3>1. Scheduler # c
      BY Constants DEF Scheduler
    <3> QED BY <1>0, <2>0, <2>2, <2>5, <3>1 DEF RequestInv, IdleRun
  <2>6. CASE \E d \in Outbound : CreateCall(d)
    BY <1>0, <2>0, <2>3, <2>6 DEF RequestInv
  <2>7. CASE UNCHANGED <<client, run, dispatched>>
    BY <1>0, <2>0, <2>7 DEF RequestInv
  <2> QED BY <2>4, <2>5, <2>6, <2>7, Elsewhere
<1> QED BY <1>1, <1>2

-----------------------------------------------------------------------------
(* No call is abandoned: whoever moves a call on from QUEUED is a job that *)
(* then carries it, until it ends the call or is itself cut off.           *)

\* A job that will not come to its end without a look at the call, or was cut off
\* before it; the failure handler and the inbound job that has inserted its row
\* have had their look, and go on with the call unless it has moved since.
Carries(j) ==
  \/ job[j] \in (Running \ {"inserted", "handling"}) \cup Gone
  \/ job[j] = "offered" /\ j[1] \in Outbound
  \/ job[j] = "inserted" /\ status[j[1]] = "created"
  \/ job[j] = "handling" /\ seen[j] = status[j[1]]

\* A call that is in the hands of LiveKit: an inbound one from its first row, an
\* outbound one that was dispatched, be it recorded or about to be.
Held(c) ==
  /\ status[c] \in NonTerminal
  /\ \/ c \in Inbound
     \/ status[c] \notin Waiting
     \/ /\ status[c] = "queued"
        /\ dispatched[c] \/ \E p \in Proc : run[p].pc = "sent" /\ Current(p, c)

\* Only a call that may ask waits for an answer, and only such a call can be on
\* with nobody to carry it: when the answer comes, what the handler saw is stale.
CarriedCall(c) ==
  /\ status[c] = "input_required" => c \in MayAsk
  /\ Held(c) =>
       \/ \E j \in Job : j[1] = c /\ Carries(j)
       \/ c \in MayAsk /\ status[c] = "active"

CarryInv == \A c \in Call : CarriedCall(c)

\* Nobody works on an inbound call that has not rung.
RingInv ==
  \A c \in Inbound : leg[c] = "none" => \A j \in Job : j[1] = c => job[j] = "none"

\* A step that moves no call on and ends no job that carries.
LEMMA CarryKept ==
  ASSUME TypeOK, NEW c \in Call, CarriedCall(c), seen' = seen,
         Held(c)' => Held(c) /\ status'[c] = status[c],
         \A j \in Job : j[1] = c =>
           job'[j] = job[j] \/ job[j] = "none" \/ job'[j] \in Gone
  PROVE  CarriedCall(c)'
<1>1. CASE ~Held(c)'
  BY <1>1, StatusFacts DEF CarriedCall, Held, Waiting
<1>2. CASE status'[c] = status[c]
  <2>1. ASSUME NEW j \in Job, j[1] = c, Carries(j) PROVE Carries(j)'
    BY <1>2, <2>1 DEF Carries, Running, Gone
  <2> QED BY <1>1, <1>2, <2>1 DEF CarriedCall
<1> QED BY <1>1, <1>2

\* What a step of handle_call does to its call: it leaves it, or ends it, or
\* carries it from now on.
CarryStep(j) ==
  \/ status'[j[1]] = status[j[1]] /\ (Carries(j) => Carries(j)')
  \/ status'[j[1]] \notin NonTerminal
  \/ Carries(j)' /\ (status'[j[1]] = "input_required" => j[1] \in MayAsk)

LEMMA CarryAdvance ==
  ASSUME TypeOK, NEW j \in Job, NEW expected, NEW pc,
         NEW new \in Lifecycle!CallStatus \ {"input_required"},
         new \in Terminal \/ pc \in Running \ {"inserted", "handling"},
         Advance(j, expected, new, pc)
  PROVE  CarryStep(j)
<1> j[1] \in Call
  BY JobCall
<1>1. CASE Update(j[1], expected, new) /\ Goto(j, pc)
  <2>1. status'[j[1]] = new /\ job'[j] = pc
    BY <1>1 DEF Update, Goto, TypeOK
  <2>2. CASE new \in Terminal
    BY <2>1, <2>2, StatusFacts DEF CarryStep
  <2>3. CASE pc \in Running \ {"inserted", "handling"}
    BY <2>1, <2>3 DEF CarryStep, Carries
  <2> QED BY <2>2, <2>3
<1>2. CASE Goto(j, "failing") /\ UNCHANGED status
  BY <1>2 DEF Goto, TypeOK, CarryStep, Carries, Running, JobPc, Gone
<1> QED BY <1>1, <1>2 DEF Advance

LEMMA CarryWorker ==
  ASSUME TypeOK, NEW j \in Job,
         HandleCall(j) \/ Conversation(j) \/ WorkerFault(j)
  PROVE  /\ CarryStep(j)
         /\ \A c \in Call \ {j[1]} : status'[c] = status[c]
         /\ \A k \in Job \ {j} : job'[k] = job[k] /\ seen'[k] = seen[k]
<1> j[1] \in Call
  BY JobCall
<1> USE StatusFacts
<1>0. ASSUME NEW pc \in (Running \ {"inserted", "handling"}) \cup {"lost"}, Goto(j, pc)
      PROVE  Carries(j)'
  BY <1>0 DEF Goto, TypeOK, Carries, Gone
<1>1. CASE \/ Prewarm(j) \/ Dial(j) \/ MarkRinging(j) \/ FailDial(j) \/ Activate(j)
           \/ Finish(j) \/ WatchdogFail(j) \/ Finalize(j)
  <2>1. CarryStep(j)
    BY <1>1, CarryAdvance DEF Prewarm, Dial, MarkRinging, FailDial, Activate, Finish,
       WatchdogFail, Finalize, Running, JobPc, Gone
  <2>2. \A c \in Call \ {j[1]} : status'[c] = status[c]
    BY <1>1 DEF Prewarm, Dial, MarkRinging, FailDial, Activate, Finish, WatchdogFail,
       Finalize, Advance, Update, TypeOK
  <2>3. \A k \in Job \ {j} : job'[k] = job[k] /\ seen'[k] = seen[k]
    BY <1>1 DEF Prewarm, Dial, MarkRinging, FailDial, Activate, Finish, WatchdogFail,
       Finalize, Advance, Goto, TypeOK
  <2> QED BY <2>1, <2>2, <2>3
<1>2. CASE \/ AwaitDial(j) \/ HangUpParticipant(j) \/ Disconnected(j) \/ Report(j)
           \/ WatchdogReport(j) \/ WorkerFault(j)
  <2>1. /\ status' = status
        /\ \A k \in Job \ {j} : job'[k] = job[k] /\ seen'[k] = seen[k]
    BY <1>2 DEF AwaitDial, HangUpParticipant, Disconnected, Report, WatchdogReport,
       WorkerFault, Goto, TypeOK
  <2>2. \E pc \in {"answered", "rejected", "failing", "ending", "reported", "silent"} :
          Goto(j, pc)
    BY <1>2 DEF AwaitDial, HangUpParticipant, Disconnected, Report, WatchdogReport, WorkerFault
  <2>3. Carries(j)'
    BY <1>0, <2>2 DEF Running, JobPc, Gone
  <2> QED BY <2>1, <2>3 DEF CarryStep
<1>3. CASE Fetch(j)
  <2>1. /\ status' = status
        /\ \A k \in Job \ {j} : job'[k] = job[k] /\ seen'[k] = seen[k]
    BY <1>3 DEF Fetch, Goto, TypeOK
  <2>2. status[j[1]] \notin NonTerminal \/ Goto(j, "fetched")
    BY <1>3 DEF Fetch
  <2> QED BY <1>0, <2>1, <2>2 DEF CarryStep, Running, JobPc, Gone
<1>4. CASE Connect(j)
  <2>1. CASE Advance(j, {"ringing"}, "connected", "connected")
    <3>1. CarryStep(j)
      BY <2>1, CarryAdvance DEF Running, JobPc, Gone
    <3> QED BY <1>4, <2>1, <3>1 DEF Connect, Advance, Update, Goto, TypeOK
  <2>2. CASE Goto(j, "failing") /\ UNCHANGED status
    BY <1>0, <1>4, <2>2 DEF Connect, Goto, TypeOK, CarryStep, Running, JobPc, Gone
  <2> QED BY <1>4, <2>1, <2>2 DEF Connect
<1>5. CASE AcceptInbound(j)
  <2>1. /\ \A c \in Call \ {j[1]} : status'[c] = status[c]
        /\ \A k \in Job \ {j} : job'[k] = job[k] /\ seen'[k] = seen[k]
    BY <1>5 DEF AcceptInbound, Goto, TypeOK
  <2>2. ~Carries(j)
    BY <1>5, Constants DEF AcceptInbound, Carries, Running, Gone
  <2>3. CASE status' = status
    BY <2>1, <2>2, <2>3 DEF CarryStep
  <2>4. CASE status' # status
    <3>1. status'[j[1]] = "created" /\ job'[j] \in {"inserted", "lost"}
      BY <1>5, <2>4 DEF AcceptInbound, Goto, TypeOK
    <3> QED BY <2>1, <3>1 DEF CarryStep, Carries, Gone
  <2> QED BY <2>3, <2>4
<1>6. CASE ConnectInbound(j)
  <2>1. /\ \A c \in Call \ {j[1]} : status'[c] = status[c]
        /\ \A k \in Job \ {j} : job'[k] = job[k] /\ seen'[k] = seen[k]
    BY <1>6 DEF ConnectInbound, Update, Goto, TypeOK
  <2>2. CASE Goto(j, "done")
    <3>1. status' = status /\ ~Carries(j)
      BY <1>6, <2>2 DEF ConnectInbound, Carries, Running, Gone, Goto, TypeOK
    <3> QED BY <2>1, <3>1 DEF CarryStep
  <2>3. CASE ~Goto(j, "done")
    <3>1. Carries(j)'
      BY <1>0, <1>6, <2>3 DEF ConnectInbound, Running, JobPc, Gone
    <3>2. status' = status \/ status'[j[1]] = "connected"
      BY <1>6, <2>3 DEF ConnectInbound, Update, TypeOK
    <3> QED BY <2>1, <3>1, <3>2 DEF CarryStep
  <2> QED BY <2>2, <2>3
<1>7. CASE Complete(j)
  <2>1. seen' = seen /\ \A k \in Job \ {j} : job'[k] = job[k]
    BY <1>7 DEF Complete, Goto, TypeOK
  <2>2. \/ status' = status /\ status[j[1]] \notin NonTerminal
        \/ status' = status /\ job'[j] = "completing"
        \/ status' = [status EXCEPT ![j[1]] = "completing"] /\ job'[j] = "completing"
    BY <1>7 DEF Complete, Update, Goto, TypeOK
  <2>3. CarryStep(j)
    BY <2>2 DEF CarryStep, Carries, Running, JobPc, Gone, TypeOK
  <2> QED BY <2>1, <2>2, <2>3 DEF TypeOK
<1>8. CASE RequestInput(j)
  BY <1>8 DEF RequestInput, Update, workers, TypeOK, CarryStep, Carries, Running, JobPc, Gone
<1>9. CASE WatchdogRead(j) \/ HandlerRead(j)
  <2>1. /\ status' = status
        /\ \A k \in Job \ {j} : job'[k] = job[k] /\ seen'[k] = seen[k]
    BY <1>9 DEF WatchdogRead, HandlerRead, Goto, TypeOK
  <2>2. CASE status[j[1]] \notin NonTerminal
    BY <2>1, <2>2 DEF CarryStep
  <2>3. CASE status[j[1]] \in NonTerminal
    <3>1. \/ job'[j] \in {"watchdog", "lost"}
          \/ job'[j] = "handling" /\ seen'[j] = status[j[1]]
      BY <1>9, <2>3 DEF WatchdogRead, HandlerRead, Goto, TypeOK
    <3> QED BY <2>1, <3>1 DEF CarryStep, Carries, Running, JobPc, Gone
  <2> QED BY <2>2, <2>3
<1>10. CASE HandlerFail(j)
  <2>1. /\ \A c \in Call \ {j[1]} : status'[c] = status[c]
        /\ \A k \in Job \ {j} : job'[k] = job[k] /\ seen'[k] = seen[k]
    BY <1>10 DEF HandlerFail, Update, Goto, TypeOK
  <2>2. CASE Update(j[1], {seen[j]}, "failed")
    BY <2>1, <2>2 DEF Update, TypeOK, CarryStep
  <2>3. CASE status[j[1]] # seen[j] /\ UNCHANGED status
    <3>1. ~Carries(j)
      BY <1>10, <2>3 DEF HandlerFail, Carries, Running, Gone
    <3> QED BY <2>1, <2>3, <3>1 DEF CarryStep
  <2>4. CASE Goto(j, "lost") /\ UNCHANGED status
    BY <1>0, <2>1, <2>4 DEF CarryStep
  <2> QED BY <1>10, <2>2, <2>3, <2>4 DEF HandlerFail
<1> QED BY <1>1, <1>2, <1>3, <1>4, <1>5, <1>6, <1>7, <1>8, <1>9, <1>10
    DEF HandleCall, Conversation

\* A dispatch run takes a call in hand by giving LiveKit a job of it.
LEMMA CarryDispatch ==
  ASSUME TypeOK, CarryInv, NEW p \in Proc, DispatchQueued(p), NEW c \in Call
  PROVE  CarriedCall(c)'
<1> USE StatusFacts
<1>0. CarriedCall(c)
  BY DEF CarryInv
<1>1. \/ status' = status
      \/ \E d \in Outbound : status' = [status EXCEPT ![d] = "failed"]
  BY DEF DispatchQueued, CountDispatched, ListQueued, Dispatch, DispatchFails,
     RecordDispatch, RecordRefusal, Update
<1>2. status'[c] = status[c] \/ status'[c] \in Terminal
  BY <1>1 DEF TypeOK
<1>3. seen' = seen
  BY DEF DispatchQueued, CountDispatched, ListQueued, Dispatch, DispatchFails,
     RecordDispatch, RecordRefusal, workers
<1>4. \A j \in Job : job'[j] = job[j] \/ job[j] = "none"
  BY DEF DispatchQueued, CountDispatched, ListQueued, Dispatch, DispatchFails,
     RecordDispatch, RecordRefusal, workers, Free, TypeOK
<1>5. ASSUME NEW j \in Job, Dispatch(p, j), j[1] = c PROVE CarriedCall(c)'
  <2>1. status' = status /\ job'[j] = "offered" /\ c \in Outbound
    BY <1>5 DEF Dispatch, TypeOK, Current, RunType
  <2>2. Carries(j)'
    BY <1>5, <2>1 DEF Carries
  <2> QED BY <1>0, <1>5, <2>1, <2>2 DEF CarriedCall
<1>6. CASE \A j \in Job : Dispatch(p, j) => j[1] # c
  <2>1. ASSUME NEW q \in Proc, run'[q].pc = "sent", Current(q, c)'
        PROVE  run[q].pc = "sent" /\ Current(q, c)
    <3>1. CASE Leave(p, "returned")
      BY <2>1, <3>1 DEF Leave, IdleRun, TypeOK, Current
    <3>2. CASE \E o \in Outbound \cup {Scheduler} : CountDispatched(p, o)
      BY <2>1, <3>2 DEF CountDispatched, TypeOK, Current
    <3>3. CASE ListQueued(p) /\ ~Leave(p, "returned")
      BY <2>1, <3>3 DEF ListQueued, TypeOK, RunType, Current
    <3>4. ASSUME NEW j \in Job, Dispatch(p, j)
          PROVE  run[q].pc = "sent" /\ Current(q, c)
      <4>1. c # j[1] /\ Current(p, j[1]) /\ run' = [run EXCEPT ![p].pc = "sent"]
        BY <1>6, <3>4 DEF Dispatch
      <4>2. CASE q # p
        BY <2>1, <4>1, <4>2 DEF Current, TypeOK
      <4>3. CASE q = p
        <5>1. Current(p, c)
          BY <2>1, <4>1, <4>3 DEF Current, TypeOK, RunType
        <5>2. c \in Nat /\ j[1] \in Nat
          BY <4>1, <5>1, Constants DEF Current, TypeOK, RunType
        <5>3. c <= j[1] /\ j[1] <= c
          BY <4>1, <5>1 DEF Current
        <5> QED BY <4>1, <5>2, <5>3
      <4> QED BY <4>2, <4>3
    <3>5. ASSUME NEW j \in Job, DispatchFails(p, j)
          PROVE  run[q].pc = "sent" /\ Current(q, c)
      BY <2>1, <3>5 DEF DispatchFails, TypeOK, RunType, Current
    <3>6. CASE (RecordDispatch(p) \/ RecordRefusal(p)) /\ ~Leave(p, "returned")
      <4>1. PICK d \in Outbound : NextInBatch(p, d)
        BY <3>6 DEF RecordDispatch, RecordRefusal
      <4>2. run' = [run EXCEPT ![p].pc = "listed", ![p].batch = @ \ {d}]
        BY <3>6, <4>1 DEF NextInBatch
      <4> QED BY <2>1, <4>2 DEF TypeOK, RunType, Current
    <3> QED BY <3>1, <3>2, <3>3, <3>4, <3>5, <3>6 DEF DispatchQueued
  <2>2. dispatched'[c] => dispatched[c] \/ (run[p].pc = "sent" /\ Current(p, c))
    BY DEF DispatchQueued, CountDispatched, ListQueued, Dispatch, DispatchFails,
       RecordDispatch, RecordRefusal, Call, TypeOK
  <2>3. Held(c)' => Held(c) /\ status'[c] = status[c]
    BY <1>2, <2>1, <2>2 DEF Held
  <2> QED BY <1>0, <1>3, <1>4, <2>3, CarryKept
<1> QED BY <1>5, <1>6

LEMMA CarryNext ==
  TypeOK /\ RequestInv /\ CarryInv /\ RingInv /\ [Next]_vars => CarryInv'
<1> SUFFICES ASSUME TypeOK, RequestInv, CarryInv, RingInv, [Next]_vars, NEW c \in Call
             PROVE  CarriedCall(c)'
  BY DEF CarryInv
<1>0. CarriedCall(c)
  BY DEF CarryInv
<1> USE StatusFacts
<1>1. ASSUME NEW d \in Outbound, CreateCall(d) PROVE CarriedCall(c)'
  <2>1. seen' = seen /\ job' = job /\ run' = run /\ dispatched' = dispatched
    BY <1>1 DEF CreateCall, Insert, Validate, Queue, transition, workers
  <2>2. ~Held(c)' \/ status'[c] = status[c]
    <3>1. CASE c # d
      BY <1>1, <3>1 DEF CreateCall, Insert, Validate, Queue, transition, Update, TypeOK
    <3>2. CASE c = d
      <4>1. status'[d] = status[d] \/ status'[d] \in Waiting
        BY <1>1 DEF CreateCall, Insert, Validate, Queue, transition, Update, TypeOK, Waiting, Call
      <4>2. status'[d] = "queued" /\ status'[d] # status[d] => status[d] = "validating"
        BY <1>1 DEF CreateCall, Insert, Validate, Queue, transition, Update, TypeOK, Call
      <4>3. status[d] = "validating" => ~dispatched[d] /\ \A p \in Proc : ~Current(p, d)
        BY DEF RequestInv, Unqueued, Current
      <4>4. d \notin Inbound
        BY Constants
      <4>5. \A p : Current(p, d)' <=> Current(p, d)
        BY <2>1 DEF Current
      <4> QED BY <2>1, <3>2, <4>1, <4>2, <4>3, <4>4, <4>5 DEF Held
    <3> QED BY <3>1, <3>2
  <2>3. \A p : Current(p, c)' <=> Current(p, c)
    BY <2>1 DEF Current
  <2>4. Held(c)' => Held(c) /\ status'[c] = status[c]
    BY <2>1, <2>2, <2>3 DEF Held
  <2> QED BY <1>0, <2>1, <2>4, CarryKept
<1>2. ASSUME NEW p \in Proc, DispatchQueued(p) PROVE CarriedCall(c)'
  BY <1>2, CarryDispatch
\* Steps that leave dispatch runs alone.
<1>3. ASSUME run' = run, dispatched' = dispatched, seen' = seen,
             status'[c] = status[c] \/ status'[c] \in Terminal,
             \A j \in Job : j[1] = c =>
               job'[j] = job[j] \/ job[j] = "none" \/ job'[j] \in Gone
      PROVE  CarriedCall(c)'
  <2>1. \A p : Current(p, c)' <=> Current(p, c)
    BY <1>3 DEF Current
  <2>2. Held(c)' => Held(c) /\ status'[c] = status[c]
    BY <1>3, <2>1 DEF Held
  <2> QED BY <1>0, <1>3, <2>2, CarryKept
<1>4. ASSUME NEW d \in Call, CancelCall(d) PROVE CarriedCall(c)'
  <2>1. seen' = seen /\ job' = job /\ run' = run /\ dispatched' = dispatched
    BY <1>4 DEF CancelCall, CancelRead, CancelDelete, CancelDeleteFails, CancelUpdate, workers
  <2>2. status' = status \/ status' = [status EXCEPT ![d] = "cancelled"]
    BY <1>4 DEF CancelCall, CancelRead, CancelDelete, CancelDeleteFails, CancelUpdate, Update
  <2>3. status'[c] = status[c] \/ status'[c] \in Terminal
    BY <2>2 DEF TypeOK
  <2> QED BY <1>3, <2>1, <2>3
<1>5. ASSUME NEW d \in Call, Phone(d) \/ RoomExpires(d) PROVE CarriedCall(c)'
  <2>1. seen' = seen /\ status' = status /\ run' = run /\ dispatched' = dispatched
    BY <1>5 DEF Phone, Answer, Refuse, HangUp, RoomExpires, workers
  <2>2. \A j \in Job : job'[j] = job[j] \/ job'[j] = "expired"
    BY <1>5 DEF Phone, Answer, Refuse, HangUp, RoomExpires, workers, TypeOK
  <2> QED BY <1>3, <2>1, <2>2 DEF Gone
<1>6. ASSUME NEW d \in Call, InputAnswered(d) PROVE CarriedCall(c)'
  <2>1. /\ seen' = seen /\ job' = job /\ status[d] = "input_required"
        /\ status' = [status EXCEPT ![d] = "active"]
        /\ run' = run /\ dispatched' = dispatched
    BY <1>6 DEF InputAnswered, Update, workers, others, bystanders
  <2>2. CASE c = d
    <3>1. c \in MayAsk /\ status'[c] = "active"
      BY <1>0, <2>1, <2>2 DEF CarriedCall, TypeOK
    <3> QED BY <3>1 DEF CarriedCall
  <2>3. CASE c # d
    BY <1>3, <2>1, <2>3 DEF TypeOK
  <2> QED BY <2>2, <2>3
<1>7. ASSUME NEW d \in Inbound, Ring(d) PROVE CarriedCall(c)'
  <2>1. seen' = seen /\ status' = status /\ leg[d] = "none" /\ run' = run /\ dispatched' = dispatched
    BY <1>7 DEF Ring
  <2>2. \A j \in Job : job'[j] = job[j] \/ job[j] = "none"
    BY <1>7, <2>1 DEF Ring, RingInv, TypeOK
  <2> QED BY <1>3, <2>1, <2>2
<1>8. ASSUME NEW j \in Job, Redeliver(j) PROVE CarriedCall(c)'
  <2>1. /\ seen' = seen /\ status' = status /\ run' = run /\ dispatched' = dispatched
        /\ job[j] = "none" /\ job' = [job EXCEPT ![j] = "offered"]
    BY <1>8 DEF Redeliver, Free
  <2> QED BY <1>3, <2>1 DEF TypeOK
<1>9. ASSUME NEW j \in Job, HandleCall(j) \/ Conversation(j) \/ WorkerFault(j)
      PROVE  CarriedCall(c)'
  <2>1. /\ CarryStep(j)
        /\ \A d \in Call \ {j[1]} : status'[d] = status[d]
        /\ \A k \in Job \ {j} : job'[k] = job[k] /\ seen'[k] = seen[k]
    BY <1>9, CarryWorker
  <2>0. run' = run /\ dispatched' = dispatched
    BY <1>9 DEF HandleCall, Conversation, WorkerFault, others, bystanders, Fetch, Prewarm,
       Dial, MarkRinging, AwaitDial, FailDial, Connect, AcceptInbound, ConnectInbound,
       Activate, HangUpParticipant, Disconnected, WatchdogFail, Report, Complete,
       Finalize, HandlerRead, HandlerFail, RequestInput, Finish, WatchdogReport, WatchdogRead
  <2>5. status'[c] = status[c] => (Held(c)' <=> Held(c))
    <3>1. \A p : Current(p, c)' <=> Current(p, c)
      BY <2>0 DEF Current
    <3> QED BY <2>0, <3>1 DEF Held
  <2>2. ASSUME NEW k \in Job \ {j}, status'[k[1]] = status[k[1]], Carries(k) PROVE Carries(k)'
    BY <2>1, <2>2 DEF Carries
  <2>3. CASE c # j[1]
    <3>1. status'[c] = status[c]
      BY <2>1, <2>3
    <3>2. \A k \in Job : k[1] = c /\ Carries(k) => Carries(k)'
      BY <2>2, <2>3, <3>1
    <3> QED BY <1>0, <2>5, <3>1, <3>2 DEF CarriedCall
  <2>4. CASE c = j[1]
    <3>1. CASE status'[c] = status[c] /\ (Carries(j) => Carries(j)')
      <4>1. \A k \in Job : k[1] = c /\ Carries(k) => Carries(k)'
        BY <2>2, <3>1
      <4> QED BY <1>0, <2>5, <3>1, <4>1 DEF CarriedCall
    <3>2. CASE status'[c] \notin NonTerminal
      BY <3>2 DEF CarriedCall, Held
    <3>3. CASE Carries(j)' /\ (status'[c] = "input_required" => c \in MayAsk)
      BY <2>4, <3>3 DEF CarriedCall
    <3> QED BY <2>1, <2>4, <3>1, <3>2, <3>3 DEF CarryStep
  <2> QED BY <2>3, <2>4
<1>10. ASSUME NEW p \in Proc, Crash(p) PROVE CarriedCall(c)'
  <2>1. /\ seen' = seen /\ job' = job /\ status' = status /\ dispatched' = dispatched
        /\ \A q \in Proc : run'[q] = run[q] \/ run'[q].pc = "idle"
    BY <1>10 DEF Crash, workers, IdleRun, TypeOK
  <2>2. \A q \in Proc : run'[q].pc = "sent" /\ Current(q, c)' => run[q].pc = "sent" /\ Current(q, c)
    BY <2>1 DEF Current
  <2>3. Held(c)' => Held(c)
    BY <2>1, <2>2 DEF Held
  <2> QED BY <1>0, <2>1, <2>3, CarryKept
<1>11. ASSUME NEW j \in Job, WorkerCrash(j) PROVE CarriedCall(c)'
  BY <1>3, <1>11 DEF WorkerCrash, Goto, TypeOK, bystanders, Gone
<1>12. CASE UNCHANGED vars
  BY <1>3, <1>12 DEF vars
<1> QED BY <1>1, <1>2, <1>4, <1>5, <1>6, <1>7, <1>8, <1>9, <1>10, <1>11, <1>12,
          Constants DEF Next, Call

LEMMA RingNext == TypeOK /\ RingInv /\ [Next]_vars => RingInv'
<1> SUFFICES ASSUME TypeOK, RingInv, [Next]_vars, NEW c \in Inbound, leg'[c] = "none",
                    NEW j \in Job, j[1] = c
             PROVE  job'[j] = "none"
  BY DEF RingInv
<1>0. c \in Call /\ c \notin Outbound
  BY Constants DEF Call
<1>1. ASSUME leg[c] = "none", job'[j] = job[j] PROVE job'[j] = "none"
  BY <1>1 DEF RingInv
<1>2. ASSUME NEW d \in Outbound, CreateCall(d) PROVE job'[j] = "none"
  BY <1>1, <1>2 DEF CreateCall, Insert, Validate, Queue, transition, livekit, workers
<1>3. ASSUME NEW p \in Proc, DispatchQueued(p) PROVE job'[j] = "none"
  <2>1. run[p].batch \subseteq Outbound
    BY DEF TypeOK, RunType
  <2>2. job'[j] = job[j]
    BY <1>0, <1>3, <2>1 DEF DispatchQueued, CountDispatched, ListQueued, Dispatch,
       DispatchFails, RecordDispatch, RecordRefusal, Current, workers, TypeOK
  <2>3. leg' = leg
    BY <1>3 DEF DispatchQueued, CountDispatched, ListQueued, Dispatch,
       DispatchFails, RecordDispatch, RecordRefusal, livekit
  <2> QED BY <1>1, <2>2, <2>3
<1>4. ASSUME NEW d \in Call, CancelCall(d) PROVE job'[j] = "none"
  <2>1. job' = job /\ (leg' = leg \/ leg' = [leg EXCEPT ![d] = IF @ = "none" THEN "none" ELSE "down"])
    BY <1>4 DEF CancelCall, CancelRead, CancelDelete, CancelDeleteFails, CancelUpdate,
       livekit, workers
  <2> QED BY <1>0, <1>1, <2>1 DEF TypeOK
<1>5. ASSUME NEW d \in Call, Phone(d) \/ RoomExpires(d) PROVE job'[j] = "none"
  <2>1. leg[c] = "none"
    BY <1>0, <1>5 DEF Phone, Answer, Refuse, HangUp, RoomExpires, TypeOK
  <2>2. job'[j] = job[j] \/ job[j] = "offered"
    BY <1>5 DEF Phone, Answer, Refuse, HangUp, RoomExpires, workers, TypeOK
  <2> QED BY <1>1, <2>1, <2>2 DEF RingInv
<1>6. ASSUME NEW d \in Call, InputAnswered(d) PROVE job'[j] = "none"
  BY <1>1, <1>6 DEF InputAnswered, workers
<1>7. ASSUME NEW d \in Inbound, Ring(d) PROVE job'[j] = "none"
  <2>1. d # c /\ leg[c] = "none"
    BY <1>0, <1>7 DEF Ring, TypeOK, Call
  <2>2. job'[j] = job[j]
    BY <1>7, <2>1 DEF Ring, TypeOK
  <2> QED BY <1>1, <2>1, <2>2
<1>8. ASSUME NEW k \in Job, Redeliver(k) PROVE job'[j] = "none"
  <2>1. leg' = leg /\ k # j /\ job' = [job EXCEPT ![k] = "offered"]
    BY <1>8 DEF Redeliver, livekit
  <2> QED BY <1>1, <2>1 DEF TypeOK
<1>9. ASSUME NEW k \in Job, HandleCall(k) \/ Conversation(k) \/ WorkerFault(k)
      PROVE  job'[j] = "none"
  <2>1. leg[c] = "none"
    <3>1. CASE Dial(k)
      BY <1>0, <1>9, <3>1, JobCall DEF Dial, Advance, Goto, TypeOK
    <3>2. CASE HangUpParticipant(k)
      BY <1>0, <1>9, <3>2, JobCall DEF HangUpParticipant, TypeOK
    <3>3. CASE ~Dial(k) /\ ~HangUpParticipant(k)
      BY <1>9, <3>3 DEF HandleCall, Conversation, WorkerFault, Fetch, Prewarm,
         MarkRinging, AwaitDial, FailDial, Connect, AcceptInbound, ConnectInbound,
         Activate, Disconnected, WatchdogFail, Report, Complete, Finalize,
         HandlerRead, HandlerFail, RequestInput, Finish, WatchdogReport, WatchdogRead
    <3> QED BY <3>1, <3>2, <3>3
  <2>2. job[j] = "none"
    BY <2>1 DEF RingInv
  <2>3. job[k] # "none"
    BY <1>9 DEF HandleCall, Conversation, WorkerFault, Running, Fetch, Prewarm, Dial,
       MarkRinging, AwaitDial, FailDial, Connect, AcceptInbound, ConnectInbound, Activate,
       HangUpParticipant, Disconnected, WatchdogFail, Report, Complete, Finalize,
       HandlerRead, HandlerFail, RequestInput, Finish, WatchdogReport, WatchdogRead, JobPc
  <2> QED BY <1>1, <1>9, <2>1, <2>2, <2>3, CarryWorker
<1>10. ASSUME NEW k \in Job, WorkerCrash(k) PROVE job'[j] = "none"
  <2>1. leg[c] = "none" /\ job[k] \in Running /\ job' = [job EXCEPT ![k] = "dead"]
    BY <1>10 DEF WorkerCrash, livekit, Goto
  <2>2. job[j] = "none"
    BY <2>1 DEF RingInv
  <2> QED BY <2>1, <2>2 DEF Running, TypeOK
<1>11. CASE UNCHANGED vars \/ \E p \in Proc : Crash(p)
  BY <1>1, <1>11 DEF vars, Crash, livekit, workers
<1> QED BY <1>2, <1>3, <1>4, <1>5, <1>6, <1>7, <1>8, <1>9, <1>10, <1>11,
          Constants DEF Next, Call

\* When the jobs of a call have come to their end and nothing cut them off, the
\* call has come to its end, or it has not begun and is in the hands of its
\* request or of the scheduler - whatever else failed, crashed, was cancelled,
\* dispatched or offered again.
THEOREM NobodyAbandoned == Spec => []NoAbandonedCall
<1>1. Init => RequestInv /\ CarryInv /\ RingInv
  <2> SUFFICES ASSUME Init PROVE RequestInv /\ CarryInv /\ RingInv
    OBVIOUS
  <2>1. RequestInv
    BY StatusFacts, Constants DEF Init, RequestInv, IdleRun, Scheduler, Call, Proc
  <2> QED BY <2>1, StatusFacts DEF Init, CarryInv, CarriedCall, Held, RingInv
<1>2. TypeOK /\ RequestInv /\ CarryInv => NoAbandonedCall
  <2> SUFFICES ASSUME TypeOK, RequestInv, CarryInv, NEW c \in Call,
                      JobPcs(c) \subseteq {"none", "done"}
               PROVE  \/ status[c] \in Terminal \cup {Absent}
                      \/ Listable(c)
                      \/ /\ c \in Outbound /\ status[c] \in {"created", "validating"}
                         /\ client[c] \in {status[c], "failed"}
                      \/ c \in MayAsk /\ status[c] = "active"
    BY DEF NoAbandonedCall
  <2>1. \A j \in Job : j[1] = c => ~Carries(j)
    BY DEF Carries, Running, Gone, JobPcs
  <2>2. ~Held(c) \/ (c \in MayAsk /\ status[c] = "active")
    BY <2>1 DEF CarryInv, CarriedCall
  <2>3. CASE status[c] \in NonTerminal /\ ~Held(c)
    <3>1. c \in Outbound /\ status[c] \in Waiting
      BY <2>3 DEF Held, Call
    <3>2. status[c] = "queued" => ~dispatched[c]
      BY <2>3 DEF Held
    <3> QED BY <3>1, <3>2 DEF Listable, Waiting, RequestInv
  <2> QED BY <2>2, <2>3, StatusFacts DEF TypeOK
<1>3. TypeOK /\ RowInv /\ RequestInv /\ CarryInv /\ RingInv /\ [Next]_vars
        => RequestInv' /\ CarryInv' /\ RingInv'
  BY RequestNext, CarryNext, RingNext
<1> QED BY <1>1, <1>2, <1>3, Rows, PTL DEF Spec

=============================================================================
