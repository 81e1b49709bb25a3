------------------------- MODULE CallServiceProofs -------------------------
(***************************************************************************)
(* Theorems about CallService, for every number of calls, jobs, slots and  *)
(* crashes.                                                                *)
(***************************************************************************)
EXTENDS CallService, FiniteSetTheorems, TLAPS

USE DEF failures

\* A job belongs to a call.
LEMMA JobCall == \A j \in Job : j[1] \in Call
  BY DEF Job

\* The statuses the model writes exist, and the terminal ones are three.
LEMMA StatusFacts ==
  /\ NonTerminal \subseteq Lifecycle!CallStatus
  /\ Waiting \subseteq NonTerminal
  /\ Talkable \subseteq NonTerminal
  /\ {"created", "validating", "queued", "prewarming", "dialing", "ringing",
      "connected", "active", "input_required", "completing", "completed",
      "failed", "cancelled"} = Lifecycle!CallStatus
  /\ {"created", "validating", "queued", "prewarming", "dialing", "ringing",
      "connected", "active", "input_required", "completing"} = NonTerminal
  /\ Terminal = {"completed", "failed", "cancelled"}
  /\ Absent = "absent"
  BY DEF NonTerminal, Terminal, Waiting, Talkable, Absent, Lifecycle!CallStatus,
         Lifecycle!NonTerminal, Lifecycle!Terminal, Lifecycle!Absent

-----------------------------------------------------------------------------
(* Type correctness, one lemma per actor.                                  *)

LEMMA TypeInit == Init => TypeOK
  BY Constants, StatusFacts DEF Init, TypeOK, RunType, CancelType, IdleRun, IdleCancel,
     ClientPc, JobPc, Proc, Scheduler

FailType ==
  crashes \in Nat /\ faults \in Nat /\ unrecorded \in [Outbound -> Nat]

\* What a step adds to the failures: nothing, or an exception, or one that
\* leaves a dispatch unrecorded.
LEMMA TypeFault ==
  ASSUME TypeOK,
         \/ UNCHANGED failures
         \/ DatabaseError
         \/ Fault /\ \E c \in Outbound : Forget(c)
  PROVE  FailType'
  BY DEF TypeOK, FailType, DatabaseError, Fault, Forget

LEMMA TypeCreate ==
  ASSUME TypeOK, NEW c \in Outbound, CreateCall(c)
  PROVE  TypeOK'
<1>1. c \in Call
  BY DEF Call
<1>2. CASE Insert(c)
  <2>1. FailType'
    BY <1>2, TypeFault DEF Insert
  <2> QED BY <1>1, <1>2, <2>1, StatusFacts
          DEF Insert, TypeOK, ClientPc, FailType, livekit, workers
<1>3. ASSUME NEW from, NEW to \in {"validating", "queued"}, transition(c, from, to)
      PROVE  TypeOK'
  <2>1. FailType'
    BY <1>3, TypeFault DEF transition
  <2>2. client' \in [Outbound -> ClientPc]
    BY <1>3 DEF transition, TypeOK, ClientPc
  <2>3. status' \in [Call -> Lifecycle!CallStatus \cup {Absent}]
    BY <1>1, <1>3, StatusFacts DEF transition, Update, TypeOK
  <2> QED BY <1>3, <2>1, <2>2, <2>3 DEF transition, TypeOK, FailType, livekit, workers
<1>4. QED
  BY <1>2, <1>3 DEF CreateCall, Validate, Queue

LEMMA TypeLeave ==
  ASSUME TypeOK, NEW p \in Proc, Leave(p, "returned")
  PROVE  /\ client' \in [Outbound -> ClientPc]
         /\ run' \in [Proc -> RunType]
  BY Constants DEF Leave, TypeOK, ClientPc, RunType, IdleRun, Scheduler

\* Only finitely many calls hold slots, so the capacity is a number.
LEMMA CapacityType ==
  /\ IsFiniteSet(Call)
  /\ IsFiniteSet(Occupied)
  /\ Cardinality(Occupied) \in Nat
  /\ Capacity \in Nat
<1>1. IsFiniteSet(Call)
  BY Constants, FS_Union DEF Call
<1>2. IsFiniteSet(Occupied)
  BY <1>1, FS_Subset DEF Occupied
<1>3. Cardinality(Occupied) \in Nat
  BY <1>2, FS_CardinalityType
<1>4. QED
  BY <1>1, <1>2, <1>3, Constants DEF Capacity

LEMMA TypeDispatch ==
  ASSUME TypeOK, NEW p \in Proc, DispatchQueued(p)
  PROVE  TypeOK'
<1>1. ASSUME NEW o \in Outbound \cup {Scheduler}, CountDispatched(p, o)
      PROVE  TypeOK'
  <2>1. client' \in [Outbound -> ClientPc]
    BY <1>1 DEF CountDispatched, TypeOK, ClientPc
  <2>2. run' \in [Proc -> RunType]
    BY <1>1, CapacityType DEF CountDispatched, TypeOK, RunType
  <2>3. FailType'
    BY <1>1, TypeFault DEF CountDispatched
  <2> QED BY <1>1, <2>1, <2>2, <2>3 DEF CountDispatched, TypeOK, FailType, livekit, workers
<1>2. CASE ListQueued(p)
  <2>1. client' \in [Outbound -> ClientPc] /\ run' \in [Proc -> RunType]
    <3>1. CASE Leave(p, "returned")
      BY <3>1, TypeLeave
    <3>2. CASE ~Leave(p, "returned")
      <4>1. PICK B \in SUBSET Queued :
              /\ run' = [run EXCEPT ![p].pc = "listed", ![p].batch = B]
              /\ UNCHANGED client
        BY <1>2, <3>2 DEF ListQueued
      <4>2. B \in SUBSET Outbound
        BY DEF Queued
      <4>3. run[p] \in RunType /\ run \in [Proc -> RunType]
        BY DEF TypeOK
      <4>4. [run[p] EXCEPT !.pc = "listed", !.batch = B] \in RunType
        BY <4>2, <4>3 DEF RunType
      <4>5. run' = [run EXCEPT ![p] = [run[p] EXCEPT !.pc = "listed", !.batch = B]]
        BY <4>1, <4>3 DEF RunType
      <4>6. run' \in [Proc -> RunType]
        BY <4>3, <4>4, <4>5
      <4> QED BY <4>1, <4>6 DEF TypeOK
    <3> QED BY <3>1, <3>2
  <2>2. FailType'
    BY <1>2, TypeFault DEF ListQueued
  <2> QED BY <1>2, <2>1, <2>2 DEF ListQueued, TypeOK, FailType, livekit, workers
<1>3. ASSUME NEW j \in Job, Dispatch(p, j) \/ DispatchFails(p, j)
      PROVE  TypeOK'
  <2>1. run' \in [Proc -> RunType]
    BY <1>3 DEF Dispatch, DispatchFails, TypeOK, RunType
  <2>2. room' \in [Call -> {"none", "open", "closed", "deleted"}]
    BY <1>3 DEF Dispatch, DispatchFails, TypeOK
  <2>3. job' \in [Job -> JobPc]
    BY <1>3 DEF Dispatch, DispatchFails, TypeOK, JobPc
  <2> QED BY <1>3, <2>1, <2>2, <2>3 DEF Dispatch, DispatchFails, TypeOK
<1>4. ASSUME NEW c, NextInBatch(p, c)
      PROVE  client' \in [Outbound -> ClientPc] /\ run' \in [Proc -> RunType]
  BY <1>4, TypeLeave DEF NextInBatch, TypeOK, RunType
<1>5. CASE RecordDispatch(p)
  <2>1. client' \in [Outbound -> ClientPc] /\ run' \in [Proc -> RunType]
    BY <1>4, <1>5, TypeLeave DEF RecordDispatch
  <2>2. dispatched' \in [Call -> BOOLEAN]
    BY <1>5 DEF RecordDispatch, TypeOK
  <2>3. FailType'
    BY <1>5, TypeFault DEF RecordDispatch
  <2> QED BY <1>5, <2>1, <2>2, <2>3 DEF RecordDispatch, TypeOK, FailType, livekit, workers
<1>6. CASE RecordRefusal(p)
  <2>1. client' \in [Outbound -> ClientPc] /\ run' \in [Proc -> RunType]
    BY <1>4, <1>6, TypeLeave DEF RecordRefusal
  <2>2. status' \in [Call -> Lifecycle!CallStatus \cup {Absent}]
    BY <1>6, StatusFacts DEF RecordRefusal, Update, TypeOK
  <2>3. FailType'
    BY <1>6, TypeFault DEF RecordRefusal
  <2> QED BY <1>6, <2>1, <2>2, <2>3 DEF RecordRefusal, TypeOK, FailType, livekit, workers
<1>7. QED
  BY <1>1, <1>2, <1>3, <1>5, <1>6 DEF DispatchQueued

LEMMA TypeCancel ==
  ASSUME TypeOK, NEW c \in Call, CancelCall(c)
  PROVE  TypeOK'
<1>1. CASE CancelRead(c)
  BY <1>1 DEF CancelRead, RoomKnown, TypeOK, CancelType, livekit, workers
<1>2. CASE CancelDelete(c)
  BY <1>2 DEF CancelDelete, TypeOK, CancelType, workers
<1>3. CASE CancelDeleteFails(c)
  BY <1>3, StatusFacts DEF CancelDeleteFails, TypeOK, CancelType, IdleCancel, livekit, workers
<1>4. CASE CancelUpdate(c)
  <2>1. FailType'
    BY <1>4, TypeFault DEF CancelUpdate
  <2> QED BY <1>4, <2>1, StatusFacts
          DEF CancelUpdate, Update, TypeOK, CancelType, IdleCancel, FailType, livekit, workers
<1>5. QED
  BY <1>1, <1>2, <1>3, <1>4 DEF CancelCall

LEMMA TypePhone ==
  ASSUME TypeOK,
         \/ \E c \in Call : Phone(c) \/ RoomExpires(c)
         \/ \E c \in Inbound : Ring(c)
         \/ \E j \in Job : j[1] \in Inbound /\ Redeliver(j)
  PROVE  TypeOK'
<1>1. ASSUME NEW c \in Call, Phone(c)
      PROVE  TypeOK'
  BY <1>1 DEF Phone, Answer, Refuse, HangUp, TypeOK, workers
<1>2. ASSUME NEW c \in Call, RoomExpires(c)
      PROVE  TypeOK'
  BY <1>2 DEF RoomExpires, TypeOK, JobPc
<1>3. ASSUME NEW c \in Inbound, Ring(c)
      PROVE  TypeOK'
  BY <1>3 DEF Ring, TypeOK, JobPc
<1>4. ASSUME NEW j \in Job, Redeliver(j)
      PROVE  TypeOK'
  BY <1>4 DEF Redeliver, TypeOK, JobPc, livekit
<1>5. QED
  BY <1>1, <1>2, <1>3, <1>4

\* What the steps of a worker leave alone, and what types the rest keeps.
StatusType == status \in [Call -> Lifecycle!CallStatus \cup {Absent}]

LEMMA TypeAdvance ==
  ASSUME TypeOK, NEW j \in Job, NEW expected,
         NEW new \in Lifecycle!CallStatus, NEW pc \in JobPc,
         Advance(j, expected, new, pc)
  PROVE  StatusType' /\ job' \in [Job -> JobPc]
  BY JobCall DEF Advance, Update, Goto, TypeOK, StatusType, JobPc

LEMMA TypeWorker ==
  ASSUME TypeOK, NEW j \in Job,
         HandleCall(j) \/ Conversation(j) \/ WorkerFault(j)
  PROVE  TypeOK'
<1> j[1] \in Call
  BY JobCall
<1> USE StatusFacts
<1> USE DEF others, bystanders
<1>1. CASE Fetch(j) \/ AwaitDial(j) \/ Report(j) \/ WatchdogReport(j) \/ Disconnected(j)
  BY <1>1 DEF Fetch, AwaitDial, Report, WatchdogReport, Disconnected, Goto, TypeOK, JobPc
<1>0. CASE WorkerFault(j)
  <2>1. FailType'
    BY <1>0, TypeFault DEF WorkerFault, DatabaseError
  <2> QED BY <1>0, <2>1 DEF WorkerFault, Goto, TypeOK, JobPc, FailType
<1>2. CASE Prewarm(j) \/ MarkRinging(j) \/ FailDial(j) \/ Activate(j) \/ Finalize(j) \/ Finish(j)
  <2>1. StatusType' /\ job' \in [Job -> JobPc]
    BY <1>2, TypeAdvance
       DEF Prewarm, MarkRinging, FailDial, Activate, Finalize, Finish, JobPc
  <2> QED BY <1>2, <2>1
       DEF Prewarm, MarkRinging, FailDial, Activate, Finalize, Finish, TypeOK, StatusType
<1>3. CASE Dial(j)
  <2>1. StatusType' /\ job' \in [Job -> JobPc]
    BY <1>3, TypeAdvance DEF Dial, JobPc
  <2>2. dials' \in [Call -> Nat]
    BY <1>3 DEF Dial, TypeOK
  <2>3. leg' \in [Call -> {"none", "dialing", "up", "refused", "down"}]
    BY <1>3 DEF Dial, TypeOK
  <2> QED BY <1>3, <2>1, <2>2, <2>3 DEF Dial, TypeOK, StatusType
<1>4. CASE Connect(j)
  <2>1. StatusType' /\ job' \in [Job -> JobPc]
    <3>1. CASE Advance(j, {"ringing"}, "connected", "connected")
      BY <3>1, TypeAdvance DEF JobPc
    <3>2. CASE Goto(j, "failing") /\ UNCHANGED status
      BY <3>2 DEF Goto, TypeOK, StatusType, JobPc
    <3> QED BY <1>4, <3>1, <3>2 DEF Connect
  <2> QED BY <1>4, <2>1 DEF Connect, TypeOK, StatusType
<1>5. CASE AcceptInbound(j) \/ ConnectInbound(j) \/ Complete(j) \/ RequestInput(j)
  <2>1. StatusType'
    BY <1>5 DEF AcceptInbound, ConnectInbound, Complete, RequestInput, Update, TypeOK,
       StatusType
  <2>2. job' \in [Job -> JobPc]
    BY <1>5 DEF AcceptInbound, ConnectInbound, Complete, RequestInput, Goto, TypeOK,
       JobPc, workers
  <2>3. FailType'
    BY <1>5, TypeFault DEF AcceptInbound, ConnectInbound, Complete, RequestInput
  <2> QED BY <1>5, <2>1, <2>2, <2>3
       DEF AcceptInbound, ConnectInbound, Complete, RequestInput, TypeOK, StatusType,
           FailType, workers
<1>6. CASE HangUpParticipant(j)
  BY <1>6 DEF HangUpParticipant, Goto, TypeOK, JobPc
<1>7. CASE WatchdogFail(j)
  <2>1. StatusType' /\ job' \in [Job -> JobPc]
    BY <1>7, TypeAdvance DEF WatchdogFail, JobPc
  <2>2. seen' \in [Job -> NonTerminal]
    BY <1>7 DEF WatchdogFail, TypeOK
  <2> QED BY <1>7, <2>1, <2>2 DEF WatchdogFail, TypeOK, StatusType
<1>8. CASE HandlerFail(j)
  <2>1. StatusType'
    BY <1>8 DEF HandlerFail, Update, TypeOK, StatusType
  <2>2. job' \in [Job -> JobPc] /\ seen' \in [Job -> NonTerminal]
    BY <1>8 DEF HandlerFail, Goto, TypeOK, JobPc
  <2>3. FailType'
    BY <1>8, TypeFault DEF HandlerFail
  <2> QED BY <1>8, <2>1, <2>2, <2>3 DEF HandlerFail, TypeOK, StatusType, FailType
<1>9. CASE WatchdogRead(j) \/ HandlerRead(j)
  <2>1. job' \in [Job -> JobPc]
    BY <1>9 DEF WatchdogRead, HandlerRead, Goto, TypeOK, JobPc
  <2>2. seen' \in [Job -> NonTerminal]
    BY <1>9 DEF WatchdogRead, HandlerRead, TypeOK
  <2>3. FailType'
    BY <1>9, TypeFault DEF WatchdogRead, HandlerRead
  <2> QED BY <1>9, <2>1, <2>2, <2>3 DEF WatchdogRead, HandlerRead, TypeOK, FailType
<1>10. QED
  BY <1>0, <1>1, <1>2, <1>3, <1>4, <1>5, <1>6, <1>7, <1>8, <1>9 DEF HandleCall, Conversation

LEMMA TypeCrash ==
  ASSUME TypeOK,
         \/ \E p \in Proc : Crash(p)
         \/ \E j \in Job : WorkerCrash(j)
  PROVE  TypeOK'
<1>1. ASSUME NEW p \in Proc, Crash(p)
      PROVE  TypeOK'
  <2>1. run' \in [Proc -> RunType]
    BY <1>1 DEF Crash, TypeOK, RunType, IdleRun
  <2>2. client' \in [Outbound -> ClientPc]
    BY <1>1 DEF Crash, TypeOK, ClientPc
  <2>3. cancel' \in [Call -> CancelType]
    BY <1>1, StatusFacts DEF Crash, TypeOK, CancelType, IdleCancel
  <2>4. FailType'
    BY <1>1 DEF Crash, TypeOK, FailType
  <2> QED BY <1>1, <2>1, <2>2, <2>3, <2>4 DEF Crash, TypeOK, FailType, livekit, workers
<1>2. ASSUME NEW j \in Job, WorkerCrash(j)
      PROVE  TypeOK'
  BY <1>2 DEF WorkerCrash, Goto, TypeOK, JobPc, bystanders
<1>3. QED
  BY <1>1, <1>2

LEMMA TypeInput ==
  ASSUME TypeOK, NEW c \in Call, InputAnswered(c)
  PROVE  TypeOK'
  BY StatusFacts DEF InputAnswered, Update, TypeOK, workers, others, bystanders

LEMMA TypeNext == TypeOK /\ [Next]_vars => TypeOK'
<1> SUFFICES ASSUME TypeOK, [Next]_vars
             PROVE  TypeOK'
  OBVIOUS
<1>1. CASE UNCHANGED vars
  BY <1>1 DEF vars, TypeOK
<1>2. CASE Next
  <2>1. \A c \in MayCancel : c \in Call
    BY Constants
  <2> QED
    BY <1>2, <2>1, TypeCreate, TypeDispatch, TypeCancel, TypePhone, TypeWorker,
       TypeCrash, TypeInput DEF Next
<1>3. QED
  BY <1>1, <1>2

\* Every reachable state is well typed; in particular a cancel or a failure
\* handler never holds a terminal status that it would overwrite.
THEOREM Typing == Spec => []TypeOK
  BY TypeInit, TypeNext, PTL DEF Spec

-----------------------------------------------------------------------------
(* Every write follows the transition table.  The table is not looked at   *)
(* by update_call; what makes the writes legal is the expected status that *)
(* each of them names, and that a row is inserted once.                    *)

LEMMA Edges ==
  LET T == Lifecycle!Transitions IN
  /\ \A s \in NonTerminal : {"cancelled", "failed"} \subseteq T[s]
  /\ {"validating", "connected"} \subseteq T["created"]
  /\ "queued" \in T["validating"]
  /\ "prewarming" \in T["queued"]
  /\ "dialing" \in T["prewarming"]
  /\ "ringing" \in T["dialing"]
  /\ "connected" \in T["ringing"]
  /\ "active" \in T["connected"]
  /\ {"input_required", "completing"} \subseteq T["active"]
  /\ {"active", "completing"} \subseteq T["input_required"]
  /\ "completed" \in T["completing"]
  BY StatusFacts DEF Lifecycle!Transitions, Lifecycle!Abort

LEMMA UpdateLegal ==
  ASSUME TypeOK, NEW c \in Call, NEW expected \in SUBSET Lifecycle!CallStatus, NEW new,
         \A s \in expected : new \in Lifecycle!Transitions[s],
         Update(c, expected, new)
  PROVE  Lifecycle!Next
  BY DEF Update, Lifecycle!Next, Lifecycle!Move

\* A create_call request that has not begun has no row.
RowInv == \A c \in Outbound : client[c] = "idle" => status[c] = Absent

LEMMA LegalCreate ==
  ASSUME TypeOK, RowInv, NEW c \in Outbound, CreateCall(c)
  PROVE  [Lifecycle!Next]_status
<1> c \in Call
  BY DEF Call
<1>1. CASE Insert(c)
  BY <1>1, StatusFacts DEF Insert, RowInv, Lifecycle!Next, Lifecycle!Create, Absent
<1>2. CASE Validate(c)
  BY <1>2, Edges, StatusFacts, UpdateLegal DEF Validate, transition
<1>3. CASE Queue(c)
  BY <1>3, Edges, StatusFacts, UpdateLegal DEF Queue, transition
<1>4. QED
  BY <1>1, <1>2, <1>3 DEF CreateCall

LEMMA LegalAdvance ==
  ASSUME TypeOK, NEW j \in Job, NEW expected \in SUBSET Lifecycle!CallStatus,
         NEW new, NEW pc,
         \A s \in expected : new \in Lifecycle!Transitions[s],
         Advance(j, expected, new, pc)
  PROVE  [Lifecycle!Next]_status
  BY JobCall, UpdateLegal DEF Advance

LEMMA LegalWorker ==
  ASSUME TypeOK, NEW j \in Job,
         HandleCall(j) \/ Conversation(j) \/ WorkerFault(j)
  PROVE  [Lifecycle!Next]_status
<1> j[1] \in Call /\ seen[j] \in NonTerminal
  BY JobCall DEF TypeOK
<1>1. CASE Prewarm(j) \/ Dial(j) \/ MarkRinging(j) \/ FailDial(j)
  BY <1>1, Edges, StatusFacts, LegalAdvance DEF Prewarm, Dial, MarkRinging, FailDial
<1>2. CASE Connect(j) \/ Activate(j) \/ Finalize(j)
  BY <1>2, Edges, StatusFacts, LegalAdvance DEF Connect, Activate, Finalize
<1>3. CASE Finish(j) \/ WatchdogFail(j)
  <2>1. \A s \in Talkable : "completing" \in Lifecycle!Transitions[s]
    BY Edges DEF Talkable
  <2>2. Talkable \subseteq Lifecycle!CallStatus /\ {seen[j]} \subseteq Lifecycle!CallStatus
    BY StatusFacts
  <2> QED BY <1>3, <2>1, <2>2, Edges, LegalAdvance DEF Finish, WatchdogFail
<1>4. CASE ConnectInbound(j) \/ RequestInput(j) \/ HandlerFail(j)
  BY <1>4, Edges, StatusFacts, UpdateLegal DEF ConnectInbound, RequestInput, HandlerFail
<1>5. CASE AcceptInbound(j)
  BY <1>5, StatusFacts DEF AcceptInbound, Lifecycle!Next, Lifecycle!Create, Absent
<1>6. CASE Complete(j)
  <2>1. \A s \in Talkable : "completing" \in Lifecycle!Transitions[s]
    BY Edges DEF Talkable
  <2>2. Talkable \subseteq Lifecycle!CallStatus
    BY StatusFacts
  <2> QED BY <1>6, <2>1, <2>2, UpdateLegal DEF Complete
<1>7. CASE \/ Fetch(j) \/ AwaitDial(j) \/ HangUpParticipant(j) \/ Disconnected(j)
           \/ WatchdogReport(j) \/ WatchdogRead(j) \/ Report(j) \/ HandlerRead(j)
           \/ WorkerFault(j)
  BY <1>7 DEF Fetch, AwaitDial, HangUpParticipant, Disconnected, WatchdogReport,
     WatchdogRead, Report, HandlerRead, WorkerFault
<1>8. QED
  BY <1>1, <1>2, <1>3, <1>4, <1>5, <1>6, <1>7 DEF HandleCall, Conversation

LEMMA LegalNext == TypeOK /\ RowInv /\ [Next]_vars => [Lifecycle!Next]_status
<1> SUFFICES ASSUME TypeOK, RowInv, [Next]_vars
             PROVE  [Lifecycle!Next]_status
  OBVIOUS
<1>1. ASSUME NEW p \in Proc, DispatchQueued(p)
      PROVE  [Lifecycle!Next]_status
  <2>1. CASE RecordRefusal(p)
    <3>1. \A c \in Outbound : Update(c, {"queued"}, "failed") => Lifecycle!Next
      BY Edges, StatusFacts, UpdateLegal DEF Call
    <3> QED BY <2>1, <3>1 DEF RecordRefusal
  <2>2. CASE ~RecordRefusal(p)
    BY <1>1, <2>2 DEF DispatchQueued, CountDispatched, ListQueued, Dispatch,
       DispatchFails, RecordDispatch
  <2> QED BY <2>1, <2>2
<1>2. ASSUME NEW c \in MayCancel, CancelCall(c)
      PROVE  [Lifecycle!Next]_status
  <2> c \in Call /\ cancel[c].seen \in NonTerminal
    BY Constants DEF TypeOK, CancelType
  <2>1. CASE CancelUpdate(c)
    BY <2>1, Edges, StatusFacts, UpdateLegal DEF CancelUpdate
  <2>2. CASE ~CancelUpdate(c)
    BY <1>2, <2>2 DEF CancelCall, CancelRead, CancelDelete, CancelDeleteFails
  <2> QED BY <2>1, <2>2
<1>3. ASSUME NEW c \in Call, Phone(c) \/ RoomExpires(c) \/ InputAnswered(c)
      PROVE  [Lifecycle!Next]_status
  BY <1>3, Edges, StatusFacts, UpdateLegal
     DEF Phone, Answer, Refuse, HangUp, RoomExpires, InputAnswered
<1>4. CASE \/ \E c \in Inbound : Ring(c)
           \/ \E j \in Job : j[1] \in Inbound /\ Redeliver(j)
           \/ \E p \in Proc : Crash(p)
           \/ \E j \in Job : WorkerCrash(j)
           \/ UNCHANGED vars
  BY <1>4 DEF Ring, Redeliver, Crash, WorkerCrash, vars
<1>5. QED
  BY <1>1, <1>2, <1>3, <1>4, LegalCreate, LegalWorker DEF Next

\* A client that was not idle stays so.
LEMMA ClientStep ==
  ASSUME TypeOK, [Next]_vars, NEW c \in Outbound, client'[c] = "idle"
  PROVE  client[c] = "idle"
<1>1. ASSUME NEW p, Leave(p, "returned")
      PROVE  client[c] = "idle"
  BY <1>1 DEF Leave
<1>2. ASSUME NEW p \in Proc, DispatchQueued(p)
      PROVE  client[c] = "idle"
  BY <1>1, <1>2 DEF DispatchQueued, CountDispatched, ListQueued, Dispatch,
     DispatchFails, RecordDispatch, RecordRefusal, NextInBatch
<1>3. ASSUME NEW d \in Outbound, CreateCall(d)
      PROVE  client[c] = "idle"
  BY <1>3 DEF CreateCall, Insert, Validate, Queue, transition, TypeOK
<1>4. ASSUME NEW p \in Proc, Crash(p)
      PROVE  client[c] = "idle"
  BY <1>4 DEF Crash
<1>5. CASE client' = client
  BY <1>5
<1>6. ASSUME NEW d \in Call, CancelCall(d) \/ Phone(d) \/ RoomExpires(d) \/ InputAnswered(d)
      PROVE  client' = client
  BY <1>6 DEF CancelCall, CancelRead, CancelDelete, CancelDeleteFails, CancelUpdate,
     Phone, Answer, Refuse, HangUp, RoomExpires, InputAnswered, others, bystanders
<1>7. ASSUME NEW j \in Job, HandleCall(j) \/ Conversation(j) \/ WorkerFault(j)
      PROVE  client' = client
  BY <1>7 DEF HandleCall, Conversation, WorkerFault, WatchdogReport, others, bystanders, Fetch, Prewarm, Dial,
     MarkRinging, AwaitDial, FailDial, Connect, AcceptInbound, ConnectInbound, Activate,
     HangUpParticipant, Disconnected, WatchdogFail, Report, Complete, Finalize,
     HandlerRead, HandlerFail, RequestInput, Finish, WatchdogRead
<1>8. CASE \/ \E d \in Inbound : Ring(d)
           \/ \E j \in Job : j[1] \in Inbound /\ Redeliver(j)
           \/ \E j \in Job : WorkerCrash(j)
           \/ UNCHANGED vars
  BY <1>8 DEF Ring, Redeliver, WorkerCrash, vars, bystanders
<1>9. QED
  BY Constants, <1>2, <1>3, <1>4, <1>5, <1>6, <1>7, <1>8 DEF Next

\* The row of an outbound call appears with the first step of its client.
LEMMA RowStep ==
  ASSUME TypeOK, RowInv, [Next]_vars, NEW c \in Outbound, client'[c] = "idle"
  PROVE  status'[c] = Absent
<1>1. client[c] = "idle" /\ status[c] = Absent /\ c \in Call /\ c \notin Inbound
  BY ClientStep, Constants DEF RowInv, Call
<1>2. CASE status' = status
  BY <1>1, <1>2
<1>3. ASSUME NEW d, NEW expected, NEW new, Update(d, expected, new), Absent \notin expected
      PROVE  status'[c] = Absent
  BY <1>1, <1>3 DEF Update, TypeOK
<1>4. Absent \notin Lifecycle!CallStatus /\ NonTerminal \subseteq Lifecycle!CallStatus
  BY StatusFacts
<1>5. ASSUME NEW d \in Outbound, CreateCall(d)
      PROVE  status'[c] = Absent
  <2>1. ~Insert(c)
    BY DEF Insert, TypeOK
  <2>2. CASE Insert(d)
    BY <1>1, <2>1, <2>2 DEF Insert, TypeOK
  <2>3. CASE ~Insert(d)
    BY <1>1, <1>3, <1>5, <2>3, StatusFacts DEF CreateCall, Validate, Queue, transition
  <2> QED BY <2>2, <2>3
<1>6. ASSUME NEW p \in Proc, DispatchQueued(p)
      PROVE  status'[c] = Absent
  BY <1>1, <1>3, <1>6, StatusFacts DEF DispatchQueued, CountDispatched, ListQueued,
     Dispatch, DispatchFails, RecordDispatch, RecordRefusal
<1>7. ASSUME NEW d \in Call, CancelCall(d) \/ Phone(d) \/ RoomExpires(d) \/ InputAnswered(d)
      PROVE  status'[c] = Absent
  <2> cancel[d].seen \in NonTerminal
    BY DEF TypeOK, CancelType
  <2> QED
    BY <1>1, <1>3, <1>4, <1>7, StatusFacts DEF CancelCall, CancelRead, CancelDelete,
       CancelDeleteFails, CancelUpdate, Phone, Answer, Refuse, HangUp, RoomExpires,
       InputAnswered
<1>8. ASSUME NEW j \in Job, HandleCall(j) \/ Conversation(j) \/ WorkerFault(j)
      PROVE  status'[c] = Absent
  <2> seen[j] \in NonTerminal
    BY DEF TypeOK
  <2>1. ASSUME NEW expected, NEW new, NEW pc, Advance(j, expected, new, pc),
               Absent \notin expected
        PROVE  status'[c] = Absent
    BY <1>1, <1>3, <2>1 DEF Advance
  <2>2. Absent \notin Talkable
    BY StatusFacts
  <2>3. CASE AcceptInbound(j)
    BY <1>1, <2>3 DEF AcceptInbound, TypeOK
  <2>4. CASE Prewarm(j) \/ Dial(j) \/ MarkRinging(j) \/ FailDial(j) \/ Connect(j)
             \/ Activate(j) \/ Finalize(j) \/ Finish(j) \/ WatchdogFail(j)
    BY <1>1, <1>4, <2>1, <2>2, <2>4, StatusFacts DEF Prewarm, Dial, MarkRinging,
       FailDial, Connect, Activate, Finalize, Finish, WatchdogFail
  <2>5. CASE ConnectInbound(j) \/ Complete(j) \/ RequestInput(j) \/ HandlerFail(j)
    BY <1>1, <1>3, <1>4, <2>2, <2>5, StatusFacts DEF ConnectInbound, Complete,
       RequestInput, HandlerFail
  <2>6. CASE \/ Fetch(j) \/ AwaitDial(j) \/ HangUpParticipant(j) \/ Disconnected(j)
             \/ WatchdogReport(j) \/ WatchdogRead(j) \/ Report(j) \/ HandlerRead(j)
             \/ WorkerFault(j)
    BY <1>1, <2>6 DEF Fetch, AwaitDial, HangUpParticipant, Disconnected, WatchdogReport,
       WatchdogRead, Report, HandlerRead, WorkerFault
  <2> QED BY <1>8, <2>3, <2>4, <2>5, <2>6 DEF HandleCall, Conversation
<1>9. CASE \/ \E d \in Inbound : Ring(d)
           \/ \E j \in Job : j[1] \in Inbound /\ Redeliver(j)
           \/ \E p \in Proc : Crash(p)
           \/ \E j \in Job : WorkerCrash(j)
           \/ UNCHANGED vars
  BY <1>1, <1>9 DEF Ring, Redeliver, Crash, WorkerCrash, vars
<1>10. QED
  BY Constants, <1>5, <1>6, <1>7, <1>8, <1>9 DEF Next

LEMMA Rows == Spec => [](TypeOK /\ RowInv)
<1>1. Init => TypeOK /\ RowInv
  BY TypeInit DEF Init, RowInv, Call
<1>2. TypeOK /\ RowInv /\ [Next]_vars => (TypeOK /\ RowInv)'
  <2>1. TypeOK /\ RowInv /\ [Next]_vars => RowInv'
    BY RowStep DEF RowInv, Absent, Lifecycle!Absent
  <2> QED BY <2>1, TypeNext
<1>3. QED
  BY <1>1, <1>2, PTL DEF Spec

\* The processes that share the calls table implement the state machine of
\* calls/state.py, whatever crashes and however their writes interleave.
THEOREM LegalLifecycle == Spec => LegalTransitions
<1>1. Init => Lifecycle!Init
  BY DEF Init, Lifecycle!Init, Absent
<1>2. TypeOK /\ RowInv /\ [Next]_vars => [Lifecycle!Next]_status
  BY LegalNext
<1>3. QED
  BY <1>1, <1>2, Rows, PTL DEF Spec, Lifecycle!Spec, LegalTransitions

=============================================================================
