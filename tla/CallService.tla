---------------------------- MODULE CallService ----------------------------
(***************************************************************************)
(* The control plane of CallTool: the API process (and the CLI doctor, a   *)
(* second process with a CallService of its own) that creates, queues,     *)
(* dispatches and cancels calls; the LiveKit workers that each run one     *)
(* job per dispatch and drive the call through its statuses; and the       *)
(* PostgreSQL row of every call, which is all these processes share.       *)
(*                                                                         *)
(* One action is one statement sequence between two awaits: a repository   *)
(* call is atomic (update_call holds the row lock of its transaction), the *)
(* code around it is not.  A read that only prechecks the condition which  *)
(* the following update checks again is merged with that update.  A        *)
(* statement may fail, before it has changed the row or after it.          *)
(***************************************************************************)
EXTENDS Integers, FiniteSets

CONSTANTS
  Outbound,       \* calls a client asks for; numbered in created_at order
  Inbound,        \* calls that arrive over the SIP trunk
  Cli,            \* the outbound calls placed by `calltool doctor --call`
  MayAsk,         \* the calls whose agent may call request_user_input
  MayCancel,      \* bound: the calls a client cancels
  Loads,          \* bound: which calls are there together, and how much fails then:
                  \* the exceptions, those of LiveKit's dispatch API apart
  MaxConcurrent,  \* calls.max_concurrent of the configuration
  MaxJobs,        \* bound: LiveKit jobs per call
  MaxCrashes,     \* bound: process deaths, API, CLI and workers together
  RoomTimeouts    \* may LiveKit close a room before its job is accepted?

Call == Outbound \cup Inbound
Job  == Call \X (1..MaxJobs)
Proc == {"api", "cli"}

ASSUME Constants ==
  /\ Outbound \subseteq Nat \ {0}
  /\ Inbound \subseteq Nat \ {0}
  /\ Outbound \cap Inbound = {}
  /\ IsFiniteSet(Outbound) /\ IsFiniteSet(Inbound)
  /\ Cli \subseteq Outbound
  /\ MayAsk \subseteq Outbound
  /\ MayCancel \subseteq Call
  /\ MaxConcurrent \in Nat \ {0}
  /\ MaxJobs \in Nat \ {0}
  /\ MaxCrashes \in Nat
  /\ RoomTimeouts \in BOOLEAN

VARIABLES
  status,      \* calls.status, or "absent" while there is no row
  dispatched,  \* does the row hold room_name and dispatch_id?
  client,      \* progress of the create_call request of each outbound call
  run,         \* progress of dispatch_queued in each process
  cancel,      \* progress of a cancel_call request for each call
  room,        \* the LiveKit room of each call
  leg,         \* the SIP leg to the other party
  dials,       \* how often create_sip_participant was called for the call
  job,         \* progress of handle_call in each job
  seen,        \* the status the failure handler of a job has read
  crashes,     \* process deaths so far
  faults,      \* exceptions so far, of those that Loads bounds
  unrecorded   \* history: dispatches of a call which its row does not know of

failures == <<crashes, faults, unrecorded>>

vars == <<status, dispatched, client, run, cancel, room, leg, dials, job,
          seen, failures>>

Lifecycle == INSTANCE CallStateMachine

Absent      == Lifecycle!Absent
Terminal    == Lifecycle!Terminal
NonTerminal == Lifecycle!NonTerminal

\* The statuses of a call nobody has started to work on.
Waiting == {"created", "validating", "queued"}

Talkable == {"active", "input_required"}

Scheduler == 0     \* the owner of a dispatch run that no request started

ProcOf(c) == IF c \in Cli THEN "cli" ELSE "api"

IdleRun == [pc |-> "idle", owner |-> Scheduler, cap |-> 0, batch |-> {}]

IdleCancel == [pc |-> "idle", seen |-> "created", room |-> FALSE]

\* "failed": the request broke off, and with it what it had still to do.
ClientPc == {"idle", "created", "validating", "queued", "dispatching",
             "returned", "failed"}

JobPc == {"none", "offered", "fetched", "prewarmed", "dialing", "ringing",
          "rejected", "answered", "inserted", "connected", "talking",
          "finishing", "silent", "watchdog", "ending", "reported",
          "completing", "failing", "handling", "done", "lost", "expired",
          "dead"}

\* Jobs that are over without a last look at their call: the database failed
\* the handler, the room expired under the offer, or the process was killed.
Gone == {"lost", "expired", "dead"}

\* Jobs whose process runs handle_call.
Running == JobPc \ ({"none", "offered", "done"} \cup Gone)

\* Jobs that won the call and act for it: at most one may exist per call.
InCharge == {"prewarmed", "dialing", "ringing", "rejected", "answered",
             "connected", "talking", "finishing", "silent", "watchdog",
             "ending", "reported", "completing"}

Init ==
  /\ status = [c \in Call |-> Absent]
  /\ dispatched = [c \in Call |-> FALSE]
  /\ client = [c \in Outbound |-> "idle"]
  /\ run = [p \in Proc |-> IdleRun]
  /\ cancel = [c \in Call |-> IdleCancel]
  /\ room = [c \in Call |-> "none"]
  /\ leg = [c \in Call |-> "none"]
  /\ dials = [c \in Call |-> 0]
  /\ job = [j \in Job |-> "none"]
  /\ seen = [j \in Job |-> "created"]
  /\ crashes = 0
  /\ faults = 0
  /\ unrecorded = [c \in Outbound |-> 0]

livekit == <<room, leg, dials>>
workers == <<job, seen>>

\* update_call(call, status = new, expected_statuses = expected), succeeding.
Update(c, expected, new) ==
  /\ status[c] \in expected
  /\ status' = [status EXCEPT ![c] = new]

\* The bound on what comes together.
Fits(load) ==
  /\ faults <= load.faults
  /\ \A d \in Call \ load.calls : status[d] = Absent /\ leg[d] = "none"

Comes(c) == \E load \in Loads : Fits(load) /\ c \in load.calls

\* Something raises, and is not repeated.
Fault ==
  /\ \E load \in Loads : Fits(load) /\ faults < load.faults
  /\ faults' = faults + 1
  /\ UNCHANGED crashes

DatabaseError == Fault /\ UNCHANGED unrecorded

-----------------------------------------------------------------------------
(* CallService.create_call, one request per outbound call.                 *)

Insert(c) ==
  /\ client[c] = "idle" /\ Comes(c)
  /\ status' = [status EXCEPT ![c] = "created"]
  /\ \/ client' = [client EXCEPT ![c] = "created"] /\ UNCHANGED failures
     \/ client' = [client EXCEPT ![c] = "failed"] /\ DatabaseError
  /\ UNCHANGED <<dispatched, run, cancel, livekit, workers>>

\* transition(): raises when a concurrent cancel has moved the call, and when
\* the database fails; nobody goes on with the call then.
transition(c, from, to) ==
  /\ client[c] = from
  /\ \/ /\ Update(c, {from}, to)
        /\ client' = [client EXCEPT ![c] = to]
        /\ UNCHANGED failures
     \/ /\ status[c] # from
        /\ client' = [client EXCEPT ![c] = "returned"]
        /\ UNCHANGED <<status, failures>>
     \/ /\ DatabaseError
        /\ client' = [client EXCEPT ![c] = "failed"]
        /\ Update(c, {from}, to) \/ UNCHANGED status
  /\ UNCHANGED <<dispatched, run, cancel, livekit, workers>>

Validate(c) == transition(c, "created", "validating")
Queue(c)    == transition(c, "validating", "queued")

-----------------------------------------------------------------------------
(* CallService.dispatch_queued, run under the _dispatch_lock of a process  *)
(* by a create_call request or by the scheduler loop of the API.           *)

\* count_dispatched: calls that hold a slot.
Occupied ==
  {c \in Call : /\ status[c] \in NonTerminal
                /\ status[c] \notin Waiting \/ dispatched[c]}

\* Mutant of Capacity: calls handed to LiveKit but not started hold no slot.
Capacity_StartedOnly ==
  LET n == Cardinality({c \in Occupied : status[c] \notin Waiting})
  IN  IF n < MaxConcurrent THEN MaxConcurrent - n ELSE 0

Capacity ==
  LET n == Cardinality(Occupied)
  IN  IF n < MaxConcurrent THEN MaxConcurrent - n ELSE 0

\* Mutant of Leave: the lock is not released.
Leave_KeepsLock(p, result) ==
  /\ run' = [run EXCEPT ![p].pc = "listed", ![p].batch = {}]
  /\ client' = [c \in Outbound |->
                  IF c = run[p].owner THEN result ELSE client[c]]

\* dispatch_queued returns or raises; so does the request that awaits it.
Leave(p, result) ==
  /\ run' = [run EXCEPT ![p] = IdleRun]
  /\ client' = [c \in Outbound |->
                  IF c = run[p].owner THEN result ELSE client[c]]

\* Acquire the lock and count.  With no capacity the lock is released, and also
\* when the count fails (which for the scheduler is a tick without effect).
CountDispatched(p, owner) ==
  /\ run[p].pc = "idle"
  /\ \/ owner = Scheduler /\ p = "api"
     \/ owner \in Outbound /\ client[owner] = "queued" /\ ProcOf(owner) = p
  /\ \/ /\ Capacity > 0
        /\ run' = [run EXCEPT ![p] = [pc |-> "counted", owner |-> owner,
                                      cap |-> Capacity, batch |-> {}]]
        /\ client' = [c \in Outbound |->
                        IF c = owner THEN "dispatching" ELSE client[c]]
        /\ UNCHANGED failures
     \/ /\ \/ Capacity = 0 /\ UNCHANGED failures
           \/ owner \in Outbound /\ DatabaseError
        /\ client' = [c \in Outbound |->
                        IF c = owner THEN "returned" ELSE client[c]]
        /\ UNCHANGED run
  /\ UNCHANGED <<status, dispatched, cancel, livekit, workers>>

Queued == {c \in Outbound : status[c] = "queued" /\ ~dispatched[c]}

\* list_queued(limit = capacity): the oldest queued calls.
IsOldest(B, limit) ==
  /\ \A b \in B, d \in Queued \ B : b < d
  /\ \/ Cardinality(B) = limit
     \/ Cardinality(B) < limit /\ B = Queued

ListQueued(p) ==
  /\ run[p].pc = "counted"
  /\ \/ \E B \in SUBSET Queued :
          /\ IsOldest(B, run[p].cap)
          /\ IF B = {}
             THEN Leave(p, "returned")
             ELSE /\ run' = [run EXCEPT ![p].pc = "listed", ![p].batch = B]
                  /\ UNCHANGED client
          /\ UNCHANGED failures
     \/ Leave(p, "returned") /\ DatabaseError
  /\ UNCHANGED <<status, dispatched, cancel, livekit, workers>>

\* The call the loop over the batch is at.
Current(p, c) == c \in run[p].batch /\ \A d \in run[p].batch : c <= d

\* A job slot that was never used.
Free(j) == job[j] = "none" /\ \A k \in Job : k[1] = j[1] /\ k[2] < j[2] => job[k] # "none"

\* dispatcher.dispatch: create_room (a no-op if it exists) and create_dispatch.
\* The call is not read again, it may have moved since it was listed.
Dispatch(p, j) ==
  /\ run[p].pc = "listed"
  /\ Current(p, j[1]) /\ Free(j)
  /\ room' = [room EXCEPT ![j[1]] = "open"]
  /\ job' = [job EXCEPT ![j] = "offered"]
  /\ run' = [run EXCEPT ![p].pc = "sent"]
  /\ UNCHANGED <<status, dispatched, client, cancel, leg, dials, seen, failures>>

\* DispatchError: raised before LiveKit took the dispatch, or after it when
\* the answer was lost.
DispatchFails(p, j) ==
  /\ run[p].pc = "listed"
  /\ Current(p, j[1]) /\ Free(j)
  /\ \/ UNCHANGED <<room, job>>
     \/ room' = [room EXCEPT ![j[1]] = "open"] /\ UNCHANGED job
     \/ /\ room' = [room EXCEPT ![j[1]] = "open"]
        /\ job' = [job EXCEPT ![j] = "offered"]
  /\ run' = [run EXCEPT ![p].pc = "refused"]
  /\ UNCHANGED <<status, dispatched, client, cancel, leg, dials, seen, failures>>

\* Mutant of NextInBatch: the loop stays at the call.
NextInBatch_Again(p, c) ==
  /\ run' = [run EXCEPT ![p].pc = "listed"]
  /\ UNCHANGED client

\* The loop goes on with the next call of the batch, or returns.
NextInBatch(p, c) ==
  IF run[p].batch = {c}
  THEN Leave(p, "returned")
  ELSE /\ run' = [run EXCEPT ![p].pc = "listed", ![p].batch = @ \ {c}]
       /\ UNCHANGED client

\* The job that LiveKit was given stays, and nothing in the row tells of it.
Forget(c) == unrecorded' = [unrecorded EXCEPT ![c] = @ + 1]

\* The update after a dispatch expects {QUEUED}; when the call has moved, the
\* InvalidStateTransitionError leaves dispatch_queued and drops the batch.  So
\* does a database error: the scheduler logs it and lists the call again.
RecordDispatch(p) ==
  /\ run[p].pc = "sent"
  /\ \E c \in Outbound :
       /\ Current(p, c)
       /\ \/ /\ status[c] = "queued"
             /\ dispatched' = [dispatched EXCEPT ![c] = TRUE]
             /\ \/ NextInBatch(p, c) /\ UNCHANGED failures
                \/ Leave(p, "returned") /\ DatabaseError
          \/ /\ status[c] # "queued"
             /\ Leave(p, "returned")
             /\ UNCHANGED <<dispatched, failures>>
          \/ /\ status[c] = "queued"
             /\ Fault /\ Forget(c)
             /\ Leave(p, "returned")
             /\ UNCHANGED dispatched
  /\ UNCHANGED <<status, cancel, livekit, workers>>

RecordRefusal(p) ==
  /\ run[p].pc = "refused"
  /\ \E c \in Outbound :
       /\ Current(p, c)
       /\ \/ /\ Update(c, {"queued"}, "failed")
             /\ \/ NextInBatch(p, c) /\ UNCHANGED failures
                \/ Leave(p, "returned") /\ DatabaseError
          \/ /\ status[c] # "queued"
             /\ Leave(p, "returned")
             /\ UNCHANGED <<status, failures>>
          \/ /\ status[c] = "queued"
             /\ Fault /\ Forget(c)
             /\ Leave(p, "returned")
             /\ UNCHANGED status
  /\ UNCHANGED <<dispatched, cancel, livekit, workers>>

-----------------------------------------------------------------------------
(* CallService.cancel_call.  Its three awaits leave room for the worker.   *)

\* Is room_name in the row?  An inbound call is created with it.
RoomKnown(c) == dispatched[c] \/ c \in Inbound

\* Mutant of CancelRead: a call that has ended is cancelled all the same.
CancelRead_AnyStatus(c) ==
  /\ cancel[c].pc = "idle"
  /\ status[c] # Absent
  /\ cancel' = [cancel EXCEPT ![c] = [pc |-> "delete", seen |-> status[c],
                                      room |-> RoomKnown(c)]]
  /\ UNCHANGED <<status, dispatched, client, run, livekit, workers, failures>>

CancelRead(c) ==
  /\ cancel[c].pc = "idle"
  /\ status[c] \in NonTerminal
  /\ cancel' = [cancel EXCEPT ![c] = [pc |-> "delete", seen |-> status[c],
                                      room |-> RoomKnown(c)]]
  /\ UNCHANGED <<status, dispatched, client, run, livekit, workers, failures>>

\* Deleting the room removes every participant, and with it the SIP leg.
\* Without a room name in the row it has read, cancel() deletes nothing.
CancelDelete(c) ==
  /\ cancel[c].pc = "delete"
  /\ cancel' = [cancel EXCEPT ![c].pc = "update"]
  /\ IF cancel[c].room
     THEN /\ room' = [room EXCEPT ![c] = "deleted"]
          /\ leg' = [leg EXCEPT ![c] = IF @ = "none" THEN "none" ELSE "down"]
     ELSE UNCHANGED <<room, leg>>
  /\ UNCHANGED <<status, dispatched, client, run, dials, workers, failures>>

\* delete_room fails, for one because the room is gone: DispatchError.
CancelDeleteFails(c) ==
  /\ cancel[c].pc = "delete" /\ cancel[c].room
  /\ cancel' = [cancel EXCEPT ![c] = IdleCancel]
  /\ UNCHANGED <<status, dispatched, client, run, livekit, workers, failures>>

\* Mutant of CancelUpdate: whatever the call has become is overwritten.
CancelUpdate_AnyStatus(c) ==
  /\ cancel[c].pc = "update"
  /\ cancel' = [cancel EXCEPT ![c] = IdleCancel]
  /\ status' = [status EXCEPT ![c] = "cancelled"]
  /\ UNCHANGED <<dispatched, client, run, livekit, workers, failures>>

\* The update expects the status read first: else 409, and the call goes on.
CancelUpdate(c) ==
  /\ cancel[c].pc = "update"
  /\ cancel' = [cancel EXCEPT ![c] = IdleCancel]
  /\ \/ Update(c, {cancel[c].seen}, "cancelled") /\ UNCHANGED failures
     \/ status[c] # cancel[c].seen /\ UNCHANGED <<status, failures>>
     \/ DatabaseError /\ UNCHANGED status
  /\ UNCHANGED <<dispatched, client, run, livekit, workers>>

-----------------------------------------------------------------------------
(* LiveKit, the SIP trunk and the people on the phone: external.           *)

Answer(c) ==
  /\ leg[c] = "dialing"
  /\ leg' = [leg EXCEPT ![c] = "up"]
  /\ UNCHANGED <<status, dispatched, client, run, cancel, room, dials, workers, failures>>

\* Busy, no answer, rejected, or a provider failure.
Refuse(c) ==
  /\ leg[c] = "dialing"
  /\ leg' = [leg EXCEPT ![c] = "refused"]
  /\ UNCHANGED <<status, dispatched, client, run, cancel, room, dials, workers, failures>>

\* The remote party hangs up, or max_call_duration passes.
HangUp(c) ==
  /\ leg[c] = "up"
  /\ leg' = [leg EXCEPT ![c] = "down"]
  /\ UNCHANGED <<status, dispatched, client, run, cancel, room, dials, workers, failures>>

\* empty_timeout or departure_timeout: nobody is in the room.  A dispatch
\* that no worker has accepted goes with it.
RoomExpires(c) ==
  /\ RoomTimeouts
  /\ room[c] = "open" /\ leg[c] \notin {"dialing", "up"}
  /\ \A j \in Job : j[1] = c => job[j] \notin Running
  /\ room' = [room EXCEPT ![c] = "closed"]
  /\ job' = [j \in Job |-> IF j[1] = c /\ job[j] = "offered" THEN "expired" ELSE job[j]]
  /\ UNCHANGED <<status, dispatched, client, run, cancel, leg, dials, seen, failures>>

\* A caller reaches the trunk: room, leg and job exist before any row does.
Ring(c) ==
  /\ leg[c] = "none" /\ Comes(c)
  /\ leg' = [leg EXCEPT ![c] = "up"]
  /\ room' = [room EXCEPT ![c] = "open"]
  /\ job' = [job EXCEPT ![<<c, 1>>] = "offered"]
  /\ UNCHANGED <<status, dispatched, client, run, cancel, dials, seen, failures>>

\* LiveKit offers the job of an inbound call again.
Redeliver(j) ==
  /\ leg[j[1]] = "up" /\ Free(j)
  /\ job' = [job EXCEPT ![j] = "offered"]
  /\ UNCHANGED <<status, dispatched, client, run, cancel, livekit, seen, failures>>

-----------------------------------------------------------------------------
(* handle_call in a worker job.  A job is the pair of its call and a slot. *)

Goto(j, pc) == job' = [job EXCEPT ![j] = pc]

\* An update of the job's call, or InvalidStateTransitionError.
Advance(j, expected, new, pc) ==
  \/ Update(j[1], expected, new) /\ Goto(j, pc)
  \/ status[j[1]] \notin expected /\ Goto(j, "failing") /\ UNCHANGED status

\* What handle_call leaves alone when it moves from one statement to the next.
bystanders == <<dispatched, client, run, cancel, room>>
others     == <<bystanders, failures>>

Fetch(j) ==
  /\ job[j] = "offered" /\ j[1] \in Outbound
  /\ Goto(j, IF status[j[1]] \in NonTerminal THEN "fetched" ELSE "done")
  /\ UNCHANGED <<status, leg, dials, seen, others>>

\* Mutants of Prewarm: the update expects no status, or lets a second job in.
Prewarm_AnyStatus(j) ==
  /\ job[j] = "fetched"
  /\ Advance(j, NonTerminal, "prewarming", "prewarmed")
  /\ UNCHANGED <<leg, dials, seen, others>>

Prewarm_Twice(j) ==
  /\ job[j] = "fetched"
  /\ Advance(j, {"queued", "prewarming"}, "prewarming", "prewarmed")
  /\ UNCHANGED <<leg, dials, seen, others>>

Prewarm(j) ==
  /\ job[j] = "fetched"
  /\ Advance(j, {"queued"}, "prewarming", "prewarmed")
  /\ UNCHANGED <<leg, dials, seen, others>>

\* The update to DIALING and the dial task it is followed by.
Dial(j) ==
  /\ job[j] = "prewarmed"
  /\ Advance(j, {"prewarming"}, "dialing", "dialing")
  /\ IF job'[j] = "dialing"
     THEN /\ dials' = [dials EXCEPT ![j[1]] = @ + 1]
          /\ leg' = [leg EXCEPT ![j[1]] =
                       IF room[j[1]] = "open" THEN "dialing" ELSE "refused"]
     ELSE UNCHANGED <<dials, leg>>
  /\ UNCHANGED <<seen, others>>

MarkRinging(j) ==
  /\ job[j] = "dialing"
  /\ Advance(j, {"dialing"}, "ringing", "ringing")
  /\ UNCHANGED <<leg, dials, seen, others>>

\* await dial_task: an answer, a SipCallError, or another exception because
\* the room went away.
AwaitDial(j) ==
  /\ job[j] = "ringing" /\ leg[j[1]] # "dialing"
  /\ \/ leg[j[1]] \in {"up", "down"} /\ Goto(j, "answered")
     \/ leg[j[1]] = "refused" /\ Goto(j, "rejected")
     \/ leg[j[1]] = "down" /\ Goto(j, "failing")
  /\ UNCHANGED <<status, leg, dials, seen, others>>

FailDial(j) ==
  /\ job[j] = "rejected"
  /\ Advance(j, {"ringing"}, "failed", "done")
  /\ UNCHANGED <<leg, dials, seen, others>>

\* wait_for_participant needs the participant; it raises once it cannot come.
Connect(j) ==
  /\ job[j] = "answered"
  /\ \/ leg[j[1]] = "up" /\ Advance(j, {"ringing"}, "connected", "connected")
     \/ leg[j[1]] = "down" /\ Goto(j, "failing") /\ UNCHANGED status
  /\ UNCHANGED <<leg, dials, seen, others>>

\* create_inbound_call: a row that is there already is returned as it is, and
\* the job only goes on with it when it is CONNECTED.
AcceptInbound(j) ==
  /\ job[j] = "offered" /\ j[1] \in Inbound
  /\ \/ /\ status[j[1]] = Absent
        /\ status' = [status EXCEPT ![j[1]] = "created"]
        /\ \/ Goto(j, "inserted") /\ UNCHANGED failures
           \/ Goto(j, "lost") /\ DatabaseError
     \/ /\ status[j[1]] # Absent
        /\ Goto(j, IF status[j[1]] = "connected" THEN "connected" ELSE "done")
        /\ UNCHANGED <<status, failures>>
     \/ Goto(j, "lost") /\ DatabaseError /\ UNCHANGED status
  /\ UNCHANGED <<leg, dials, seen, bystanders>>

\* When this update raises the handler does not know the call_id yet.
ConnectInbound(j) ==
  /\ job[j] = "inserted"
  /\ \/ /\ Update(j[1], {"created"}, "connected")
        /\ \/ Goto(j, "connected") /\ UNCHANGED failures
           \/ Goto(j, "lost") /\ DatabaseError
     \/ status[j[1]] # "created" /\ Goto(j, "done") /\ UNCHANGED <<status, failures>>
     \/ Goto(j, "lost") /\ DatabaseError /\ UNCHANGED status
  /\ UNCHANGED <<leg, dials, seen, bystanders>>

\* _run_amd also expects CONNECTED; its write is merged with this one.
Activate(j) ==
  /\ job[j] = "connected"
  /\ Advance(j, {"connected"}, "active", "talking")
  /\ UNCHANGED <<leg, dials, seen, others>>

\* request_user_input: CallService.request_input moves the call.
RequestInput(j) ==
  /\ job[j] = "talking" /\ j[1] \in MayAsk
  /\ Update(j[1], {"active"}, "input_required")
  /\ UNCHANGED <<leg, dials, workers, others>>

\* CallService.respond in the API, or expire_input in the worker.
InputAnswered(c) ==
  /\ Update(c, {"input_required"}, "active")
  /\ UNCHANGED <<leg, dials, workers, others>>

\* The finish_call tool, or _finish_amd_call for a machine or an IVR timeout.
\* Of the two only the latter fails the job when the call has moved.
Finish(j) ==
  /\ job[j] = "talking"
  /\ Advance(j, Talkable, "completing", "finishing")
  /\ UNCHANGED <<leg, dials, seen, others>>

\* end_reason = finish: after the farewell the SIP participant is removed.
\* A hangup that fails is only logged; a transferred leg is left alone.
HangUpParticipant(j) ==
  /\ job[j] = "finishing"
  /\ Goto(j, "ending")
  /\ \/ leg' = [leg EXCEPT ![j[1]] = "down"]
     \/ UNCHANGED leg
  /\ UNCHANGED <<status, dials, seen, others>>

\* end_reason = disconnected
Disconnected(j) ==
  /\ job[j] = "talking" /\ leg[j[1]] # "up"
  /\ Goto(j, "ending")
  /\ UNCHANGED <<status, leg, dials, seen, others>>

\* _persist_session_report expects a call that is on, or the job fails.
Reportable(c) == status[c] \in Talkable \cup {"completing"}

\* end_reason = watchdog: report the session, read the call, then fail it.
WatchdogReport(j) ==
  /\ job[j] = "talking"
  /\ Goto(j, IF Reportable(j[1]) THEN "silent" ELSE "failing")
  /\ UNCHANGED <<status, leg, dials, seen, others>>

WatchdogRead(j) ==
  /\ job[j] = "silent"
  /\ IF status[j[1]] \in NonTerminal
     THEN Goto(j, "watchdog") /\ seen' = [seen EXCEPT ![j] = status[j[1]]]
     ELSE Goto(j, "done") /\ UNCHANGED seen
  /\ UNCHANGED <<status, leg, dials, others>>

WatchdogFail(j) ==
  /\ job[j] = "watchdog"
  /\ Advance(j, {seen[j]}, "failed", "done")
  /\ seen' = [seen EXCEPT ![j] = "created"]
  /\ UNCHANGED <<leg, dials, others>>

Report(j) ==
  /\ job[j] = "ending"
  /\ Goto(j, IF Reportable(j[1]) THEN "reported" ELSE "failing")
  /\ UNCHANGED <<status, leg, dials, seen, others>>

\* _complete_call, up to COMPLETING
Complete(j) ==
  /\ job[j] = "reported"
  /\ \/ status[j[1]] \notin NonTerminal /\ Goto(j, "done") /\ UNCHANGED status
     \/ status[j[1]] = "completing" /\ Goto(j, "completing") /\ UNCHANGED status
     \/ Update(j[1], Talkable, "completing") /\ Goto(j, "completing")
  /\ UNCHANGED <<leg, dials, seen, others>>

\* _complete_call, after the supervisor has enriched the outcome
Finalize(j) ==
  /\ job[j] = "completing"
  /\ Advance(j, {"completing"}, "completed", "done")
  /\ UNCHANGED <<leg, dials, seen, others>>

\* An exception of LiveKit, Gemini or PostgreSQL in handle_call; of a statement
\* that fails after its commit the call shows the effect.
WorkerFault(j) ==
  /\ job[j] \in Running \ {"inserted", "failing", "handling"}
  /\ Goto(j, "failing")
  /\ Fault
  /\ UNCHANGED <<status, leg, dials, seen, bystanders, unrecorded>>

\* Mutants of HandlerRead: a call that has ended keeps the handler waiting, and
\* a call that is still queued is left to the scheduler.
HandlerRead_OpenOnly(j) ==
  /\ job[j] = "failing"
  /\ status[j[1]] \in NonTerminal
  /\ Goto(j, "handling") /\ seen' = [seen EXCEPT ![j] = status[j[1]]]
  /\ UNCHANGED <<status, leg, dials, others>>

HandlerRead_NotQueued(j) ==
  /\ job[j] = "failing"
  /\ IF status[j[1]] \in NonTerminal \ {"queued"}
     THEN Goto(j, "handling") /\ seen' = [seen EXCEPT ![j] = status[j[1]]]
     ELSE Goto(j, "done") /\ UNCHANGED seen
  /\ UNCHANGED <<status, leg, dials, others>>

\* The exception handler reads the call, whoever may be in charge of it.  When
\* this read raises the job is over, and the row is left as it is ...
HandlerRead(j) ==
  /\ job[j] = "failing"
  /\ \/ /\ status[j[1]] \in NonTerminal
        /\ Goto(j, "handling") /\ seen' = [seen EXCEPT ![j] = status[j[1]]]
        /\ UNCHANGED failures
     \/ status[j[1]] \notin NonTerminal /\ Goto(j, "done") /\ UNCHANGED <<seen, failures>>
     \/ Goto(j, "lost") /\ DatabaseError /\ UNCHANGED seen
  /\ UNCHANGED <<status, leg, dials, bystanders>>

\* ... and marks it FAILED unless it has moved since; every error of this update
\* is suppressed, that of a database which did not take it among them.
HandlerFail(j) ==
  /\ job[j] = "handling"
  /\ \/ Update(j[1], {seen[j]}, "failed") /\ Goto(j, "done") /\ UNCHANGED failures
     \/ status[j[1]] # seen[j] /\ Goto(j, "done") /\ UNCHANGED <<status, failures>>
     \/ Goto(j, "lost") /\ DatabaseError /\ UNCHANGED status
  /\ seen' = [seen EXCEPT ![j] = "created"]
  /\ UNCHANGED <<leg, dials, bystanders>>

-----------------------------------------------------------------------------
(* Process deaths.  The API forgets its requests and its dispatch run and  *)
(* starts again; a worker job is not started again, its leg stays.         *)

\* LiveKit was asked for a job of the call, and its row is to be updated.
Asked(p, c) ==
  run[p].pc \in {"sent", "refused"} /\ Current(p, c) /\ status[c] = "queued"

Crash(p) ==
  /\ crashes < MaxCrashes
  /\ crashes' = crashes + 1
  /\ run' = [run EXCEPT ![p] = IdleRun]
  /\ client' = [c \in Outbound |->
                  IF ProcOf(c) = p /\ client[c] \notin {"idle", "returned"}
                  THEN "failed" ELSE client[c]]
  /\ cancel' = IF p = "api" THEN [c \in Call |-> IdleCancel] ELSE cancel
  /\ unrecorded' = [c \in Outbound |->
                      IF Asked(p, c) THEN unrecorded[c] + 1 ELSE unrecorded[c]]
  /\ UNCHANGED <<status, dispatched, livekit, workers, faults>>

WorkerCrash(j) ==
  /\ crashes < MaxCrashes
  /\ job[j] \in Running
  /\ crashes' = crashes + 1
  /\ Goto(j, "dead")
  /\ UNCHANGED <<status, bystanders, leg, dials, seen, faults, unrecorded>>

-----------------------------------------------------------------------------

CreateCall(c) == Insert(c) \/ Validate(c) \/ Queue(c)

DispatchQueued(p) ==
  \/ \E o \in Outbound \cup {Scheduler} : CountDispatched(p, o)
  \/ ListQueued(p)
  \/ \E j \in Job : Dispatch(p, j) \/ DispatchFails(p, j)
  \/ RecordDispatch(p) \/ RecordRefusal(p)

CancelCall(c) ==
  CancelRead(c) \/ CancelDelete(c) \/ CancelDeleteFails(c) \/ CancelUpdate(c)

Phone(c) == Answer(c) \/ Refuse(c) \/ HangUp(c)

\* The steps of handle_call that need no event of the conversation.
HandleCall(j) ==
  \/ Fetch(j) \/ Prewarm(j) \/ Dial(j) \/ MarkRinging(j) \/ AwaitDial(j)
  \/ FailDial(j) \/ Connect(j) \/ AcceptInbound(j) \/ ConnectInbound(j)
  \/ Activate(j) \/ HangUpParticipant(j) \/ Disconnected(j)
  \/ WatchdogRead(j) \/ WatchdogFail(j) \/ Report(j) \/ Complete(j) \/ Finalize(j)
  \/ HandlerRead(j) \/ HandlerFail(j)

Conversation(j) == RequestInput(j) \/ Finish(j) \/ WatchdogReport(j)

Next ==
  \/ \E c \in Outbound : CreateCall(c)
  \/ \E p \in Proc : DispatchQueued(p)
  \/ \E c \in MayCancel : CancelCall(c)
  \/ \E c \in Call : Phone(c) \/ RoomExpires(c) \/ InputAnswered(c)
  \/ \E c \in Inbound : Ring(c)
  \/ \E j \in Job : j[1] \in Inbound /\ Redeliver(j)
  \/ \E j \in Job : HandleCall(j) \/ Conversation(j) \/ WorkerFault(j)
  \/ \E p \in Proc : Crash(p)
  \/ \E j \in Job : WorkerCrash(j)

Spec == Init /\ [][Next]_vars

-----------------------------------------------------------------------------
(* Fairness.  A process that lives keeps taking its steps: an awaited      *)
(* repository or LiveKit call returns, the scheduler loop ticks every half *)
(* second and catches every exception, a worker is registered.  The phone  *)
(* is fair because ringing_timeout and max_call_duration are enforced by   *)
(* the SIP service.  Clients, cancels, conversations and faults are not.   *)

Fairness ==
  /\ \A c \in Outbound : WF_vars(Validate(c) \/ Queue(c))
  /\ \A p \in Proc : WF_vars(DispatchQueued(p))
  /\ WF_vars(CountDispatched("api", Scheduler))
  /\ \A c \in Call : WF_vars(CancelDelete(c) \/ CancelUpdate(c))
  /\ \A c \in Call : WF_vars(Answer(c) \/ Refuse(c)) /\ WF_vars(HangUp(c))
  /\ \A j \in Job : WF_vars(HandleCall(j))

FairSpec == Spec /\ Fairness

-----------------------------------------------------------------------------
(* Properties.                                                             *)

RunType ==
  [pc : {"idle", "counted", "listed", "sent", "refused"},
   owner : Outbound \cup {Scheduler}, cap : Nat, batch : SUBSET Outbound]

CancelType ==
  [pc : {"idle", "delete", "update"}, seen : NonTerminal, room : BOOLEAN]

\* The type of every variable; what a cancel or a failure handler has read
\* and will overwrite is never a terminal status.
TypeOK ==
  /\ status \in [Call -> Lifecycle!CallStatus \cup {Absent}]
  /\ dispatched \in [Call -> BOOLEAN]
  /\ client \in [Outbound -> ClientPc]
  /\ run \in [Proc -> RunType]
  /\ cancel \in [Call -> CancelType]
  /\ room \in [Call -> {"none", "open", "closed", "deleted"}]
  /\ leg \in [Call -> {"none", "dialing", "up", "refused", "down"}]
  /\ dials \in [Call -> Nat]
  /\ job \in [Job -> JobPc]
  /\ seen \in [Job -> NonTerminal]
  /\ crashes \in Nat
  /\ faults \in Nat
  /\ unrecorded \in [Outbound -> Nat]

\* Whoever writes a row - client, scheduler, canceller, worker or failure
\* handler, in any interleaving and across crashes - moves it along an edge
\* of _TRANSITIONS, though update_call never looks at that table.
LegalTransitions == Lifecycle!Spec

\* dispatch_queued keeps its limit: the outbound calls that hold a slot are
\* never more than max_concurrent, those apart whose dispatch the database or a
\* crash kept out of the row.  (Inbound calls take slots but ask nobody.)
ConcurrencyLimit ==
  Cardinality({c \in Occupied \cap Outbound : unrecorded[c] = 0}) <= MaxConcurrent

\* The callee's phone is made to ring at most once per call, also when a
\* crash has made the API dispatch the call a second time.
AtMostOneDial == \A c \in Call : dials[c] <= 1

\* Of the jobs that LiveKit was given for an outbound call at most one acts.
OneAgentPerCall ==
  \A j, k \in Job :
    j[1] \in Outbound /\ j[1] = k[1] /\ {job[j], job[k]} \subseteq InCharge => j = k

\* A call is handed to LiveKit once, and once more only for each dispatch that
\* its row does not know of: neither a queued request nor the scheduler lists a
\* call whose dispatch was recorded or that has moved on.
OneDispatchPerCall ==
  \A j \in Job :
    j[1] \in Outbound /\ job[j] # "none" => j[2] <= 1 + unrecorded[j[1]]

JobPcs(c) == {job[j] : j \in {k \in Job : k[1] = c}}

\* The scheduler will list the call.
Listable(c) == c \in Outbound /\ status[c] = "queued" /\ ~dispatched[c]

\* When every job of a call has come to its end, and none was killed, expired or
\* failed by the database in its handler, the row is terminal: no call is left
\* with nobody to work on it.  Else the scheduler has it before it, or its
\* request; or it asked, and the failure handler has lost to the answer.
NoAbandonedCall ==
  \A c \in Call :
    JobPcs(c) \subseteq {"none", "done"} =>
      \/ status[c] \in Terminal \cup {Absent}
      \/ Listable(c)
      \/ /\ c \in Outbound /\ status[c] \in {"created", "validating"}
         /\ client[c] \in {status[c], "failed"}
      \/ c \in MayAsk /\ status[c] = "active"

\* A call that is left open for good: its request broke off before it was queued,
\* or its jobs are over.
Stranded(c) ==
  /\ status[c] \in NonTerminal /\ ~Listable(c)
  /\ IF c \in Outbound /\ status[c] \in {"created", "validating"}
     THEN client[c] = "failed"
     ELSE /\ JobPcs(c) \subseteq {"none", "done"} \cup Gone
          /\ \/ JobPcs(c) \cap Gone # {}
             \/ c \in MayAsk /\ status[c] = "active"

\* The call has ended, or nothing can end it: it is stranded, or it waits behind
\* stranded calls that hold every slot.
Settled(c) ==
  \/ status[c] \in Terminal \cup {Absent}
  \/ Stranded(c)
  \/ Listable(c) /\ Cardinality({d \in Occupied : Stranded(d)}) >= MaxConcurrent

\* Every call that has a row ends, a queued one too: it gets its turn.  The calls
\* left open are the stranded ones and the queue behind them.
EveryCallEnds == []<>(\A c \in Call : Settled(c))

\* The jobs of a cancelled call notice and end.
CancelledJobsEnd ==
  []<>(\A j \in Job :
         status[j[1]] = "cancelled" => job[j] \in {"none", "done"} \cup Gone)

=============================================================================
