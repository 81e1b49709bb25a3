-------------------------- MODULE ActiveCallContext --------------------------
(***************************************************************************)
(* One call that is talked on: the hot state in the memory of its worker   *)
(* job, the queue and the background writer that carry it to PostgreSQL,   *)
(* the voice tools the model calls (concurrently), the API that answers an *)
(* input request or cancels the call, and the shut-down of the job.        *)
(*                                                                         *)
(* A tool call is one task: its steps are the code between two awaits.     *)
(* The writer takes an item, runs its transaction and answers its waiter   *)
(* in one step; the waiter resumes in a step of its own.                   *)
(***************************************************************************)
EXTENDS Integers, Sequences

CONSTANTS
  CommitCalls,     \* calls of authorize_commit
  Facts,           \* calls of record_fact
  Candidates,      \* calls of propose_candidate
  Asks,            \* calls of request_user_input
  Transfers,       \* calls of cold_transfer
  Finishes,        \* calls of finish_call
  Commitments,     \* ids of commitments: a digest of action and payload
  CommitId,        \* [CommitCalls -> Commitments]
  Decision,        \* what the policy says of commitments and candidates: "kept"
                   \* (allowed), "error" (it raises), or a reason to deny
  Job,             \* the task of handle_call
  NoOne,           \* nobody waits for the item; nobody holds the lock
  MaxTurns,        \* bound: transcript turns
  MaxEvents,       \* bound: observer events
  MaxFaults,       \* bound: database failures in the writer
  Ivr,             \* may the IVR navigation time out?
  MayCancel        \* may a client cancel the call?

Tool == CommitCalls \cup Facts \cup Candidates \cup Asks \cup Transfers \cup Finishes
Task == Tool \cup {Job}

\* What the state of a call is made of, as far as anything depends on it.
Item == Commitments \cup Facts \cup Candidates

ASSUME Constants ==
  /\ CommitId \in [CommitCalls -> Commitments]
  /\ DOMAIN Decision = Commitments \cup Candidates
  /\ Job \notin Tool /\ NoOne \notin Task \cup Commitments
  /\ Commitments \cap (Facts \cup Candidates) = {}
  /\ CommitCalls \cap (Facts \cup Candidates \cup Asks \cup Transfers \cup Finishes) = {}
  /\ Asks \cap (Facts \cup Candidates \cup Transfers \cup Finishes) = {}
  /\ Transfers \cap (Facts \cup Candidates \cup Finishes) = {}
  /\ Finishes \cap (Facts \cup Candidates) = {} /\ Facts \cap Candidates = {}
  /\ {MaxTurns, MaxEvents, MaxFaults} \subseteq Nat
  /\ {Ivr, MayCancel} \subseteq BOOLEAN

VARIABLES
  status,    \* calls.status
  stored,    \* calls.state: the facts, candidates and commitments in the row
  outcome,   \* the commitments of calls.outcome, or NoOutcome
  ended,     \* how often calls.ended_at was written
  logged,    \* call_events: how often each commitment was recorded
  turns,     \* call_transcript_turns: the numbers of the turns in it
  request,   \* input_requests: the row of each ask
  hot,       \* the same items in the ActiveCallContext
  lock,      \* the holder of _state_lock
  queue,     \* _queue
  writer,    \* "open"; "closed": the sentinel is queued; "stopped"
  failed,    \* is _required_failure set?
  pc,        \* progress of every task
  ack,       \* completion of the item a task waits for
  told,      \* commitments the model was told it may make
  verdict,   \* does the job complete or fail the call when it has ended?
  respond,   \* CallService.respond for each ask: progress and the state read
  expiry,    \* CallService.expire_input for each ask: the state read
  said,      \* transcript turns so far
  events,    \* observer events so far
  faults     \* database failures so far

row == <<status, stored, outcome, ended, logged, turns, request>>
context == <<hot, lock, queue, writer, failed>>
tasks == <<pc, ack, told, verdict>>
api == <<respond, expiry>>
counters == <<said, events, faults>>
vars == <<row, context, tasks, api, counters>>

NoOutcome == {NoOne}
Talkable  == {"active", "input_required"}
Terminal  == {"completed", "failed", "cancelled"}

\* The expected_statuses and the required flag of what is submitted.
Expected(kind) ==
  CASE kind \in {"fact", "commit", "transfer", "finish"} -> Talkable
    [] kind = "candidate" -> {"active"}
    [] kind = "report" -> Talkable \cup {"completing"}
    [] kind \in {"turn", "event", "barrier"} ->
         Talkable \cup {"completing"} \cup Terminal

Required(kind) == kind # "event"

Init ==
  /\ status = "active" /\ stored = {} /\ outcome = NoOutcome /\ ended = 0
  /\ logged = [c \in Commitments |-> 0] /\ turns = {}
  /\ request = [a \in Asks |-> "none"]
  /\ hot = {} /\ lock = NoOne /\ queue = <<>> /\ writer = "open" /\ failed = FALSE
  /\ pc = [t \in Task |-> IF t = Job THEN "talking" ELSE "idle"]
  /\ ack = [t \in Task |-> "none"] /\ told = {} /\ verdict = "complete"
  /\ respond = [a \in Asks |-> [pc |-> "idle", view |-> {}]]
  /\ expiry = [a \in Asks |-> {}]
  /\ said = 0 /\ events = 0 /\ faults = 0

-----------------------------------------------------------------------------
(* Submitting.                                                             *)

Put(kind, state, by, n) ==
  queue' = Append(queue, [kind |-> kind, state |-> state, by |-> by, n |-> n])

\* _submit: the item carries a snapshot, nobody waits for it.
Submit(kind, state) == Put(kind, state, NoOne, 0)

\* _submit_and_wait
SubmitAndWait(t, kind, state) ==
  /\ Put(kind, state, t, 0)
  /\ ack' = [ack EXCEPT ![t] = "wait"]

Goto(t, at) == pc' = [pc EXCEPT ![t] = at]

\* The session runs the tools the model calls until it is closed.
Callable(t) == pc[t] = "idle" /\ pc[Job] \in {"talking", "ivr", "closing"}

\* The tool has its answer, or the error it raises.
Answered(t, answer) == ack[t] = answer /\ ack' = [ack EXCEPT ![t] = "none"]

\* async with state_transaction()
Acquire(t) == lock = NoOne /\ lock' = t
Release(t) == lock' = IF lock = t THEN NoOne ELSE lock

\* A tool whose write was refused, failed or skipped raises.
ToolError(t) ==
  /\ t \in Tool
  /\ Answered(t, "error")
  /\ Goto(t, "error") /\ Release(t)
  /\ UNCHANGED <<row, hot, queue, writer, failed, told, verdict, api, counters>>

-----------------------------------------------------------------------------
(* The voice tools.                                                        *)

record_fact(t) ==
  /\ t \in Facts /\ Callable(t) /\ lock = NoOne
  /\ hot' = hot \cup {t}
  /\ Submit("fact", hot')
  /\ Goto(t, "done")
  /\ UNCHANGED <<row, lock, writer, failed, ack, told, verdict, api, counters>>

propose_candidate(t) ==
  /\ t \in Candidates /\ Callable(t) /\ lock = NoOne /\ Decision[t] # "error"
  /\ hot' = hot \cup {t}
  /\ Submit("candidate", hot')
  /\ Goto(t, "done")
  /\ UNCHANGED <<row, lock, writer, failed, ack, told, verdict, api, counters>>

\* authorize_commit or propose_candidate when the policy raises: nothing is
\* recorded and the model hears of an error.
PolicyRaises(t) ==
  /\ t \in CommitCalls \cup Candidates /\ Callable(t) /\ lock = NoOne
  /\ LET c == IF t \in CommitCalls THEN CommitId[t] ELSE t
     IN c \notin hot /\ Decision[c] = "error"
  /\ Goto(t, "done")
  /\ UNCHANGED <<row, context, ack, told, verdict, api, counters>>

\* What the model is told it may make, when it is told the decision on c.
Tells(c) == told' = IF Decision[c] = "kept" THEN told \cup {c} ELSE told

\* Mutant of Authorize: without the lock.
Authorize_Unlocked(t) ==
  /\ t \in CommitCalls /\ Callable(t) /\ CommitId[t] \notin hot
  /\ Decision[CommitId[t]] # "error"
  /\ SubmitAndWait(t, "commit", hot \cup {CommitId[t]})
  /\ Goto(t, "committing")
  /\ UNCHANGED <<row, hot, lock, writer, failed, told, verdict, api, counters>>

\* Mutant of Authorize: the model is told before the write is acknowledged.
Authorize_TellsFirst(t) ==
  /\ t \in CommitCalls /\ Callable(t) /\ CommitId[t] \notin hot
  /\ Decision[CommitId[t]] # "error"
  /\ Acquire(t)
  /\ SubmitAndWait(t, "commit", hot \cup {CommitId[t]})
  /\ Tells(CommitId[t])
  /\ Goto(t, "committing")
  /\ UNCHANGED <<row, hot, writer, failed, verdict, api, counters>>

\* authorize_commit of a commitment that is not known yet: allowed or denied, it
\* is submitted with the snapshot, and joins the hot state once it is durable.
Authorize(t) ==
  /\ t \in CommitCalls /\ Callable(t) /\ CommitId[t] \notin hot
  /\ Decision[CommitId[t]] # "error"
  /\ Acquire(t)
  /\ SubmitAndWait(t, "commit", hot \cup {CommitId[t]})
  /\ Goto(t, "committing")
  /\ UNCHANGED <<row, hot, writer, failed, told, verdict, api, counters>>

\* The idempotent replay.
Replay(t) ==
  /\ t \in CommitCalls /\ Callable(t) /\ lock = NoOne /\ CommitId[t] \in hot
  /\ Tells(CommitId[t])
  /\ Goto(t, "done")
  /\ UNCHANGED <<row, context, ack, verdict, api, counters>>

\* Mutant of Committed: the commitment does not join the hot state.
Committed_NotHot(t) ==
  /\ pc[t] = "committing" /\ Answered(t, "ok")
  /\ Tells(CommitId[t])
  /\ Goto(t, "done") /\ Release(t)
  /\ UNCHANGED <<row, hot, queue, writer, failed, verdict, api, counters>>

Committed(t) ==
  /\ pc[t] = "committing" /\ Answered(t, "ok")
  /\ hot' = hot \cup {CommitId[t]}
  /\ Tells(CommitId[t])
  /\ Goto(t, "done") /\ Release(t)
  /\ UNCHANGED <<row, queue, writer, failed, verdict, api, counters>>

finish_call(t) ==
  /\ t \in Finishes /\ Callable(t)
  /\ Acquire(t)
  /\ SubmitAndWait(t, "finish", hot)
  /\ Goto(t, "finishing")
  /\ UNCHANGED <<row, hot, writer, failed, told, verdict, api, counters>>

Finished(t) ==
  /\ pc[t] = "finishing" /\ Answered(t, "ok")
  /\ Goto(t, "done") /\ Release(t)
  /\ UNCHANGED <<row, hot, queue, writer, failed, told, verdict, api, counters>>

\* cold_transfer: REQUESTED is durable before the provider is asked ...
cold_transfer(t) ==
  /\ t \in Transfers /\ Callable(t)
  /\ Acquire(t)
  /\ SubmitAndWait(t, "transfer", hot)
  /\ Goto(t, "requesting")
  /\ UNCHANGED <<row, hot, writer, failed, told, verdict, api, counters>>

TransferRequested(t) ==
  /\ pc[t] = "requesting" /\ Answered(t, "ok")
  /\ Goto(t, "transferring") /\ Release(t)
  /\ UNCHANGED <<row, hot, queue, writer, failed, told, verdict, api, counters>>

\* ... whose result is durable too ...
TransferResult(t) ==
  /\ pc[t] = "transferring"
  /\ Acquire(t)
  /\ SubmitAndWait(t, "transfer", hot)
  /\ \E result \in {"transferred", "untransferred"} : Goto(t, result)
  /\ UNCHANGED <<row, hot, writer, failed, told, verdict, api, counters>>

TransferFailed(t) ==
  /\ pc[t] = "untransferred" /\ Answered(t, "ok")
  /\ Goto(t, "done") /\ Release(t)
  /\ UNCHANGED <<row, hot, queue, writer, failed, told, verdict, api, counters>>

\* ... and after a success the call is completed, outside of the lock.
TransferSucceeded(t) ==
  /\ pc[t] = "transferred" /\ ack[t] = "ok"
  /\ SubmitAndWait(t, "finish", hot)
  /\ Goto(t, "finishing") /\ Release(t)
  /\ UNCHANGED <<row, hot, writer, failed, told, verdict, api, counters>>

-----------------------------------------------------------------------------
(* request_user_input and the API that answers it.                         *)

\* Under the lock everything submitted so far is flushed.
request_user_input(t) ==
  /\ t \in Asks /\ Callable(t)
  /\ Acquire(t)
  /\ SubmitAndWait(t, "barrier", {})
  /\ Goto(t, "flushing")
  /\ UNCHANGED <<row, hot, writer, failed, told, verdict, api, counters>>

\* CallService.request_input: the request is inserted, then the call moves.
RequestInput(t) ==
  /\ t \in Asks /\ pc[t] = "flushing" /\ Answered(t, "ok")
  /\ request' = [request EXCEPT ![t] = "pending"]
  /\ \/ status = "active" /\ status' = "input_required" /\ Goto(t, "polling")
     \/ status # "active" /\ Goto(t, "error") /\ UNCHANGED status
  /\ Release(t)
  /\ UNCHANGED <<stored, outcome, ended, logged, turns, hot, queue, writer, failed,
                 told, verdict, api, counters>>

\* A poll finds the answer.
PollResolved(t) ==
  /\ t \in Asks /\ pc[t] = "polling" /\ request[t] = "resolved"
  /\ Goto(t, "resuming")
  /\ UNCHANGED <<row, context, ack, told, verdict, api, counters>>

\* A poll finds that expires_at has passed; expire_input reads the call and
\* settles the request.  (If an answer comes in between it returns, too.)
PollExpired(t) ==
  /\ t \in Asks /\ pc[t] = "polling" /\ request[t] = "pending"
  /\ request' = [request EXCEPT ![t] = "expired"]
  /\ Goto(t, IF status = "input_required" THEN "expiring" ELSE "resuming")
  /\ expiry' = [expiry EXCEPT ![t] = stored]
  /\ UNCHANGED <<status, stored, outcome, ended, logged, turns, context, ack, told,
                 verdict, respond, counters>>

\* expire_input writes back the state it has read.
ExpireInput(t) ==
  /\ t \in Asks /\ pc[t] = "expiring"
  /\ \/ /\ status = "input_required"
        /\ status' = "active" /\ stored' = expiry[t]
        /\ Goto(t, "resuming")
     \/ /\ status # "input_required"
        /\ Goto(t, "error")
        /\ UNCHANGED <<status, stored>>
  /\ expiry' = [expiry EXCEPT ![t] = {}]
  /\ UNCHANGED <<outcome, ended, logged, turns, request, context, ack, told, verdict,
                 respond, counters>>

\* The tool takes the lock to note that nothing is pending, and returns.
Resume(t) ==
  /\ t \in Asks /\ pc[t] = "resuming" /\ lock = NoOne
  /\ Goto(t, "done")
  /\ expiry' = [expiry EXCEPT ![t] = {}]
  /\ UNCHANGED <<row, context, ack, told, verdict, respond, counters>>

\* CallService.respond reads the call and finds the request pending ...
RespondRead(a) ==
  /\ respond[a].pc = "idle" /\ request[a] = "pending"
  /\ respond' = [respond EXCEPT ![a] = [pc |-> "read", view |-> stored]]
  /\ UNCHANGED <<row, context, tasks, expiry, counters>>

\* ... resolves it, without a look at what came of that ...
RespondResolve(a) ==
  /\ respond[a].pc = "read"
  /\ request' = [request EXCEPT ![a] = IF @ = "pending" THEN "resolved" ELSE @]
  /\ respond' = [respond EXCEPT ![a].pc = "resolved"]
  /\ UNCHANGED <<status, stored, outcome, ended, logged, turns, context, tasks,
                 expiry, counters>>

\* ... and writes back the state it has read.
RespondUpdate(a) ==
  /\ respond[a].pc = "resolved"
  /\ \/ status = "input_required" /\ status' = "active" /\ stored' = respond[a].view
     \/ status # "input_required" /\ UNCHANGED <<status, stored>>
  /\ respond' = [respond EXCEPT ![a] = [pc |-> "done", view |-> {}]]
  /\ UNCHANGED <<outcome, ended, logged, turns, request, context, tasks, expiry,
                 counters>>

\* CallService.cancel_call, whose own steps are those of CallService.tla.
Cancel ==
  /\ MayCancel /\ status \notin Terminal
  /\ status' = "cancelled" /\ ended' = ended + 1
  /\ UNCHANGED <<stored, outcome, logged, turns, request, context, tasks, api,
                 counters>>

-----------------------------------------------------------------------------
(* SessionObserver and the room's callbacks.                               *)

\* The observer lives until the session is closed.
Observing == pc[Job] \in {"talking", "ivr", "closing"}

\* persist_transcript
Say ==
  /\ Observing /\ said < MaxTurns
  /\ said' = said + 1
  /\ Put("turn", {}, NoOne, said')
  /\ UNCHANGED <<row, hot, lock, writer, failed, tasks, api, events, faults>>

\* persist_event: DTMF is heard for as long as there is a context.
Event ==
  /\ writer = "open" /\ events < MaxEvents
  /\ events' = events + 1
  /\ Submit("event", {})
  /\ UNCHANGED <<row, hot, lock, writer, failed, tasks, api, said, faults>>

-----------------------------------------------------------------------------
(* _run_persistence, the background writer.                                *)

\* What the transaction of an item does to the row and its satellites.
Land(item) ==
  /\ status' = IF item.kind = "finish" THEN "completing" ELSE status
  /\ stored' = IF item.kind \in {"turn", "event", "barrier"} THEN stored ELSE item.state
  /\ outcome' = IF item.kind = "finish" THEN item.state \cap Commitments ELSE outcome
  /\ ended' = IF item.kind = "event" /\ status \in Terminal THEN ended + 1 ELSE ended
  /\ logged' = [c \in Commitments |->
       IF item.kind = "commit" /\ c = CommitId[item.by] THEN logged[c] + 1 ELSE logged[c]]
  /\ turns' = IF item.kind = "turn" THEN turns \cup {item.n} ELSE turns
  /\ UNCHANGED request

\* Mutant of Answer: the waiter does not learn of an error.
Answer_AlwaysOk(item, answer) ==
  ack' = IF item.by = NoOne THEN ack ELSE [ack EXCEPT ![item.by] = "ok"]

\* The waiter of an item is answered.
Answer(item, answer) ==
  ack' = IF item.by = NoOne THEN ack ELSE [ack EXCEPT ![item.by] = answer]

\* The item at the head of the queue, if there is one.
Heads == IF queue = <<>> THEN {} ELSE {Head(queue)}

\* Mutant of Skips: the writer goes on after a failure.
Skips_Never(item) == FALSE

\* After a failed required write the required ones that follow are skipped.
Skips(item) == Required(item.kind) /\ failed

Skip ==
  \E item \in Heads :
    /\ queue' = Tail(queue)
    /\ Skips(item)
    /\ Answer(item, "error")
    /\ UNCHANGED <<row, hot, lock, writer, failed, pc, told, verdict, api, counters>>

Write ==
  \E item \in Heads :
    /\ queue' = Tail(queue)
    /\ ~Skips(item) /\ status \in Expected(item.kind)
    /\ Land(item)
    /\ Answer(item, "ok")
    /\ UNCHANGED <<hot, lock, writer, failed, pc, told, verdict, api, counters>>

\* InvalidStateTransitionError
Refuse ==
  \E item \in Heads :
    /\ queue' = Tail(queue)
    /\ ~Skips(item) /\ status \notin Expected(item.kind)
    /\ Answer(item, "error")
    /\ failed' = (failed \/ Required(item.kind))
    /\ UNCHANGED <<row, hot, lock, writer, pc, told, verdict, api, counters>>

\* PostgreSQL fails before the commit, or after it and before the answer.
Fault ==
  \E item \in Heads :
    /\ faults < MaxFaults
    /\ faults' = faults + 1
    /\ item.kind # "barrier"
    /\ queue' = Tail(queue)
    /\ ~Skips(item) /\ status \in Expected(item.kind)
    /\ Land(item) \/ UNCHANGED row
    /\ Answer(item, "error")
    /\ failed' = (failed \/ Required(item.kind))
    /\ UNCHANGED <<hot, lock, writer, pc, told, verdict, api, said, events>>

\* The sentinel of close() comes last: nothing is submitted after it.
Stop ==
  /\ writer = "closed" /\ queue = <<>>
  /\ writer' = "stopped"
  /\ UNCHANGED <<row, hot, lock, queue, failed, tasks, api, counters>>

-----------------------------------------------------------------------------
(* handle_call, from ACTIVE on.                                            *)

\* _wait_for_call_end: disconnected or finish_event.
CallEnds ==
  /\ pc[Job] = "talking"
  /\ Goto(Job, "closing")
  /\ UNCHANGED <<row, context, ack, told, verdict, api, counters>>

\* The watchdog gives the session up: the same shut-down, but the call fails.
WatchdogGivesUp ==
  /\ pc[Job] = "talking"
  /\ Goto(Job, "closing") /\ verdict' = "fail"
  /\ UNCHANGED <<row, context, ack, told, api, counters>>

\* The IVR timeout, or an answering machine: _finish_amd_call takes no lock.
FinishAmd ==
  /\ Ivr /\ pc[Job] = "talking"
  /\ SubmitAndWait(Job, "finish", hot)
  /\ Goto(Job, "ivr")
  /\ UNCHANGED <<row, hot, lock, writer, failed, told, verdict, api, counters>>

FinishedAmd ==
  /\ pc[Job] = "ivr"
  /\ \/ Answered(Job, "ok") /\ Goto(Job, "closing")
     \/ Answered(Job, "error") /\ Goto(Job, "unwinding")
  /\ UNCHANGED <<row, context, told, verdict, api, counters>>

\* An exception while the call is talked on, or when the context is closed.
JobFault ==
  /\ \/ pc[Job] \in {"talking", "closing"} /\ Goto(Job, "unwinding")
     \/ pc[Job] \in {"completing", "enriching"} /\ Goto(Job, "failing")
  /\ UNCHANGED <<row, context, ack, told, verdict, api, counters>>

\* The tool calls that run are finished before a session is closed.
SessionCanClose == \A t \in Tool : pc[t] \in {"idle", "done", "error"}

\* Session and observer are closed; _persist_session_report.
Report ==
  /\ pc[Job] = "closing" /\ SessionCanClose
  /\ Acquire(Job)
  /\ SubmitAndWait(Job, "report", hot)
  /\ Goto(Job, "reporting")
  /\ UNCHANGED <<row, hot, writer, failed, told, verdict, api, counters>>

\* close() flushes, after the report or in the exception handler.
Reported ==
  /\ pc[Job] = "reporting" /\ ack[Job] = "ok"
  /\ SubmitAndWait(Job, "barrier", {})
  /\ Goto(Job, "flushing") /\ Release(Job)
  /\ UNCHANGED <<row, hot, writer, failed, told, verdict, api, counters>>

ReportRaises ==
  /\ pc[Job] = "reporting" /\ Answered(Job, "error")
  /\ Goto(Job, "unwinding") /\ Release(Job)
  /\ UNCHANGED <<row, hot, queue, writer, failed, told, verdict, api, counters>>

Unwind ==
  /\ pc[Job] = "unwinding" /\ SessionCanClose
  /\ SubmitAndWait(Job, "barrier", {})
  /\ Goto(Job, "flushing") /\ verdict' = "fail"
  /\ UNCHANGED <<row, hot, lock, writer, failed, told, api, counters>>

\* Whatever came of the flush, the writer is closed and awaited.
Close ==
  /\ pc[Job] = "flushing"
  /\ \/ Answered(Job, "ok") /\ UNCHANGED verdict
     \/ Answered(Job, "error") /\ verdict' = "fail"
  /\ writer' = "closed"
  /\ Goto(Job, "draining")
  /\ UNCHANGED <<row, hot, lock, queue, failed, told, api, counters>>

\* Mutant of Closed: the writer is not awaited.
Closed_NoWait ==
  /\ pc[Job] = "draining"
  /\ Goto(Job, IF verdict = "complete" THEN "completing" ELSE "failing")
  /\ UNCHANGED <<row, context, ack, told, verdict, api, counters>>

Closed ==
  /\ pc[Job] = "draining" /\ writer = "stopped"
  /\ Goto(Job, IF verdict = "complete" THEN "completing" ELSE "failing")
  /\ UNCHANGED <<row, context, ack, told, verdict, api, counters>>

\* Mutant of Complete: the facts of the row are taken for commitments.
Complete_WholeState ==
  /\ pc[Job] = "completing"
  /\ \/ status \in Talkable /\ status' = "completing" /\ Goto(Job, "enriching")
     \/ status = "completing" /\ Goto(Job, "enriching") /\ UNCHANGED status
     \/ status \in Terminal /\ Goto(Job, "over") /\ UNCHANGED status
  /\ outcome' = IF outcome = NoOutcome /\ status \in Talkable THEN stored ELSE outcome
  /\ UNCHANGED <<stored, ended, logged, turns, request, context, ack, told, verdict,
                 api, counters>>

\* _complete_call: without an outcome one is built from the row.
Complete ==
  /\ pc[Job] = "completing"
  /\ \/ /\ status \in Talkable
        /\ status' = "completing" /\ Goto(Job, "enriching")
     \/ /\ status = "completing"
        /\ Goto(Job, "enriching") /\ UNCHANGED status
     \/ /\ status \in Terminal
        /\ Goto(Job, "over") /\ UNCHANGED status
  /\ outcome' = IF outcome = NoOutcome /\ status \in Talkable
                THEN stored \cap Commitments ELSE outcome
  /\ UNCHANGED <<stored, ended, logged, turns, request, context, ack, told, verdict,
                 api, counters>>

\* After the supervisor has enriched the outcome.
Completed ==
  /\ pc[Job] = "enriching"
  /\ \/ /\ status = "completing"
        /\ status' = "completed" /\ ended' = ended + 1 /\ Goto(Job, "over")
     \/ /\ status # "completing"
        /\ Goto(Job, "failing") /\ UNCHANGED <<status, ended>>
  /\ UNCHANGED <<stored, outcome, logged, turns, request, context, ack, told, verdict,
                 api, counters>>

\* Mutant of Fail: the update expects ACTIVE, and its error is suppressed.
Fail_ActiveOnly ==
  /\ pc[Job] = "failing"
  /\ \/ status = "active" /\ status' = "failed" /\ ended' = ended + 1
     \/ status # "active" /\ UNCHANGED <<status, ended>>
  /\ Goto(Job, "over")
  /\ UNCHANGED <<stored, outcome, logged, turns, request, context, ack, told, verdict,
                 api, counters>>

\* The exception handler marks the call FAILED.  When the database fails its read
\* or its update the job is over all the same, and the row stays as it is.  (The
\* race of that update is in CallService.tla.)
Fail ==
  /\ pc[Job] = "failing"
  /\ \/ /\ status \notin Terminal
        /\ status' = "failed" /\ ended' = ended + 1 /\ Goto(Job, "over")
     \/ /\ status \in Terminal
        /\ Goto(Job, "over") /\ UNCHANGED <<status, ended>>
     \/ Goto(Job, "lost") /\ UNCHANGED <<status, ended>>
  /\ UNCHANGED <<stored, outcome, logged, turns, request, context, ack, told, verdict,
                 api, counters>>

-----------------------------------------------------------------------------

\* A tool that was called, up to its return.
ToolStep(t) ==
  \/ Committed(t) \/ Finished(t) \/ TransferRequested(t) \/ TransferResult(t)
  \/ TransferFailed(t) \/ TransferSucceeded(t) \/ ToolError(t)
  \/ RequestInput(t) \/ PollResolved(t) \/ PollExpired(t) \/ ExpireInput(t)
  \/ Resume(t)

ToolCall(t) ==
  \/ record_fact(t) \/ propose_candidate(t) \/ Authorize(t) \/ Replay(t) \/ PolicyRaises(t)
  \/ finish_call(t) \/ cold_transfer(t) \/ request_user_input(t)

Writer == Skip \/ Write \/ Refuse \/ Fault \/ Stop

Respond(a) == RespondRead(a) \/ RespondResolve(a) \/ RespondUpdate(a)

\* The job once the call has ended.
ShutDown ==
  \/ FinishedAmd \/ Report \/ Reported \/ ReportRaises \/ Unwind \/ Close \/ Closed
  \/ Complete \/ Completed \/ Fail

\* Nothing is left to do.
Over ==
  /\ pc[Job] \in {"over", "lost"} /\ \A a \in Asks : respond[a].pc \in {"idle", "done"}
  /\ UNCHANGED vars

Next ==
  \/ \E t \in Tool : ToolCall(t) \/ ToolStep(t)
  \/ \E a \in Asks : Respond(a)
  \/ Cancel \/ Say \/ Event
  \/ Writer
  \/ CallEnds \/ WatchdogGivesUp \/ FinishAmd \/ JobFault
  \/ ShutDown
  \/ Over

Spec == Init /\ [][Next]_vars

-----------------------------------------------------------------------------
(* Fairness: the event loop runs what can run, a transaction ends, and the *)
(* clock reaches expires_at.  What people and the model do is not fair.    *)

Fairness ==
  /\ \A t \in Tool : WF_vars(ToolStep(t))
  /\ WF_vars(Writer)
  /\ WF_vars(ShutDown)
  /\ \A a \in Asks : WF_vars(RespondResolve(a) \/ RespondUpdate(a))

FairSpec == Spec /\ Fairness

-----------------------------------------------------------------------------
(* Properties.                                                             *)

Kind == {"fact", "candidate", "commit", "transfer", "finish", "report", "turn",
         "event", "barrier"}

ToolPc == {"idle", "committing", "finishing", "requesting", "transferring",
           "transferred", "untransferred", "flushing", "polling", "expiring",
           "resuming", "done", "error"}

JobPc == {"talking", "ivr", "closing", "unwinding", "reporting", "flushing",
          "draining", "completing", "failing", "enriching", "over", "lost"}

ItemType ==
  [kind : Kind, state : SUBSET Item, by : Task \cup {NoOne}, n : 0..MaxTurns]

\* The type of every variable.
TypeOK ==
  /\ status \in Talkable \cup {"completing"} \cup Terminal
  /\ stored \subseteq Item
  /\ outcome \in (SUBSET Commitments) \cup {NoOutcome}
  /\ ended \in Nat
  /\ logged \in [Commitments -> Nat]
  /\ turns \subseteq 1..MaxTurns
  /\ request \in [Asks -> {"none", "pending", "resolved", "expired"}]
  /\ hot \subseteq Item
  /\ lock \in Task \cup {NoOne}
  /\ queue \in Seq(ItemType)
  /\ writer \in {"open", "closed", "stopped"}
  /\ failed \in BOOLEAN
  /\ pc \in [Task -> ToolPc \cup JobPc]
  /\ ack \in [Task -> {"none", "wait", "ok", "error"}]
  /\ told \subseteq Commitments
  /\ verdict \in {"complete", "fail"}
  /\ respond \in [Asks -> [pc : {"idle", "read", "resolved", "done"}, view : SUBSET Item]]
  /\ expiry \in [Asks -> SUBSET Item]
  /\ said \in 0..MaxTurns /\ events \in 0..MaxEvents /\ faults \in 0..MaxFaults

\* No commitment is reported to the model before PostgreSQL has recorded it,
\* also when the write before it was refused, failed or lost its answer.
ToldIsDurable == \A c \in told : logged[c] > 0

\* However often the model asks for a commitment, concurrently or after an
\* error that left its fate open, it is recorded once.
LoggedOnce == \A c \in Commitments : logged[c] <= 1

\* What is in the transcript is a prefix of what was said: no turn lands
\* after one that was lost.
TranscriptPrefix == \A n \in turns : 1..n \subseteq turns

\* What the call does to commitments, seen from outside.
Ledger == INSTANCE CommitmentLedger WITH
  recorded <- {c \in Commitments : logged[c] > 0},
  told <- told,
  kept <- IF status = "completed" THEN outcome ELSE NoOutcome,
  Open <- NoOutcome

\* The queue, the writer, the lock and the shut-down implement the ledger: each
\* commitment is recorded before the model is told of it, nothing is told after
\* the end, and a completed call keeps all that was told and nothing unrecorded.
LedgerSpec == Ledger!Spec

\* A call that has completed holds every commitment the model was told it
\* may make, in its state and in its outcome.
CompletedKeepsTold ==
  status = "completed" => told \subseteq stored /\ told \subseteq outcome

\* The end of a call that its job has ended is recorded once: no event that was
\* still queued, and would write ended_at again, lands after that.  An event may
\* land after a cancel.
EndedOnce == status # "cancelled" => ended <= 1

\* Once the call has ended the job comes to its end: every tool call returns, the
\* writer is drained and stops, and the call is completed or failed - unless the
\* database fails the exception handler.
JobEnds ==
  pc[Job] = "closing" ~>
    /\ writer = "stopped"
    /\ \/ pc[Job] = "over" /\ status \in Terminal
       \/ pc[Job] = "lost"

=============================================================================
