# CallTool: specifications of the call control plane

This directory models CallTool (`src/`), a voice agent that places and answers
telephone calls over LiveKit and SIP and keeps every call in PostgreSQL.  The
models are TLA+ modules translated from the Python source; TLC checks them on
small instances and TLAPS proves theorems about them for every value of the
constants.  Line numbers refer to files below `src/src/calltool/`.

## 1. The system

| Component | State it keeps | Operations | Where |
|---|---|---|---|
| Call lifecycle | the table of legal transitions | `can_transition` | `calls/state.py`, `calls/models.py` |
| Call service | none of its own but `_dispatch_lock` | create, create inbound, dispatch queued, cancel, respond, request and expire input, list | `calls/service.py` |
| Dispatcher | LiveKit rooms and dispatches (remote) | dispatch, cancel | `calls/dispatcher.py` |
| Scheduler | one loop of the API, every half second | `dispatch_queued` | `api/app.py:132` |
| Repository | rows `calls`, `call_events`, `call_transcript_turns`, `input_requests` | `update_call` under a row lock with expected statuses, and reads | `storage/postgres.py`, `storage/memory.py` |
| Worker job | progress of `handle_call`, one process per call | the walk from QUEUED to a terminal status | `worker/agent.py`, `worker/dialer.py` |
| Hot call state | facts, candidates, commitments, queue, writer task, state lock | `persist_*`, `flush`, `close` | `realtime/active_calls.py` |
| Voice tools | waits of the tool calls the model makes | `record_fact` ... `finish_call` | `voice/tools.py` |
| Session observer, watchdog | timers, transcripts, recovery attempts | callbacks of the voice session | `worker/session.py`, `voice/watchdog.py` |
| Event dispatcher | a bounded queue and a task | publish, close | `realtime/events.py` |
| Event stream | cursor of a client | list events, server-sent events | `api/rest.py:117` |
| Policy engine | none | `authorize_commit`, `validate_target` | `policy/engine.py` |
| API surface, CLI, configuration, prompts, metrics | none that other parts read | | `api/`, `cli/`, `config.py`, `voice/`, `observability/` |

**How they interact.**  The API process, one worker process per call and
occasionally the CLI (`calltool doctor --call`) share nothing but the rows in
PostgreSQL and the rooms in LiveKit.  Each of them reads a row, does something
slow (a room, a dispatch, a dial, a farewell), and updates the row with
`expected_statuses`; an update that finds another status raises
`InvalidStateTransitionError`.  Inside a worker, asyncio tasks share the
`ActiveCallContext`: the tools change it under `_state_lock` and hand
snapshots to one writer task.

**What is hard.**  Every read may be stale when its update comes; the worker may
prewarm a call before the API has recorded that it dispatched it; LiveKit may
take a dispatch and lose the answer; processes die; a write may be refused,
fail, or succeed without an answer, with later writes already queued behind
it; a call may end, time out, be cancelled or be transferred while tools wait.
`PROJECT.json` lists each hazard at its line.

**What makes each part correct.**

- Lifecycle: rows move along `_TRANSITIONS` only, whoever writes them.
- Dispatch: `max_concurrent` is kept; a call is handed over once, dialled
  once, and worked on by one job; an excess call gets its turn.
- Job: no call stays open when its jobs have ended, unless the database failed
  them in their last step; a cancelled job ends.
- Hot state: what the model was told is durable, once; nothing is written over
  a failed write; shut-down loses nothing and ends.
- Repository: concurrent transactions add up to operations of one lock; a key
  names one call; pages neither repeat nor lose calls.
- Human input: what the model acts on is the answer on record, and when it is
  told that nobody answered nobody can any more; a question ends, and a call does
  not stay in INPUT_REQUIRED with nobody waiting.
- Watchdog: it speaks into silence that is owed an answer, and only then.
- Policy: a promise is allowed just if it breaks no permission or constraint.
- Event dispatcher: critical events are not dropped, order is kept, close
  flushes and ends.
- Event stream: a client receives the log, in the end all of it.

## 2. Plan

1. `CallStateMachine`, `CallService`: the lifecycle as an abstract
   specification, and the control plane that implements it.  *Done.*
2. `CallServiceProofs`, `CallServiceSafety`, `CallServiceLimit`: theorems about
   it.  *Done.*
3. `ActiveCallContext`: hot state, writer, tools, shut-down; it implements
   `CommitmentLedger`.  `ActiveCallContextProofs`.  *Done.*
4. `EventDelivery` (bounded queue, critical and droppable events, close with
   a timeout, the event stream) and `EventDeliveryProofs`.  *Done.*
5. `MemoryRepository`, `PostgresRepository` and `PostgresRepositoryProofs`: the
   transactions of PostgreSQL, the idempotency key and the pages of
   `list_calls` implement the repository of one lock.  *Done.*
6. `VoiceWatchdog`, `HumanInput`, their composition `VoiceSession` and
   `VoiceSessionProofs`.  *Done.*
7. `PolicyEngine`, a pure algorithm against a reference definition, its
   composition with a call, `CallPolicy`, and `PolicyEngineProofs`.  *Done.*
8. A theorem for every safety property that a run checks.  *Done.*

Runs stay few, one per question; a run that shows a disagreement gives way when
a later module needs its place.  Modules to be proved about use no recursive
operators.

    CallStateMachine <- CallService <- CallServiceProofs <- ...Safety <- ...Limit
    CommitmentLedger <- ActiveCallContext <- ActiveCallContextProofs
    MemoryRepository <- PostgresRepository <- PostgresRepositoryProofs
    VoiceWatchdog, HumanInput <- VoiceSession <- VoiceSessionProofs
    EventDelivery <- EventDeliveryProofs
    PolicyEngine, ActiveCallContext <- CallPolicy <- PolicyEngineProofs

To the right of an arrow is the module that builds on the one to its left, by
extending it or, from `CallStateMachine`, `CommitmentLedger` and `MemoryRepository`,
by implementing it.

## 3. The models

### CallStateMachine

The table of `calls/state.py` as a next-state relation over a function from
calls to statuses: a row is created, then moves along an edge or keeps its
status.  It is the abstract specification of `CallService`
(`LegalTransitions == Lifecycle!Spec`).

### CallService

| Variable | In the code |
|---|---|
| `status`, `dispatched` | `calls.status`; does the row hold `room_name` and `dispatch_id` |
| `client`, `run`, `cancel` | where a `create_call`, a `dispatch_queued` of a process, a `cancel_call` is |
| `room`, `leg`, `dials` | LiveKit's room, the SIP participant, calls of `create_sip_participant` |
| `job`, `seen` | where `handle_call` of a job is, and what its failure handler has read |
| `crashes`, `faults` | process deaths and exceptions so far |
| `unrecorded` | history: dispatches of a call that its row does not know of |

One action is the code between two awaits.  `update_call` is atomic, because it
holds the row lock (`postgres.py:161-222`).  A read that only prechecks what the
next update checks again is merged with it; a read whose result is used later
(`cancel_call`, the failure handler, the count and list of `dispatch_queued`)
is a step of its own.  The answering-machine phase writes with the expected
status of the update after it and is merged with that.

A statement may fail wherever the code awaits one, before or after its commit,
and each failure goes where the code lets it: a request of `create_call` breaks
off (`client` is "failed") and nobody goes on with its row; `dispatch_queued`
returns and drops its batch, which the scheduler logs (`app.py:136`), so a
dispatch whose record failed is forgotten by the row (`Forget`); a job goes to
its failure handler (`WorkerFault`); and a handler whose own read or update
fails (`agent.py:410-424`) ends with the row as it is (`job` is "lost").
`Gone` are the jobs that ended without a last look at their call: lost, killed,
or expired with their room.

External parts, modelled from how the code uses them: the callee answers,
refuses or hangs up; deleting a room drops its leg, and deleting a room that is
gone may fail; a room nobody is in may expire with the dispatch in it; LiveKit
may offer the job of an inbound call again; it does not restart the job of a
worker that died; a dial into a deleted room is refused.

### ActiveCallContext

One call from ACTIVE on.  `status`, `stored`, `outcome`, `ended`, `logged`,
`turns`, `request` are its rows; `hot`, `lock`, `queue`, `writer`, `failed` the
context; `pc` and `ack` the asyncio tasks (tool calls and the job) and the
futures they await; `respond` and `expiry` the states the API and
`expire_input` have read.  `stored` and `hot` are sets of facts, candidates and
commitments: a snapshot is a copy of the set.  The writer's transaction and
the answer to the waiter are one step, because a waiter resumes in a step of
its own anyway and nobody else can see the future.  Cancelling is one step:
its races are in `CallService`.  The failure handler of the job may itself be
failed by the database (`pc` is "lost"); the call then stays open.  `ended` counts the writes of `ended_at`.

External: LiveKit runs the tool calls of the model as concurrent tasks, does
not cut them off when speech is interrupted, and lets them finish before a
session is closed (`SessionCanClose`).

`Decision` is what the policy says of the commitments and candidates the tools
ask for.  A denial is recorded in the same way as a permission, but not told as
one (`Tells`); when the policy raises, nothing is recorded (`PolicyRaises`).
`CallPolicy` composes this with `PolicyEngine`: the decisions are those of
`authorize_commit` on the permissions and constraints of the call and on the
action and payload of each commitment, which its id is a digest of, so that
`ToldIsPermitted` relates what the model was told to those constraints.

`CommitmentLedger` is what all of this is for, without queue, writer or lock:
three variables, what is `recorded`, what the model was `told`, what the
completed call has `kept`.  `LedgerSpec` maps them to the `logged` commitments,
to `told`, and to the outcome of a completed row.

### EventDelivery

The events of one call, from the commit of a row of `call_events` to a sink of
the process and to a client of the API.

| Variable | In the code |
|---|---|
| `log` | the rows of `call_events`, each with its kind and the task that wrote it |
| `writer` | where a task is between its commit and the end of `publish()` |
| `queue`, `worker`, `offered` | `_queue`, the task of `_run`, what each sink was asked to send |
| `closing` | progress of `close()` |
| `stream`, `got` | `sequence` and the events of `event_stream`, what the client has received |

`Local` are the tasks that share the dispatcher of one process, `Remote` those
of the other processes, which write the same log but publish elsewhere.  The
transaction that numbers an event holds the row of the call, or creates it,
and is one step; `publish()` comes after it, so a close may come in between.
`Put` resumes a task that waited for room: asyncio wakes the waiters in order,
but a task that runs before the one that was woken may take the room, so any of
them may be next.  The repository closes its pool before its dispatcher, so a
local commit needs an open dispatcher.  Sink 1 is Redis, sink 2 the webhook,
which takes some events only; a sink that raises and one that does not are the
same step, because `_run` treats them alike.  A send to Redis may also never
return: `Redis.from_url` sets no socket timeout, so `Send` to sink 1 is not fair.
`Kind` groups the types of events
by what the code tells apart: critical, wanted by the webhook, terminal.

External: the client, which asks again after its last event whenever its stream
has ended or broken.

### MemoryRepository, PostgresRepository

`MemoryRepository` is `storage/memory.py`: every operation at one instant,
under one lock.  `PostgresRepository` has the statements of
`storage/postgres.py` as steps, each session on a connection of its own:

| Variable | In the code |
|---|---|
| `status`, `state`, `events`, `turns`, `created`, `connected` | the committed rows; of the state, who wrote it last and whose utterance it remembers |
| `pc`, `on`, `kind`, `answer` | where a session is in its transaction, for which call, with which update, and what it was answered |
| `cursor`, `base`, `seen`, `twice` | `next_cursor` of a client, and what its pages have shown |

`inserted` is a row that is written and not committed: the unique index on
principal and `client_request_id` makes a second INSERT wait for it, and fail
once it has been committed.  `locked` is a transaction that holds the row
(`SELECT ... FOR UPDATE`); what it writes becomes visible with its commit, so
UPDATE, INSERT of the event and COMMIT are one step.  `Die` loses a session
between any two steps: its transaction is rolled back.  The two lookups of a key
are one step, as a row that comes between them is found by the INSERT.  The two
repositories differ in `ended_at` of events that come after the end, which
`EndedOnce` of `ActiveCallContext` is about; the model has no such events.  The
pool of connections and the time limit of a statement are not modelled: their
errors look like `Die`.

### HumanInput, VoiceWatchdog, VoiceSession

`HumanInput` follows a question to the client through three parties that share
rows only: the tool `request_user_input`, or the job that asks about an
answering machine (`Amd`); `CallService.request_input` and `expire_input`; and
`respond`.  `row` and `given` are the rows `input_requests`, `call` the status
as far as it matters (active, waiting for input, ended), `ask` and `api` where
question and answer are, `told` what the model is told.  Every read that is used
later is a step: the poll, the status that `expire_input` reads before its
update, the request `respond` reads before it resolves it.  Every statement of a
question may fail, committed or not (`RequestFails`, `RequireFails`, `WaitFails`):
the tool call, or the job that asks, ends with it.  A failed `respond` leaves an
answer on record and the call as it is (`RespondFails`).

`VoiceWatchdog` has one action per callback and per timer of
`voice/watchdog.py`.  `watch` is the task (asleep for `silence_seconds`, waiting
two seconds for the model's reply, or none), `depth` its count of tool calls,
`running` the tool calls that really run.  `owed` is no variable of the code: it
remembers what has happened since the last turn of the user, for the
properties.  The watch acts through three steps of the session: `AskModel`
(`generate_reply` accepts), `SayPhrase` (`say` accepts) and `GiveUp` (`say`
raises).  `generate_reply` and `say` raise independently of each other, and also
in a session that is open: some realtime models take no `generate_reply`
(`agent.py:579`), and some sessions have no speech synthesis for `say`.  So the
phrase may follow the timer at once.

`VoiceSession` composes both: a question is a tool call the watchdog counts;
`job` is `handle_call` from the answering-machine question to the end of
`observer.close()`.  External: LiveKit reports the states of user and agent
(any change of state may come at any time), drains a session by waiting for its
tool calls, or cancels them when it closes otherwise.  After an error the job is
"failing" and closes with `aclose()`; when the watchdog has given up it is
"giving_up" and closes without a drain.  `_close_voice_session` waits for the event
close without a time limit; what `shutdown()` does on a session that was lost
before, whose event has been emitted, is LiveKit's: the model lets it return or
hang ("hung").

### PolicyEngine

`authorize_commit` as an operator on permissions, constraints, action and
payload.  A constraint is what the regular expressions find in its sentence: at
most one earliest and one latest time, and excluded weekdays.  `Check` is the
loop, which ends at the first reason or at the ValueError that `time(24, 0)`
raises; `Permitted` is the reference, that permissions and every constraint are
kept.  It has no state of its own: `CallPolicy` puts it behind the tools.

## 4. Runs

Bounds.  `Loads` (in `CallService`, `PostgresRepository`, `VoiceSession`) are
the sets of requests that come together in one behaviour, in `CallService` with
the number of exceptions that come with them; each behaviour has one of them, so
that a run covers several situations without their product.  `MaxJobs` bounds
LiveKit jobs per outbound call and is as large as the number of dispatches the
run allows (one per dispatcher, and one more for each exception and each crash),
so that running out of job slots never stops a dispatch; `MaxCrashes` and
`MaxDeaths` bound the deaths of processes and of database sessions, `MaxTurns`,
`MaxEvents` and `MaxFaults` (of `ActiveCallContext`) turns, observer events and
database failures, `MaxTime` the clock that stamps calls; `MayCancel`, `MayAsk`
and the sets of tool calls say which calls are cancelled, ask, or are made.

Two calls are enough to compete for a slot, and an inbound call beside an outbound
one for a count beyond the limit.  One commitment requested twice to
race with itself, two turns for a hole.  In `delivery`, with two tasks, a queue
of two and three events (a plain one, one that the webhook wants, one that is
terminal), the queue is full while a third event comes and while the dispatcher
is closed.  In `repository` two requests share a key, a third has it under
another principal, two jobs write one row, and with pages of one call and three
ticks a call is created or connects before, between and after pages.  In
`session` two questions run in parallel, two clients answer one question twice or
one each, and two turns let a watch be replaced by the next; conversations stop
after the last answered turn, since nothing is watched any more.  In
`completion` the constraints say from 1 to 2 and not on Tuesday, one commitment is
for 2 on a Thursday, the other for a Tuesday, so one is allowed and one denied; in
`tools` a constraint says "24 Uhr" (`Midnight = 3`, past the times of a day), on
which the policy raises.

Deadlock is checked in every run but `delivery`: the scheduler never stops, and
`Over`, `Quiet` and `Ended` are the rest of a finished call, of the repository
and of a job.  In `delivery` a process whose dispatcher is closed may rest when
no call exists that a client could follow.

| Run | Checks | Shows |
|---|---|---|
| `slots` | `ConcurrencyLimit`, `OneDispatchPerCall` | two calls and one slot, or an inbound call that takes a second one; a statement that fails anywhere |
| `failures` | `TypeOK`, `NoAbandonedCall`, `LegalTransitions`, `EveryCallEnds`, `CancelledJobsEnd` | two calls for one slot, so that every queued call gets it; a call that asks and is cancelled, and a statement that fails anywhere, also in the failure handler; an inbound call offered twice; expiring rooms |
| `crashes` | `AtMostOneDial`, `OneAgentPerCall` | API and CLI dispatch one call; lost answers, a failed statement, a process death, expiring rooms |
| `tools` | `ToldIsDurable`, `LoggedOnce`, `TranscriptPrefix` | racing tools, a database failure, an IVR timeout, a cancel; a request on which the policy raises |
| `completion` | `TypeOK`, `CompletedKeepsTold`, `EndedOnce`, `ToldIsPermitted`, `JobEnds`, `LedgerSpec` | two commitments, one of them denied, transfer and finish against every way a call may end |
| `delivery` | `TypeOK`, `CriticalKept`, `WriterOrder`, `StreamIsLog`, `EveryEventStreamed`, `CriticalOffered`, `FlushedAtClose`, `CloseEnds` | a full queue, failing sinks, a Redis that hangs, a close and its timeout, broken connections |
| `repository` | `TypeOK`, `KeyNamesOneCall`, `PagesComplete`, `RefinesMemory`, `EverySessionServed` | racing and repeated requests, writers of one row, a client that pages, lost sessions |
| `session` | `TypeOK`, `ToldIsGiven`, `TimeoutIsFinal`, `SomebodyAsks`, `NeverTalksOver`, `OnlyWhenOwed`, `SilentTurnHandled`, `AskEnds`, `VoiceJobEnds` | late and double answers, timeouts, failing statements, an answering machine, silence, a session that is lost or does not speak, every end of the conversation |

Four runs show where the code departs from what the repository says:

| Run | Violates | What happens |
|---|---|---|
| `cancel_line` | `CancelHangsUp` | a cancel that reads the call before its dispatch is recorded deletes no room; the phone rings on |
| `worker_crash` | `QueuedCallsGetSlots` | the slot of a worker that died is never free again |
| `answer` | `CompletedKeepsTold` | `respond` writes back a state read earlier and erases a commitment |
| `silence` | `SilenceRecovered` | a timer that finds the agent or a tool busy ends the watch; if nothing is said afterwards, nobody ends the silence |

Further departures that the models show, not kept as runs; where a passing
property leaves one out, its condition says so.

- The limit.  A dispatch that the row does not know of, because the API died or the
  update failed between `create_dispatch` and its record, holds no slot, and the call
  is dispatched again.  `ConcurrencyLimit` does not count calls with such a dispatch
  and `OneDispatchPerCall` allows one dispatch more for each (`unrecorded`); both
  are refuted without that condition.  With a call in `Cli` (a lock per process)
  `ConcurrencyLimit` fails as well.
- Calls left open.  A request that fails between the insert and QUEUED leaves its row
  CREATED or VALIDATING; a room that expires before its job is accepted leaves a
  queued call that is never listed again; a job whose handler is failed by the
  database leaves its row as it is; and of a call that may ask, the handler may lose
  to the user's answer.  `NoAbandonedCall` admits just these, by what became of
  the request or the jobs, and `EveryCallEnds` calls them `Stranded`.  Of those
  the dispatched ones keep their slots, like the calls of dead workers in
  `worker_crash`.  `JobEnds` admits the lost handler too.
- `CompletedKeepsTold` fails with `Ivr = TRUE` (`_finish_amd_call` takes no lock).
- A second job of an inbound call gets through while the row is CONNECTED, so
  `OneAgentPerCall` speaks of outbound calls only.
- An event that is appended after a cancel writes `ended_at` again, so `EndedOnce`
  excepts cancelled calls.
- A close that times out, or a critical put that waits while the sentinel is queued,
  loses critical events, which `projects-v0.1.md` (lines 3163-3175) says are never
  dropped, so `CriticalKept` and `CriticalOffered` speak of a dispatcher that is open.
- When Redis hangs, the webhook gets nothing more and the queue fills; then a critical
  `publish()`, and with it a tool call or the end of a job, and `close()` wait for
  room as long as it hangs, although the class calls itself non-blocking (`events.py:112`)
  and `projects-v0.1.md:3133-3137` says that voice never waits for a slow consumer
  of events.  `CriticalOffered` and the second part of `CloseEnds` therefore assume
  `RedisReturns`; the first part, that five seconds after the sentinel is queued the
  close is over, assumes nothing of it.
- A single connection may miss the terminal event, which comes between the query and
  the read of the status.
- A failed statement of the poll or the expiry, or of `respond` after its answer is on
  record, leaves a call in INPUT_REQUIRED with nobody waiting; `SomebodyAsks` admits
  it of the question or answer that has failed.
- A job that closes a session which was lost before may wait for ever
  (`agent.py:684`); `VoiceJobEnds` admits it of such a session.

Some behaviour follows from the code without any promise it could break, and no
property speaks of it: the loser of two racing requests with one key is answered
with an error, not with the call (a repetition is); an answer that comes between
the last poll and the expiry is reported as accepted, though the model is told
of a timeout; of two answers the second is accepted and dropped, and its update
may make the call ACTIVE while another question waits; a reply that recovers a
silent call is never recorded, as the watch is cancelled in the call that wakes
it; a call that connects while a client pages may be on none of its pages, which
`PagesComplete` excepts.

### Fairness

`CallService`: a process that lives keeps stepping, because repository and
LiveKit calls return, with or without an error; the scheduler loop ticks and
catches every exception (`app.py:132-138`), hence weak fairness of its own `CountDispatched`; the phone
is fair because the SIP service enforces `ringing_timeout` and
`max_call_duration`.  Clients, cancels, the conversation, faults and crashes are
not fair.  `ActiveCallContext`: tool calls, writer, shut-down and a `respond`
that has begun are fair; the clock reaches `expires_at`; what people say, call or
answer is not.  Weak fairness is enough for the lock, as tool calls are finite.
`EventDelivery`: tasks of the event loop run, and a send to the webhook answers
or times out (its client has a timeout of five seconds).  A send to Redis is not
fair, since its client has none; what needs it to return says so
(`RedisReturns`).  A close that waits for the worker ends, by the worker or by
the time limit of `close()`; that alone makes the close end when Redis hangs.  The client reconnects and reads the status
under weak fairness; the query and the delivery of an event need strong
fairness, because a connection may break again and again, though not always at
the same point.  No commit, close or broken connection is fair.
`PostgresRepository`: the database executes every statement that does not wait
for a lock; requests, jobs and deaths are not fair.  Weak fairness is enough,
because sessions are finite and each takes a lock once or twice.
`VoiceSession`: timers fire, polls go on until `user_input_timeout_seconds`, the
job's wait returns once one of its events is set, and a `respond` that has begun
goes on.  User, model, clients, hang-ups, failures and LiveKit's session are not
fair: a question goes on because `Proceed` is fair, and nothing has to fail.

## 5. Proofs

| Module | Theorem | States |
|---|---|---|
| `CallServiceProofs` | `Typing` | `Spec => []TypeOK` |
| | `LegalLifecycle` | `Spec => LegalTransitions`: step by step, each write of a row is an edge of the table or leaves it alone |
| `CallServiceSafety` | `OneDial` | `Spec => []AtMostOneDial` |
| | `OneAgent` | `Spec => []OneAgentPerCall` |
| | `NobodyAbandoned` | `Spec => []NoAbandonedCall` |
| `CallServiceLimit` | `OneDispatch` | `SingleDispatcher => (Spec => []OneDispatchPerCall)` |
| | `Limit` | `SingleDispatcher => (Spec => []ConcurrencyLimit)`, where `SingleDispatcher` says `Cli = {}` |
| `EventDeliveryProofs` | `Typing`, `KeptCritical` | `Spec => []TypeOK`, `Spec => []CriticalKept` |
| | `Stream`, `Order` | `Spec => []StreamIsLog`, `Spec => []WriterOrder` |
| | `Flush` | `Spec => FlushedAtClose` |
| `PostgresRepositoryProofs` | `OneCall` | `Spec => []KeyNamesOneCall` |
| | `Refinement` | `Spec => RefinesMemory`: the transactions implement the in-memory repository |
| | `Pages`, `Typing` | `Spec => []PagesComplete`, `Spec => []TypeOK` |
| `VoiceSessionProofs` | `Told`, `Timeouts` | `Spec => []ToldIsGiven`, `Spec => []TimeoutIsFinal` |
| | `Waits` | `Spec => []SomebodyAsks` |
| | `Silence`, `Owed` | `Spec => NeverTalksOver`, `Spec => OnlyWhenOwed` |
| | `Typing` | `Spec => []TypeOK` |
| `ActiveCallContextProofs` | `Typing`, `Durable`, `Once` | `Spec => []TypeOK`, `Spec => []ToldIsDurable`, `Spec => []LoggedOnce` |
| | `Prefix`, `Ended` | `Spec => []TranscriptPrefix`, `Spec => []EndedOnce` |
| | `Kept` | `OnlyWriter => (Spec => []CompletedKeepsTold)` |
| | `Implements` | `OnlyWriter => (Spec => LedgerSpec)`, where `OnlyWriter` says `Asks = {}` and `~Ivr` |
| `PolicyEngineProofs` | `Decides` | `Allowed <=> Permitted`: what the loop allows, for lists of constraints of any length |
| | `Restriction` | fewer permissions and further constraints never allow more |
| | `Permits` | `Spec => []ToldIsPermitted`, with `Spec` of `ActiveCallContext` |

They hold for any sets of calls, numbers of jobs and slots, and for any sets of
tasks, sinks, events, requests, sessions, questions, clients and turns and any
size of queue and page, under the named assumption on the constants of each
module (which TLC evaluates in each run) alone, with two exceptions.  `Limit` and
`OneDispatch` assume `SingleDispatcher`: no CLI dispatches; the API may die and its
statements may fail.
`Kept` and `Implements` assume `OnlyWriter`, that nobody but the writer writes the
state of the row and every snapshot is taken under the lock; the run `answer`
shows what `respond` does to them otherwise.

The properties are not inductive as they stand.  That a call is dialled once
rests on *statuses never going back*: a call that was dialled is past
PREWARMING and no later write returns it there, so the update that lets a job
dial cannot succeed again.  That one job acts rests on the same fact and on
what statuses a job in charge implies: QUEUED excludes any.  The limit needs
an account of slots in the middle of a run of `dispatch_queued`: between the
count and the list, the outbound calls that hold a slot plus the capacity just
counted stay within the limit, and afterwards so does the union of those calls
and the batch; of all of these only the calls with no dispatch that their row
does not know of are counted.  Workers only give slots up, or start a call that was handed
over and is still in the batch; inbound calls are not counted.  `CallServiceLimit` states
this as `LimitInv` and proves it action by action.  `OneDispatch` adds that
a call has at most one job more than dispatches that its row does not know of, and
none more while it is still to be dispatched (`JobsInv`).

`NobodyAbandoned` follows each call that is under way to a job that *carries* it
(`CarryInv`): one that will not end without a look at the call, one that is gone,
or a failure handler that has looked and whose call has not moved since, so that
its update will succeed unless the database fails it.  Only an answer moves a call
under the eyes of a handler, from INPUT_REQUIRED to ACTIVE, hence the exception for
calls that may ask.  A call before QUEUED has its request, under way or failed
(`RequestInv`).  `RingInv` says that no job works on an inbound call before it rings, so that the
row it is then given has nobody who might have ended already.  No assumption on
crashes is needed, because the property speaks of calls none of whose jobs is gone.

`KeptCritical` and `Stream` need to know where an event may be: a task that publishes holds an
event of its own, a critical one if it waits for room (`WriterHolds`); the
worker turns to a sink only after it offered the event to the sinks before it
(`WorkerHolds`); what the stream has still to yield continues what the client
has (`StreamHolds`).  `Order` follows the events of one task along the whole
path, what was offered, what the worker holds, what is queued, what the task
still publishes, each before the next in the log (`OrderHolds`).  `Flush` is
about two instants, the begin of a close and its end: it is proved by an invariant that holds
from the first one on, that the event is offered, in the hands of the worker, or
in the queue ahead of the sentinel, unless the worker was cancelled (`Flushing`).
Before `close()` queues the sentinel nothing ends the worker (`StopHolds`).

`OneCall` needs what a row that is not committed implies: no other row,
committed or not, has its key (`KeyInv`), which the wait of the INSERT for
`Conflicts` provides.  `Refinement` needs that what an update has checked under the
lock still holds when it commits (`LockInv`): nobody else holds that row, and
nobody writes a row he does not hold.  Then each commit is one operation of the
in-memory repository, a refusal or a death one that fails, and every other
statement a stutter.  `Pages` rests on the order of positions, which is total
because two calls differ in time or id (`OlderOrder`), and on two facts about the
cursor (`CursorInv`): no call that was on a page lies beyond it, since a call that
connects becomes newer and the cursor only gets older, and of the calls
that have kept their place it has passed none that was on no page, since a page
is cut off at its last call (`Extreme`, `CursorLast`).

In `VoiceSessionProofs` the rows and the questions constrain each other
(`QuestionInv`): a question that goes on has told nothing, and one that has
expired its row leaves no pending one.  An answer is under way only for
a question that was announced (`AnswerInv`).  `SomebodyAsks` is not inductive,
since a question may expire a row that has been answered; `WaitInv` says that
the question the call waits for is still pending, or about to reset the call, or
its answer about to, or that a statement of either has failed.  The phrase of the watchdog comes without a second look at
the states, whether the reply was asked two seconds ago or refused; `WatchInv` says that none is needed, because speech and tool calls
end the watch, and `ToolInv` that its count is the number of tool calls that run.

In `ActiveCallContextProofs` the invariant says where a commitment and a turn may
be.  A commitment is requested by one tool call, which holds the lock and waits for
the only such item of the queue; when it is recorded, that call is answered and
puts it into the hot state, unless the writer has failed and records nothing any
more (`CommitInv`).  Turns are in the transcript or, in their order, in the queue
(`TurnInv`), hence the next one to be written continues the transcript.  Most steps
touch neither and are `Quiet`.  `ShutInv` says that the job is past the tools when it
closes the writer, and that the queue is empty when it ends the call.  For the
ledger `KeepInv` says what snapshots hold: every one in the queue holds the hot
commitments and none but recorded ones and its own, and none is queued behind a
commitment that the hot state does not hold yet, because a snapshot is taken under
the lock.  So a write of the state loses nothing the model was told, and the
outcome of a completed call, which is the last of them, neither.

`Decides` goes through the first constraint that is broken, which exists because
the numbers of a list are well ordered (`LeastNumber`).  `Permits` carries that
over to a call: two steps only tell the model anything (`WhoTells`), each of a
commitment that the policy has allowed, and permissions and constraints do not
change.  Its assumption `DecidedByPolicy` is how `CallPolicy` composes the two
modules, that the decisions are what `authorize_commit` answers.

Only model-checked are the liveness properties, which are out of the prover's
reach: `EveryCallEnds`, `CancelledJobsEnd`, `JobEnds`, `EveryEventStreamed`,
`CriticalOffered`, `CloseEnds`, `EverySessionServed`, `SilentTurnHandled`,
`AskEnds` and `VoiceJobEnds`.  And so is what the four runs refute.

## 6. What is not modelled

- Prompts, speech and audio, configuration, authentication, metrics, tracing,
  formatting and the request schemas: nothing here depends on their state, and
  what they compute is text or a call of a library.
- The detection of an answering machine: an answer of LiveKit's model.  What the
  job does with it, the question to the client, is in `VoiceSession`.
- `validate_target` wraps the library `phonenumbers`; its tables decide.
- The regular expressions of the policy, the filters of `list_calls`, the encoding of
  cursors and the conversion of rows: `PolicyEngine` and `PostgresRepository`
  start from what they yield.
- The pool of connections and the limits of time on statements: they fail a
  statement.  Statements fail in `CallService` (all of the API's, the scheduler's,
  the jobs' and their handlers'), in the writer, the job and the handler of
  `ActiveCallContext`, in the questions and answers of `HumanInput`, and as lost
  sessions in `PostgresRepository`.  They do not fail in the questions inside
  `ActiveCallContext`, which `HumanInput` is about, in the commits of
  `EventDelivery`, and in the queries of its client, which look like a broken
  connection.
- The cancellation of a task that waits in `put()` for room in the event queue, which
  loses its event, and exceptions of `sink.close()`, which leave later sinks open.
- The SIP bootstrap and the checks of `doctor`, one-off requests to a server.
