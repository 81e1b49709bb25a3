-------------------------- MODULE CallServiceLimit --------------------------
(***************************************************************************)
(* The concurrency limit of dispatch_queued.  The lock spans the count,    *)
(* the list and the batch, but not the workers: while a batch is being     *)
(* dispatched its calls already take slots by themselves.  What is bounded *)
(* is therefore the slots and the batch together.  That each call is       *)
(* handed to LiveKit once rests on the same lock and on the batch.  Both   *)
(* hold but for the dispatches that a database error or a crash kept out   *)
(* of the row, and these are counted.                                      *)
(***************************************************************************)
EXTENDS CallServiceSafety

USE DEF failures

\* One process dispatches: a second one has a lock of its own.
SingleDispatcher == Cli = {}

api == run["api"]

Outgoing == Occupied \cap Outbound

\* The slots, and the slots and the batch, of calls whose dispatches are known.
Known == {c \in Outgoing : unrecorded[c] = 0}

Taken == {c \in Outgoing \cup api.batch : unrecorded[c] = 0}

\* The slots taken, by the run's batch too, and what the run has yet to list.
SlotsInv ==
  /\ api.pc \in {"idle", "counted"} => api.batch = {}
  /\ api.pc = "counted" => Cardinality(Known) + api.cap <= MaxConcurrent
  /\ Cardinality(Taken) <= MaxConcurrent

\* The row tells of a dispatch of the call, or the run is about to record one.
Accounted(c) ==
  \/ dispatched[c]
  \/ status[c] \notin Unclaimed
  \/ api.pc \in {"sent", "refused"} /\ Current("api", c)

\* A call has one job more than unrecorded dispatches, and only when that job is
\* accounted for; what the run has still to dispatch has no such job.
JobsInv ==
  /\ \A j \in Job : j[1] \in Outbound /\ job[j] # "none" =>
       \/ j[2] <= unrecorded[j[1]]
       \/ j[2] <= unrecorded[j[1]] + 1 /\ Accounted(j[1])
  /\ \A j \in Job :
       /\ j[1] \in api.batch /\ job[j] # "none"
       /\ api.pc = "listed" \/ ~Current("api", j[1])
       => j[2] <= unrecorded[j[1]]

LimitInv ==
  TypeOK /\ RowInv /\ RequestInv /\ run["cli"] = IdleRun /\ SlotsInv /\ JobsInv

\* Cardinalities of sets of outbound calls are numbers and grow with the set.
LEMMA Slots ==
  ASSUME NEW A \in SUBSET Outbound, NEW B \in SUBSET Outbound
  PROVE  /\ Cardinality(A) \in Nat
         /\ A \subseteq B => Cardinality(A) <= Cardinality(B)
         /\ Cardinality(A \cup B) <= Cardinality(A) + Cardinality(B)
<1>1. IsFiniteSet(A) /\ IsFiniteSet(B) /\ IsFiniteSet(A \cap B)
  BY Constants, FS_Subset
<1>2. Cardinality(A) \in Nat /\ Cardinality(B) \in Nat /\ Cardinality(A \cap B) \in Nat
  BY <1>1, FS_CardinalityType
<1>3. Cardinality(A \cup B) = Cardinality(A) + Cardinality(B) - Cardinality(A \cap B)
  BY <1>1, FS_Union
<1>4. A \subseteq B => Cardinality(A) <= Cardinality(B)
  BY <1>1, FS_Subset
<1>5. QED
  BY <1>2, <1>3, <1>4

\* A step of handle_call is taken by a job that exists, for its own call.
LEMMA WorkerStep ==
  ASSUME TypeOK, NEW k \in Job, HandleCall(k) \/ Conversation(k) \/ WorkerFault(k)
  PROVE  /\ job[k] # "none"
         /\ run' = run /\ dispatched' = dispatched /\ unrecorded' = unrecorded
         /\ \A c \in Call \ {k[1]} : status'[c] = status[c]
         /\ \A j \in Job \ {k} : job'[j] = job[j]
<1> USE DEF others, bystanders, DatabaseError
<1>1. CASE \/ Prewarm(k) \/ Dial(k) \/ MarkRinging(k) \/ FailDial(k) \/ Connect(k)
           \/ Activate(k) \/ Finalize(k) \/ Finish(k) \/ WatchdogFail(k)
  BY <1>1 DEF Prewarm, Dial, MarkRinging, FailDial, Connect, Activate, Finalize, Finish,
     WatchdogFail, Advance, Update, Goto, TypeOK
<1>2. CASE AcceptInbound(k) \/ ConnectInbound(k) \/ RequestInput(k) \/ Complete(k)
           \/ HandlerFail(k)
  BY <1>2 DEF AcceptInbound, ConnectInbound, RequestInput, Complete, HandlerFail, Update,
     Goto, TypeOK, workers
<1>3. CASE \/ Fetch(k) \/ AwaitDial(k) \/ HangUpParticipant(k) \/ Disconnected(k)
           \/ WatchdogReport(k) \/ WatchdogRead(k) \/ Report(k) \/ HandlerRead(k)
           \/ WorkerFault(k)
  BY <1>3 DEF Fetch, AwaitDial, HangUpParticipant, Disconnected, WatchdogReport,
     WatchdogRead, Report, HandlerRead, WorkerFault, Running, Goto, TypeOK
<1>4. QED
  BY <1>1, <1>2, <1>3 DEF HandleCall, Conversation

\* Without the dispatcher, which lives, no outbound call gets a new job.
LEMMA QuietStep ==
  ASSUME TypeOK, run["cli"] = IdleRun, [Next]_vars, ~Crash("api"),
         \A p \in Proc : ~DispatchQueued(p)
  PROVE  /\ run' = run /\ dispatched' = dispatched /\ unrecorded' = unrecorded
         /\ \A j \in Job : j[1] \in Outbound /\ job[j] = "none" => job'[j] = "none"
<1>1. ASSUME NEW c \in Call, \/ CancelCall(c) \/ Phone(c) \/ RoomExpires(c)
                             \/ InputAnswered(c)
      PROVE  /\ run' = run /\ dispatched' = dispatched /\ unrecorded' = unrecorded
             /\ \A j \in Job : job[j] = "none" => job'[j] = "none"
  BY <1>1 DEF CancelCall, CancelRead, CancelDelete, CancelDeleteFails, CancelUpdate,
     Phone, Answer, Refuse, HangUp, RoomExpires, InputAnswered, workers, others,
     bystanders, DatabaseError, TypeOK
<1>2. ASSUME NEW c \in Outbound, CreateCall(c)
      PROVE  run' = run /\ dispatched' = dispatched /\ unrecorded' = unrecorded /\ job' = job
  BY <1>2 DEF CreateCall, Insert, Validate, Queue, transition, workers, DatabaseError
<1>3. ASSUME NEW c \in Inbound, Ring(c)
      PROVE  /\ run' = run /\ dispatched' = dispatched /\ unrecorded' = unrecorded
             /\ \A j \in Job : j[1] \in Outbound => job'[j] = job[j]
  BY <1>3, Constants DEF Ring, TypeOK
<1>4. ASSUME NEW k \in Job, k[1] \in Inbound, Redeliver(k)
      PROVE  /\ run' = run /\ dispatched' = dispatched /\ unrecorded' = unrecorded
             /\ \A j \in Job : j[1] \in Outbound => job'[j] = job[j]
  BY <1>4, Constants DEF Redeliver, TypeOK
<1>5. ASSUME Crash("cli")
      PROVE  run' = run /\ dispatched' = dispatched /\ unrecorded' = unrecorded /\ job' = job
  <2>1. run' = run /\ \A c \in Outbound : ~Asked("cli", c)
    BY <1>5 DEF Crash, Asked, IdleRun, TypeOK
  <2>2. unrecorded' = unrecorded
    BY <1>5, <2>1 DEF Crash, TypeOK
  <2> QED BY <1>5, <2>1, <2>2 DEF Crash, workers
<1>6. ASSUME NEW k \in Job, WorkerCrash(k)
      PROVE  /\ run' = run /\ dispatched' = dispatched /\ unrecorded' = unrecorded
             /\ \A j \in Job : job[j] = "none" => job'[j] = "none"
  BY <1>6 DEF WorkerCrash, bystanders, Goto, Running, TypeOK
<1>7. ASSUME NEW k \in Job, HandleCall(k) \/ Conversation(k) \/ WorkerFault(k)
      PROVE  /\ run' = run /\ dispatched' = dispatched /\ unrecorded' = unrecorded
             /\ \A j \in Job : job[j] = "none" => job'[j] = "none"
  BY <1>7, WorkerStep
<1>8. CASE UNCHANGED vars
  BY <1>8 DEF vars
<1>9. QED
  BY <1>1, <1>2, <1>3, <1>4, <1>5, <1>6, <1>7, <1>8, Constants DEF Next, Proc

\* Only a job of the call moves it out of the queue, unless the call ends.
LEMMA ClaimStep ==
  ASSUME TypeOK, [Next]_vars, NEW c \in Outbound, status[c] \in Unclaimed,
         status'[c] \in NonTerminal \ Waiting
  PROVE  \E j \in Job : j[1] = c /\ job[j] # "none"
<1>1. c \in Call /\ c \notin Inbound /\ Absent \notin NonTerminal
  BY Constants, StatusFacts DEF Call
<1>2. status'[c] # status[c]
  BY <1>1 DEF Unclaimed, Waiting
<1>3. ASSUME NEW d, NEW expected, NEW new, Update(d, expected, new)
      PROVE  d = c /\ new = status'[c] /\ status[c] \in expected
  BY <1>1, <1>2, <1>3 DEF Update, TypeOK
<1>4. ASSUME NEW p \in Proc, DispatchQueued(p) \/ Crash(p)
      PROVE  FALSE
  BY <1>2, <1>3, <1>4, StatusFacts DEF DispatchQueued, CountDispatched, ListQueued,
     Dispatch, DispatchFails, RecordDispatch, RecordRefusal, Crash
<1>5. ASSUME NEW d \in Call, \/ CancelCall(d) \/ Phone(d) \/ RoomExpires(d)
                             \/ InputAnswered(d) \/ Ring(d)
      PROVE  FALSE
  BY <1>2, <1>3, <1>5, StatusFacts DEF CancelCall, CancelRead, CancelDelete,
     CancelDeleteFails, CancelUpdate, Phone, Answer, Refuse, HangUp, RoomExpires,
     InputAnswered, Ring, Unclaimed, Waiting
<1>6. ASSUME NEW d \in Outbound, CreateCall(d)
      PROVE  FALSE
  BY <1>1, <1>2, <1>3, <1>6 DEF CreateCall, Insert, Validate, Queue, transition,
     TypeOK, Waiting
<1>7. ASSUME NEW k \in Job, Redeliver(k) \/ WorkerCrash(k)
      PROVE  FALSE
  BY <1>2, <1>7 DEF Redeliver, WorkerCrash, bystanders
<1>8. ~UNCHANGED vars
  BY <1>2 DEF vars
<1>9. PICK k \in Job : HandleCall(k) \/ Conversation(k) \/ WorkerFault(k)
  BY <1>4, <1>5, <1>6, <1>7, <1>8, Constants DEF Next, Call
<1>10. QED
  BY <1>1, <1>2, <1>9, WorkerStep

\* A call whose dispatches are known takes a slot by being recorded, or as a
\* member of the batch.
LEMMA Growth ==
  ASSUME LimitInv, [Next]_vars, NEW c \in Outbound, c \in Occupied',
         dispatched'[c] = dispatched[c], unrecorded[c] = 0
  PROVE  c \in Taken
<1>1. c \in Call /\ status'[c] \in NonTerminal /\ Absent \notin NonTerminal
  BY StatusFacts DEF Occupied, Call
<1>2. status[c] \in NonTerminal \cup {Absent}
  BY <1>1, Backwards DEF LimitInv
<1>3. CASE dispatched[c]
  BY <1>1, <1>2, <1>3 DEF LimitInv, RequestInv, Unqueued, Occupied, Outgoing, Taken
<1>4. CASE ~dispatched[c]
  <2>1. status'[c] \notin Waiting
    BY <1>4 DEF Occupied
  <2>2. CASE status[c] \notin Unclaimed
    BY <1>1, <1>2, <2>2 DEF Occupied, Outgoing, Unclaimed, Taken
  <2>3. CASE status[c] \in Unclaimed
    <3>1. PICK j \in Job : j[1] = c /\ job[j] # "none"
      BY <1>1, <2>1, <2>3, ClaimStep DEF LimitInv
    <3>2. ~(j[2] <= unrecorded[c])
      BY DEF Job
    <3>3. Current("api", c)
      BY <1>4, <2>3, <3>1, <3>2 DEF LimitInv, JobsInv, Accounted
    <3> QED BY <3>3 DEF Current, api, Taken
  <2> QED BY <2>2, <2>3
<1>5. QED
  BY <1>3, <1>4

-----------------------------------------------------------------------------
(* The inductive step: first the steps outside dispatch_queued, then the   *)
(* statements of a dispatch run.                                           *)

LEMMA ApiType ==
  ASSUME TypeOK
  PROVE  /\ run \in [Proc -> RunType] /\ api \in RunType
         /\ api.batch \in SUBSET Outbound /\ api.cap \in Nat
         /\ api.pc \in {"idle", "counted", "listed", "sent", "refused"}
         /\ Known \in SUBSET Outbound /\ Taken \in SUBSET Outbound
         /\ unrecorded \in [Outbound -> Nat]
  BY DEF TypeOK, api, RunType, Proc, Outgoing, Known, Taken

\* A call that has left the queue never comes back to it.
LEMMA ClaimKept ==
  ASSUME LimitInv, [Next]_vars, NEW c \in Outbound, status[c] \notin Unclaimed
  PROVE  status'[c] \notin Unclaimed
<1> c \in Call
  BY DEF Call
<1> QED BY Backwards, StatusFacts DEF LimitInv, Unclaimed, Waiting

\* Slots and batch together stay within the limit when they do not grow.
LEMMA Shrink ==
  ASSUME LimitInv, TypeOK', Taken' \subseteq Taken
  PROVE  Cardinality(Taken') <= MaxConcurrent
<1>1. Taken \in SUBSET Outbound /\ Taken' \in SUBSET Outbound
  BY ApiType DEF LimitInv
<1>2. Cardinality(Taken) \in Nat /\ Cardinality(Taken') \in Nat
  BY <1>1, Slots
<1>3. Cardinality(Taken') <= Cardinality(Taken)
  BY <1>1, Slots
<1>4. QED
  BY <1>2, <1>3, Constants DEF LimitInv, SlotsInv

LEMMA LimitQuiet ==
  ASSUME LimitInv, [Next]_vars, ~Crash("api"), \A p \in Proc : ~DispatchQueued(p)
  PROVE  SlotsInv' /\ JobsInv' /\ run'["cli"] = IdleRun
<1>1. /\ run' = run /\ dispatched' = dispatched /\ unrecorded' = unrecorded
      /\ \A j \in Job : j[1] \in Outbound /\ job[j] = "none" => job'[j] = "none"
  BY QuietStep DEF LimitInv
<1>2. api' = api
  BY <1>1 DEF api
<1>3. TypeOK /\ TypeOK'
  BY TypeNext DEF LimitInv
<1>4. Taken' \subseteq Taken
  BY <1>1, <1>2, <1>3, ApiType, Growth DEF Outgoing, Taken
<1>5. ASSUME api.pc = "counted"
      PROVE  Cardinality(Known') + api.cap <= MaxConcurrent
  <2>1. Known' \subseteq Known
    BY <1>2, <1>4, <1>5 DEF Known, Taken, LimitInv, SlotsInv
  <2>2. Known' \in SUBSET Outbound /\ Known \in SUBSET Outbound
    BY DEF Known, Outgoing
  <2>3. /\ Cardinality(Known') <= Cardinality(Known)
        /\ Cardinality(Known') \in Nat /\ Cardinality(Known) \in Nat
    BY <2>1, <2>2, Slots
  <2>4. Cardinality(Known) + api.cap <= MaxConcurrent
    BY <1>5 DEF LimitInv, SlotsInv
  <2> QED BY <1>3, <2>3, <2>4, ApiType, Constants
<1>6. SlotsInv'
  BY <1>2, <1>3, <1>4, <1>5, Shrink DEF LimitInv, SlotsInv
<1>7. \A c : Current("api", c)' <=> Current("api", c)
  BY <1>1 DEF Current
<1>8. ASSUME NEW c \in Outbound, Accounted(c)
      PROVE  Accounted(c)'
  BY <1>1, <1>2, <1>7, <1>8, ClaimKept DEF Accounted
<1>9. api.batch \subseteq Outbound
  BY <1>3, ApiType
<1>10. JobsInv'
  BY <1>1, <1>2, <1>7, <1>8, <1>9 DEF LimitInv, JobsInv
<1>11. QED
  BY <1>1, <1>6, <1>10 DEF LimitInv

\* The API dies: its run is forgotten, and what it had asked for is unrecorded.
LEMMA LimitCrash ==
  ASSUME LimitInv, [Next]_vars, Crash("api")
  PROVE  SlotsInv' /\ JobsInv' /\ run'["cli"] = IdleRun
<1> "api" \in Proc /\ TypeOK /\ TypeOK'
  BY TypeNext DEF Proc, LimitInv
<1>1. /\ status' = status /\ dispatched' = dispatched /\ job' = job
      /\ api' = IdleRun /\ run'["cli"] = IdleRun
  BY DEF Crash, LimitInv, TypeOK, api, workers, Proc
<1>2. \A c \in Outbound :
        unrecorded'[c] = IF Asked("api", c) THEN unrecorded[c] + 1 ELSE unrecorded[c]
  BY DEF Crash
<1>3. Taken' \subseteq Taken
  <2>1. ASSUME NEW c \in Taken' PROVE c \in Taken
    <3>1. c \in Outgoing /\ unrecorded'[c] = 0
      BY <1>1, <2>1 DEF Taken, IdleRun, Outgoing, Occupied
    <3>2. unrecorded[c] = 0
      BY <1>2, <3>1, ApiType DEF Outgoing
    <3> QED BY <3>1, <3>2 DEF Taken
  <2> QED BY <2>1
<1>4. SlotsInv'
  BY <1>1, <1>3, Shrink DEF SlotsInv, IdleRun
<1>5. ASSUME NEW j \in Job, j[1] \in Outbound, job'[j] # "none"
      PROVE  \/ j[2] <= unrecorded'[j[1]]
             \/ j[2] <= unrecorded'[j[1]] + 1 /\ Accounted(j[1])'
  <2>1. \/ j[2] <= unrecorded[j[1]]
        \/ j[2] <= unrecorded[j[1]] + 1 /\ Accounted(j[1])
    BY <1>1, <1>5 DEF LimitInv, JobsInv
  <2>2. Accounted(j[1]) => Accounted(j[1])' \/ Asked("api", j[1])
    BY <1>1, <1>5 DEF Accounted, Asked, Unclaimed, Waiting, Unqueued, LimitInv, RequestInv,
       Current, api
  <2>3. j[2] \in Nat /\ unrecorded[j[1]] \in Nat
    BY <1>5, ApiType DEF Job
  <2> QED BY <1>2, <1>5, <2>1, <2>2, <2>3
<1>6. JobsInv'
  BY <1>1, <1>5 DEF JobsInv, IdleRun
<1>7. QED
  BY <1>1, <1>4, <1>6

\* Only the API has requests that dispatch.
LEMMA ApiDispatches ==
  ASSUME LimitInv, SingleDispatcher, NEW p \in Proc, DispatchQueued(p)
  PROVE  p = "api"
<1>1. SUFFICES ASSUME p = "cli" PROVE FALSE
  BY DEF Proc
<1>2. run[p].pc = "idle"
  BY <1>1 DEF LimitInv, IdleRun
<1>3. \A o \in Outbound \cup {Scheduler} : ~CountDispatched(p, o)
  BY <1>1 DEF CountDispatched, ProcOf, SingleDispatcher
<1>4. QED
  BY <1>2, <1>3 DEF DispatchQueued, ListQueued, Dispatch, DispatchFails,
     RecordDispatch, RecordRefusal

\* The other process stays idle.
LEMMA RunStep ==
  ASSUME LimitInv, DispatchQueued("api")
  PROVE  run'["cli"] = IdleRun
<1> "api" \in Proc
  BY DEF Proc
<1>1. ASSUME NEW result, Leave("api", result)
      PROVE  run'["cli"] = run["cli"]
  BY <1>1 DEF Leave, LimitInv, TypeOK, Proc
<1>2. run'["cli"] = run["cli"]
  BY <1>1 DEF DispatchQueued, CountDispatched, ListQueued, Dispatch, DispatchFails,
     RecordDispatch, RecordRefusal, NextInBatch, LimitInv, TypeOK, Proc
<1>3. QED
  BY <1>2 DEF LimitInv

\* The steps of a run before anything is sent: it counts, and what it lists has
\* only jobs that nobody recorded.
LEMMA LimitBegin ==
  ASSUME LimitInv, [Next]_vars,
         (\E o \in Outbound \cup {Scheduler} : CountDispatched("api", o)) \/ ListQueued("api")
  PROVE  SlotsInv' /\ JobsInv'
<1> "api" \in Proc /\ TypeOK /\ TypeOK'
  BY TypeNext DEF Proc, LimitInv
<1>1. /\ status' = status /\ dispatched' = dispatched /\ job' = job
      /\ unrecorded' = unrecorded /\ api.pc \in {"idle", "counted"}
  BY DEF CountDispatched, ListQueued, workers, api, DatabaseError
<1>2. Known' = Known
  BY <1>1 DEF Outgoing, Occupied, Known
<1>3. api.batch = {} /\ Taken = Known /\ Cardinality(Known) <= MaxConcurrent
  BY <1>1 DEF LimitInv, SlotsInv, Taken, Known
<1>4. ASSUME api'.batch \subseteq Queued
      PROVE  JobsInv'
  <2>1. \A j \in Job : j[1] \in Outbound /\ job[j] # "none" =>
          j[2] <= unrecorded[j[1]] \/ dispatched[j[1]] \/ status[j[1]] \notin Unclaimed
    BY <1>1 DEF LimitInv, JobsInv, Accounted
  <2>2. \A c \in Outbound : dispatched[c] \/ status[c] \notin Unclaimed => Accounted(c)'
    BY <1>1 DEF Accounted
  <2>3. \A j \in Job : j[1] \in Outbound /\ job[j] # "none" =>
          \/ j[2] <= unrecorded[j[1]]
          \/ j[2] <= unrecorded[j[1]] + 1 /\ Accounted(j[1])'
    BY <2>1, <2>2 DEF LimitInv, JobsInv
  <2>4. \A j \in Job : j[1] \in Queued /\ job[j] # "none" => j[2] <= unrecorded[j[1]]
    BY <2>1 DEF Queued, Unclaimed, Waiting
  <2> QED BY <1>1, <1>4, <2>3, <2>4 DEF JobsInv
<1>5. CASE \E o \in Outbound \cup {Scheduler} : CountDispatched("api", o)
  <2>1. CASE run' = run
    <3>1. api' = api
      BY <2>1 DEF api
    <3>2. Taken' = Taken
      BY <1>1, <3>1 DEF Taken, Outgoing, Occupied
    <3> QED BY <1>2, <1>3, <1>4, <3>1, <3>2 DEF SlotsInv, LimitInv
  <2>2. CASE run' # run
    <3>1. api'.pc = "counted" /\ api'.cap = Capacity /\ api'.batch = {} /\ Capacity > 0
      BY <1>5, <2>2 DEF CountDispatched, api, TypeOK
    <3>2. Taken' = Known
      BY <1>2, <3>1 DEF Taken, Known
    <3>3. Cardinality(Known) <= Cardinality(Occupied) /\ Cardinality(Known) \in Nat
      BY CapacityType, FS_Subset, FS_CardinalityType, Slots DEF Known, Outgoing
    <3>4. Cardinality(Known) + Capacity <= MaxConcurrent
      BY <3>1, <3>3, CapacityType, Constants DEF Capacity
    <3>5. SlotsInv'
      BY <1>2, <1>3, <3>1, <3>2, <3>4 DEF SlotsInv
    <3> QED BY <1>4, <3>1, <3>5
  <2> QED BY <2>1, <2>2
<1>6. CASE ListQueued("api") /\ Leave("api", "returned")
  <2>1. api' = IdleRun
    BY <1>6 DEF Leave, api, TypeOK
  <2>2. Taken' = Known
    BY <1>2, <2>1 DEF Taken, Known, IdleRun
  <2>3. SlotsInv'
    BY <1>3, <2>1, <2>2 DEF SlotsInv, IdleRun
  <2> QED BY <1>4, <2>1, <2>3 DEF IdleRun
<1>7. CASE ListQueued("api") /\ ~Leave("api", "returned")
  <2>1. PICK B \in SUBSET Queued :
          /\ IsOldest(B, api.cap)
          /\ run' = [run EXCEPT !["api"].pc = "listed", !["api"].batch = B]
    BY <1>7 DEF ListQueued, api
  <2>2. api'.pc = "listed" /\ api'.batch = B
    BY <2>1, ApiType DEF api, RunType
  <2>3. B \in SUBSET Outbound /\ Known \in SUBSET Outbound /\ api.cap \in Nat
    BY ApiType DEF Queued
  <2>4. Cardinality(B) <= api.cap /\ Cardinality(B) \in Nat
    <3>1. Cardinality(B) \in Nat
      BY <2>3, Slots
    <3>2. Cardinality(B) = api.cap \/ Cardinality(B) < api.cap
      BY <2>1 DEF IsOldest
    <3> QED BY <2>3, <3>1, <3>2
  <2>5. Cardinality(Known) + api.cap <= MaxConcurrent
    BY <1>7 DEF LimitInv, SlotsInv, ListQueued, api
  <2>6. Cardinality(Known \cup B) <= MaxConcurrent
    <3>1. Known \cup B \in SUBSET Outbound
      BY <2>3
    <3>2. Cardinality(Known \cup B) \in Nat /\ Cardinality(Known) \in Nat
      BY <2>3, <3>1, Slots
    <3>3. Cardinality(Known \cup B) <= Cardinality(Known) + Cardinality(B)
      BY <2>3, Slots
    <3> QED BY <2>3, <2>4, <2>5, <3>2, <3>3, Constants
  <2>7. Cardinality(Taken') <= MaxConcurrent
    <3>1. Taken' \subseteq Known \cup B
      BY <1>2, <2>2 DEF Taken, Known
    <3>2. Taken' \in SUBSET Outbound /\ Known \cup B \in SUBSET Outbound
      BY <2>3, <3>1
    <3>3. /\ Cardinality(Taken') \in Nat /\ Cardinality(Known \cup B) \in Nat
          /\ Cardinality(Taken') <= Cardinality(Known \cup B)
      BY <3>1, <3>2, Slots
    <3> QED BY <2>6, <3>3, Constants
  <2>8. SlotsInv'
    BY <2>2, <2>7 DEF SlotsInv
  <2> QED BY <1>4, <2>2, <2>8
<1>8. QED
  BY <1>5, <1>6, <1>7

\* create_dispatch: the new job belongs to the current call of the batch, and
\* only unrecorded ones came before it.
LEMMA LimitSend ==
  ASSUME LimitInv, [Next]_vars,
         NEW j \in Job, Dispatch("api", j) \/ DispatchFails("api", j)
  PROVE  SlotsInv' /\ JobsInv'
<1> "api" \in Proc /\ TypeOK /\ TypeOK'
  BY TypeNext DEF Proc, LimitInv
<1>1. /\ status' = status /\ dispatched' = dispatched /\ unrecorded' = unrecorded
      /\ api.pc = "listed" /\ Current("api", j[1]) /\ Free(j)
      /\ \A k \in Job \ {j} : job'[k] = job[k]
  BY DEF Dispatch, DispatchFails, api, TypeOK
<1>2. api'.pc \in {"sent", "refused"} /\ api'.batch = api.batch
  BY ApiType DEF Dispatch, DispatchFails, api, RunType
<1>3. Taken' = Taken
  BY <1>1, <1>2 DEF Outgoing, Occupied, Taken
<1>4. SlotsInv'
  BY <1>2, <1>3, Shrink DEF SlotsInv
<1>5. \A c : Current("api", c)' <=> Current("api", c)
  BY <1>2 DEF Current, api
<1>6. j[1] \in api.batch /\ j[1] \in Outbound
  BY <1>1, ApiType DEF Current, api
<1>7. j[2] <= unrecorded[j[1]] + 1
  <2>1. j[2] \in 1..MaxJobs /\ unrecorded[j[1]] \in Nat /\ j = <<j[1], j[2]>> /\ j[1] \in Call
    BY <1>6, ApiType DEF Job
  <2>2. CASE j[2] = 1
    BY <2>1, <2>2
  <2>3. CASE j[2] # 1
    <3>1. j[2] - 1 \in 1..MaxJobs
      BY <2>1, <2>3, Constants
    <3>2. PICK k \in Job : k[1] = j[1] /\ k[2] = j[2] - 1
      <4>1. <<j[1], j[2] - 1>> \in Job
        BY <2>1, <3>1 DEF Job
      <4> QED BY <4>1
    <3>3. k[2] < j[2]
      BY <2>1, <3>2
    <3>4. job[k] # "none"
      BY <1>1, <3>2, <3>3 DEF Free
    <3>5. k[2] <= unrecorded[k[1]]
      BY <1>1, <1>6, <3>2, <3>4 DEF LimitInv, JobsInv
    <3> QED BY <2>1, <3>2, <3>5
  <2> QED BY <2>2, <2>3
<1>8. ASSUME NEW k \in Job, k[1] \in Outbound, job'[k] # "none"
      PROVE  \/ k[2] <= unrecorded[k[1]]
             \/ k[2] <= unrecorded[k[1]] + 1 /\ Accounted(k[1])'
  <2>1. CASE k = j
    BY <1>1, <1>2, <1>5, <1>7, <2>1 DEF Accounted
  <2>2. CASE k # j
    <3>1. Accounted(k[1]) => Accounted(k[1])'
      BY <1>1, <1>2, <1>5 DEF Accounted
    <3> QED BY <1>1, <1>8, <2>2, <3>1 DEF LimitInv, JobsInv
  <2> QED BY <2>1, <2>2
<1>9. ASSUME NEW k \in Job, k[1] \in api.batch, job'[k] # "none", ~Current("api", k[1])
      PROVE  k[2] <= unrecorded[k[1]]
  <2>1. k # j
    BY <1>1, <1>9
  <2> QED BY <1>1, <1>9, <2>1 DEF LimitInv, JobsInv
<1>10. JobsInv'
  BY <1>1, <1>2, <1>5, <1>8, <1>9 DEF JobsInv
<1>11. QED
  BY <1>4, <1>10

\* The loop goes on, or the run ends: its batch loses the current call, or all.
LEMMA LoopStep ==
  ASSUME TypeOK, NEW c \in api.batch, NextInBatch("api", c) \/ Leave("api", "returned")
  PROVE  /\ api'.pc \in {"idle", "listed"}
         /\ api'.pc = "idle" => api'.batch = {}
         /\ api'.batch \subseteq api.batch
         /\ NextInBatch("api", c) => api'.batch = api.batch \ {c}
<1> "api" \in Proc
  BY DEF Proc
<1>1. ASSUME Leave("api", "returned")
      PROVE  api' = IdleRun
  BY <1>1 DEF Leave, api, TypeOK
<1>2. CASE Leave("api", "returned")
  <2>1. ASSUME NextInBatch("api", c)
        PROVE  api'.batch = api.batch \ {c}
    <3>1. CASE run["api"].batch = {c}
      BY <1>1, <1>2, <3>1 DEF IdleRun, api
    <3>2. CASE run["api"].batch # {c}
      BY <1>1, <1>2, <2>1, <3>2, ApiType DEF NextInBatch, api, IdleRun, RunType
    <3> QED BY <3>1, <3>2
  <2> QED BY <1>1, <1>2, <2>1 DEF IdleRun
<1>3. CASE NextInBatch("api", c) /\ ~Leave("api", "returned")
  <2>1. run' = [run EXCEPT !["api"].pc = "listed", !["api"].batch = @ \ {c}]
    BY <1>3 DEF NextInBatch
  <2> QED BY <2>1, ApiType DEF api, RunType
<1>4. QED
  BY <1>2, <1>3

\* What the update after a dispatch leaves: the row knows of the dispatch or has
\* moved on, or the error is counted and the run over.
Recorded(c) ==
  /\ unrecorded' = unrecorded
  /\ \/ status[c] = "queued" /\ dispatched' = [dispatched EXCEPT ![c] = TRUE]
     \/ dispatched' = dispatched /\ status'[c] \notin Unclaimed

\* The update that records a dispatch, or marks the refused call FAILED.
LEMMA RecordStep ==
  ASSUME LimitInv, RecordDispatch("api") \/ RecordRefusal("api")
  PROVE  \E c \in Outbound :
           /\ Current("api", c)
           /\ NextInBatch("api", c) \/ Leave("api", "returned")
           /\ \/ Recorded(c)
              \/ dispatched' = dispatched /\ Forget(c)
<1> "api" \in Proc
  BY DEF Proc
<1>0. \A c \in Outbound : Current("api", c) => c \in Call /\ status[c] \notin Unqueued
  BY DEF LimitInv, RequestInv, Current, Call
<1>1. CASE RecordRefusal("api")
  <2>1. PICK c \in Outbound :
          /\ Current("api", c)
          /\ \/ /\ Update(c, {"queued"}, "failed")
                /\ \/ NextInBatch("api", c) /\ UNCHANGED failures
                   \/ Leave("api", "returned") /\ DatabaseError
             \/ /\ status[c] # "queued"
                /\ Leave("api", "returned")
                /\ UNCHANGED <<status, failures>>
             \/ /\ Fault /\ Forget(c)
                /\ Leave("api", "returned")
    BY <1>1 DEF RecordRefusal
  <2>2. dispatched' = dispatched
    BY <1>1 DEF RecordRefusal
  <2>3. CASE Forget(c) /\ Leave("api", "returned")
    BY <2>1, <2>2, <2>3
  <2>4. CASE Update(c, {"queued"}, "failed") /\ unrecorded' = unrecorded
    <3>1. status'[c] = "failed"
      BY <1>0, <2>1, <2>4 DEF Update, TypeOK, LimitInv
    <3> QED BY <2>1, <2>2, <2>4, <3>1, StatusFacts DEF Recorded, Unclaimed, Waiting
  <2>5. CASE status[c] # "queued" /\ UNCHANGED <<status, failures>>
    BY <1>0, <2>1, <2>2, <2>5 DEF Recorded, Unclaimed, Waiting, Unqueued
  <2> QED BY <2>1, <2>3, <2>4, <2>5 DEF DatabaseError
<1>2. CASE RecordDispatch("api")
  <2>1. PICK c \in Outbound :
          /\ Current("api", c)
          /\ \/ /\ status[c] = "queued"
                /\ dispatched' = [dispatched EXCEPT ![c] = TRUE]
                /\ \/ NextInBatch("api", c) /\ UNCHANGED failures
                   \/ Leave("api", "returned") /\ DatabaseError
             \/ /\ status[c] # "queued"
                /\ Leave("api", "returned")
                /\ UNCHANGED <<dispatched, failures>>
             \/ /\ Fault /\ Forget(c)
                /\ Leave("api", "returned")
                /\ UNCHANGED dispatched
    BY <1>2 DEF RecordDispatch
  <2>2. status' = status
    BY <1>2 DEF RecordDispatch
  <2>3. CASE Forget(c) /\ UNCHANGED dispatched /\ Leave("api", "returned")
    BY <2>1, <2>3
  <2>4. CASE status[c] = "queued" /\ dispatched' = [dispatched EXCEPT ![c] = TRUE]
             /\ unrecorded' = unrecorded
    BY <2>1, <2>4 DEF Recorded
  <2>5. CASE status[c] # "queued" /\ UNCHANGED <<dispatched, failures>>
    BY <1>0, <2>1, <2>2, <2>5 DEF Recorded, Unclaimed, Waiting, Unqueued
  <2> QED BY <2>1, <2>3, <2>4, <2>5 DEF DatabaseError
<1>3. QED
  BY <1>1, <1>2

LEMMA LimitRecord ==
  ASSUME LimitInv, [Next]_vars, RecordDispatch("api") \/ RecordRefusal("api")
  PROVE  SlotsInv' /\ JobsInv'
<1> "api" \in Proc /\ TypeOK /\ TypeOK'
  BY TypeNext DEF Proc, LimitInv
<1>1. PICK c \in Outbound :
        /\ Current("api", c)
        /\ NextInBatch("api", c) \/ Leave("api", "returned")
        /\ Recorded(c) \/ (dispatched' = dispatched /\ Forget(c))
  BY RecordStep
<1>2. c \in api.batch /\ c \in Call
  BY <1>1 DEF Current, api, Call
<1>3. /\ api'.pc \in {"idle", "listed"}
      /\ api'.pc = "idle" => api'.batch = {}
      /\ api'.batch \subseteq api.batch
  BY <1>1, <1>2, LoopStep
<1>4. api'.batch \subseteq api.batch \ {c}
  <2>1. CASE Leave("api", "returned")
    BY <2>1 DEF Leave, IdleRun, api, TypeOK
  <2>2. CASE NextInBatch("api", c)
    BY <1>2, <2>2, LoopStep
  <2> QED BY <1>1, <2>1, <2>2
<1>5. \A d \in Outbound \ {c} :
        dispatched'[d] = dispatched[d] /\ unrecorded'[d] = unrecorded[d]
  BY <1>1, ApiType DEF Recorded, Forget, TypeOK, Call
<1>6. unrecorded'[c] = 0 => unrecorded[c] = 0
  BY <1>1, ApiType DEF Recorded, Forget
<1>7. Taken' \subseteq Taken
  <2>1. ASSUME NEW d \in Taken', d # c
        PROVE  d \in Taken
    <3>1. d \in Outbound
      BY <1>3, <2>1, ApiType DEF Taken, Outgoing
    <3>2. unrecorded[d] = 0 /\ dispatched'[d] = dispatched[d]
      BY <1>5, <2>1, <3>1 DEF Taken
    <3>3. CASE d \in Occupied'
      BY <3>1, <3>2, <3>3, Growth
    <3>4. CASE d \in api'.batch
      BY <1>3, <3>2, <3>4 DEF Taken
    <3> QED BY <2>1, <3>3, <3>4 DEF Taken, Outgoing
  <2>2. c \in Taken' => c \in Taken
    BY <1>2, <1>6 DEF Taken
  <2> QED BY <2>1, <2>2
<1>8. SlotsInv'
  BY <1>3, <1>7, Shrink DEF SlotsInv
<1>9. job' = job
  BY DEF RecordDispatch, RecordRefusal, workers
<1>10. ASSUME NEW d \in Outbound, d # c
       PROVE  ~Current("api", d)
  <2>1. c \in Nat /\ d \in Nat
    BY <1>10, Constants
  <2>2. Current("api", d) => c <= d /\ d <= c
    BY <1>1 DEF Current
  <2> QED BY <1>10, <2>1, <2>2
<1>11. ASSUME NEW j \in Job, j[1] \in Outbound, job'[j] # "none"
       PROVE  \/ j[2] <= unrecorded'[j[1]]
              \/ j[2] <= unrecorded'[j[1]] + 1 /\ Accounted(j[1])'
  <2>0. j[2] \in Nat /\ unrecorded[j[1]] \in Nat
    BY <1>11, ApiType DEF Job
  <2>1. \/ j[2] <= unrecorded[j[1]]
        \/ j[2] <= unrecorded[j[1]] + 1 /\ Accounted(j[1])
    BY <1>9, <1>11 DEF LimitInv, JobsInv
  <2>2. CASE j[1] = c /\ Recorded(c)
    <3>1. unrecorded' = unrecorded /\ Accounted(c)'
      BY <1>2, <2>2 DEF Recorded, Accounted, TypeOK
    <3> QED BY <2>0, <2>1, <2>2, <3>1
  <2>3. CASE j[1] = c /\ Forget(c)
    <3>1. unrecorded'[c] = unrecorded[c] + 1
      BY <2>3, ApiType DEF Forget
    <3> QED BY <2>0, <2>1, <2>3, <3>1
  <2>4. CASE j[1] # c
    <3>1. Accounted(j[1]) => Accounted(j[1])'
      BY <1>5, <1>10, <1>11, <2>4, ClaimKept DEF Accounted
    <3> QED BY <1>5, <1>11, <2>1, <2>4, <3>1
  <2> QED BY <1>1, <2>2, <2>3, <2>4
<1>12. ASSUME NEW j \in Job, j[1] \in api'.batch, job'[j] # "none"
       PROVE  j[2] <= unrecorded'[j[1]]
  <2>1. j[1] \in api.batch /\ j[1] \in Outbound /\ j[1] # c
    BY <1>4, <1>12, ApiType
  <2>2. j[2] <= unrecorded[j[1]]
    BY <1>9, <1>10, <1>12, <2>1 DEF LimitInv, JobsInv
  <2> QED BY <1>5, <2>1, <2>2
<1>13. JobsInv'
  BY <1>11, <1>12 DEF JobsInv
<1>14. QED
  BY <1>8, <1>13

LEMMA LimitNext ==
  ASSUME LimitInv, SingleDispatcher, [Next]_vars
  PROVE  LimitInv'
<1>1. TypeOK' /\ RowInv' /\ RequestInv'
  BY TypeNext, RequestNext, RowStep DEF LimitInv, RowInv, Absent, Lifecycle!Absent
<1>2. CASE DispatchQueued("api")
  <2>1. run'["cli"] = IdleRun
    BY <1>2, RunStep
  <2>2. SlotsInv' /\ JobsInv'
    BY <1>2, LimitBegin, LimitSend, LimitRecord DEF DispatchQueued
  <2> QED BY <1>1, <2>1, <2>2 DEF LimitInv
<1>3. CASE Crash("api")
  BY <1>1, <1>3, LimitCrash DEF LimitInv
<1>4. CASE ~DispatchQueued("api") /\ ~Crash("api")
  BY <1>1, <1>4, ApiDispatches, LimitQuiet DEF LimitInv
<1>5. QED
  BY <1>2, <1>3, <1>4

LEMMA LimitInit == Init => LimitInv
<1> SUFFICES ASSUME Init
             PROVE  LimitInv
  OBVIOUS
<1>1. TypeOK /\ RowInv
  BY TypeInit DEF Init, RowInv, Call
<1>2. api = IdleRun /\ run["cli"] = IdleRun
  BY DEF Init, api, Proc
<1>3. RequestInv
  BY StatusFacts, Constants DEF Init, RequestInv, IdleRun, Scheduler, Call, Proc
<1>4. Taken = {}
  BY <1>2, StatusFacts DEF Init, Outgoing, Occupied, IdleRun, Taken
<1>5. Cardinality(Taken) = 0
  BY <1>4, FS_EmptySet
<1>6. SlotsInv
  BY <1>2, <1>5, Constants DEF SlotsInv, IdleRun
<1>7. JobsInv
  BY <1>2 DEF JobsInv, IdleRun, Init
<1>8. QED
  BY <1>1, <1>2, <1>3, <1>6, <1>7 DEF LimitInv

\* When the API is the only dispatcher it never has more outbound calls in their
\* slots than max_concurrent, but for those whose dispatch was lost from the row:
\* for any number of calls, workers, cancels, inbound calls, dispatch failures,
\* database errors and crashes.
THEOREM Limit ==
  ASSUME SingleDispatcher
  PROVE  Spec => []ConcurrencyLimit
<1>1. LimitInv /\ [Next]_vars => LimitInv'
  BY LimitNext
<1>2. LimitInv => ConcurrencyLimit
  <2> SUFFICES ASSUME LimitInv
               PROVE  Cardinality(Known) <= MaxConcurrent
    BY DEF ConcurrencyLimit, Outgoing, Known
  <2>1. Known \in SUBSET Outbound /\ Taken \in SUBSET Outbound /\ Known \subseteq Taken
    BY ApiType DEF LimitInv, Known, Taken
  <2>2. /\ Cardinality(Known) \in Nat /\ Cardinality(Taken) \in Nat
        /\ Cardinality(Known) <= Cardinality(Taken)
    BY <2>1, Slots
  <2> QED BY <2>2, Constants DEF LimitInv, SlotsInv
<1>3. QED
  BY <1>1, <1>2, LimitInit, PTL DEF Spec

\* The single dispatcher hands every call to LiveKit once, and once more for each
\* dispatch that an error or a crash kept out of its row, whatever the batches,
\* the requests and the scheduler that lists the same queue.
THEOREM OneDispatch ==
  ASSUME SingleDispatcher
  PROVE  Spec => []OneDispatchPerCall
<1>1. LimitInv /\ [Next]_vars => LimitInv'
  BY LimitNext
<1>2. LimitInv => OneDispatchPerCall
  <2> SUFFICES ASSUME LimitInv, NEW j \in Job, j[1] \in Outbound, job[j] # "none"
               PROVE  j[2] <= 1 + unrecorded[j[1]]
    BY DEF OneDispatchPerCall
  <2>1. j[2] <= unrecorded[j[1]] \/ j[2] <= unrecorded[j[1]] + 1
    BY DEF LimitInv, JobsInv
  <2>2. j[2] \in Nat /\ unrecorded[j[1]] \in Nat
    BY ApiType DEF LimitInv, Job
  <2> QED BY <2>1, <2>2
<1>3. QED
  BY <1>1, <1>2, LimitInit, PTL DEF Spec

=============================================================================
