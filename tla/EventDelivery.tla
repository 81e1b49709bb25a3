---------------------------- MODULE EventDelivery ----------------------------
(***************************************************************************)
(* The two ways an event of a call takes to the outside.  The row that is  *)
(* committed to call_events is published to the AsyncEventDispatcher of    *)
(* its process: a bounded queue, one task that offers each event to every  *)
(* sink, and a close() that queues a sentinel and gives the task five      *)
(* seconds.  And a client polls the same rows over GET .../events.         *)
(*                                                                         *)
(* An event is its sequence number, its place in the log.  update_call,    *)
(* create_call and append_transcript_turn hold the row of the call, or     *)
(* create it, while they number the event: a commit is one step.           *)
(***************************************************************************)
EXTENDS Integers, Sequences

CONSTANTS
  Local,           \* tasks whose repository publishes to this dispatcher
  Remote,          \* tasks of the other processes
  Sink,            \* how many sinks there are: 1 is Redis, 2 the webhook
  QueueSize,       \* performance.event_queue_size
  Kind,            \* the kinds of event that the call may have
  MaxEvents        \* bound: events of the call

Writer == Local \cup Remote

ASSUME Constants ==
  /\ Local \cap Remote = {}
  /\ Sink \in Nat \ {0} /\ QueueSize \in Nat \ {0}
  /\ Kind \subseteq {"plain", "policy", "input", "cancelled", "ended"}
  /\ MaxEvents \in Nat

\* _CRITICAL_EVENTS wait for room in the queue, any other event is dropped.
\* "policy" stands for call.commit_allowed, commit_denied, input_received and
\* input_timeout, "input" for call.input_required, "ended" for call.completed
\* and call.failed.
CriticalEvents == {"policy", "input", "cancelled", "ended"}
WebhookEvents == {"input", "ended"}
TerminalEvents == {"cancelled", "ended"}

\* The sentinel of close(), and the event a writer holds that holds none.
Stop == 0
None == 0

VARIABLES
  log,       \* call_events: kind and writer of each event
  writer,    \* where a task is in the publication of the event it committed
  queue,     \* _queue: events and the sentinel
  worker,    \* _run: where it is, the event in its hands, the sink it turns to
  offered,   \* the events each sink was asked to send, in this order
  closing,   \* where close() is
  stream,    \* event_stream: where it is, its sequence and the events to yield
  got        \* the events the client has received, over all its connections

rows == <<log>>
dispatcher == <<queue, worker, offered, closing>>
client == <<stream, got>>
vars == <<log, writer, queue, worker, offered, closing, stream, got>>

Event == 1..Len(log)
Idle == [pc |-> "idle", event |-> None]
Critical(e) == log[e].kind \in CriticalEvents
Terminated == \E e \in Event : log[e].kind \in TerminalEvents
Full == Len(queue) >= QueueSize

\* RedisEventSink takes every event, WebhookEventSink only some.
Wants(s, e) == s = 1 \/ log[e].kind \in WebhookEvents

Init ==
  /\ log = <<>>
  /\ writer = [t \in Writer |-> Idle]
  /\ queue = <<>>
  /\ worker = [pc |-> "get", event |-> None, sink |-> 1]
  /\ offered = [s \in 1..Sink |-> <<>>]
  /\ closing = "open"
  /\ stream = [pc |-> "off", sequence |-> 0, pending |-> <<>>]
  /\ got = <<>>

-----------------------------------------------------------------------------
(* The repository commits an event and then publishes it. *)

\* The pool is closed before the dispatcher: no local commit after that.
Commit(t, k) ==
  /\ Len(log) < MaxEvents
  /\ writer[t].pc = "idle"
  /\ t \in Local => closing = "open"
  /\ log = <<>> => k = "plain"
  /\ k \in TerminalEvents => ~Terminated
  /\ log' = Append(log, [kind |-> k, by |-> t])
  /\ writer' = IF t \in Local
               THEN [writer EXCEPT ![t] = [pc |-> "committed", event |-> Len(log) + 1]]
               ELSE writer
  /\ UNCHANGED <<dispatcher, client>>

\* publish() of a closed dispatcher returns at once ...
PublishClosed(t) ==
  /\ writer[t].pc = "committed" /\ closing # "open"
  /\ writer' = [writer EXCEPT ![t] = Idle]
  /\ UNCHANGED <<rows, dispatcher, client>>

\* Mutant of PublishNow: the queue has no bound.
PublishNow_Unbounded(t) ==
  /\ writer[t].pc = "committed" /\ closing = "open"
  /\ queue' = Append(queue, writer[t].event)
  /\ writer' = [writer EXCEPT ![t] = Idle]
  /\ UNCHANGED <<rows, worker, offered, closing, client>>

\* ... and one with room in the queue enqueues the event.
PublishNow(t) ==
  /\ writer[t].pc = "committed" /\ closing = "open" /\ ~Full
  /\ queue' = Append(queue, writer[t].event)
  /\ writer' = [writer EXCEPT ![t] = Idle]
  /\ UNCHANGED <<rows, worker, offered, closing, client>>

\* Mutant of PublishFull: every event is dropped.
PublishFull_DropsAll(t) ==
  /\ writer[t].pc = "committed" /\ closing = "open" /\ Full
  /\ writer' = [writer EXCEPT ![t] = Idle]
  /\ UNCHANGED <<rows, dispatcher, client>>

\* When the queue is full a critical event waits, another one is dropped.
PublishFull(t) ==
  /\ writer[t].pc = "committed" /\ closing = "open" /\ Full
  /\ writer' = [writer EXCEPT ![t] = IF Critical(@.event) THEN [@ EXCEPT !.pc = "putting"]
                                                          ELSE Idle]
  /\ UNCHANGED <<rows, dispatcher, client>>

\* A put that waited resumes; a task that runs first may take the room.
Put(t) ==
  /\ writer[t].pc = "putting" /\ ~Full
  /\ queue' = Append(queue, writer[t].event)
  /\ writer' = [writer EXCEPT ![t] = Idle]
  /\ UNCHANGED <<rows, worker, offered, closing, client>>

-----------------------------------------------------------------------------
(* The task of the dispatcher. *)

\* Mutant of Get: the youngest event is taken first.
Get_Youngest ==
  /\ worker.pc = "get" /\ queue # <<>>
  /\ LET e == queue[Len(queue)]
     IN  worker' = IF e = Stop THEN [worker EXCEPT !.pc = "ended"]
                               ELSE [pc |-> "send", event |-> e, sink |-> 1]
  /\ queue' = SubSeq(queue, 1, Len(queue) - 1)
  /\ UNCHANGED <<rows, writer, offered, closing, client>>

Get ==
  /\ worker.pc = "get" /\ queue # <<>>
  /\ worker' = IF Head(queue) = Stop
               THEN [worker EXCEPT !.pc = "ended"]
               ELSE [pc |-> "send", event |-> Head(queue), sink |-> 1]
  /\ queue' = Tail(queue)
  /\ UNCHANGED <<rows, writer, offered, closing, client>>

Offer ==
  offered' = [offered EXCEPT ![worker.sink] =
                IF Wants(worker.sink, worker.event) THEN Append(@, worker.event) ELSE @]

NextSink == IF worker.sink = Sink THEN [pc |-> "get", event |-> None, sink |-> 1]
                                  ELSE [worker EXCEPT !.sink = @ + 1]

\* Mutants of Send: a sink that fails keeps the event from the sinks after it,
\* or ends the task.
Send_FailureSkips ==
  /\ worker.pc = "send"
  /\ Offer
  /\ worker' \in {NextSink, [pc |-> "get", event |-> None, sink |-> 1]}
  /\ UNCHANGED <<rows, writer, queue, closing, client>>

Send_FailureEnds ==
  /\ worker.pc = "send"
  /\ Offer
  /\ worker' \in {NextSink, [pc |-> "ended", event |-> None, sink |-> 1]}
  /\ UNCHANGED <<rows, writer, queue, closing, client>>

\* Whether or not the sink could send it, the next sink gets the event.  A send
\* that hangs is one that does not happen: see Fairness.
Send ==
  /\ worker.pc = "send"
  /\ Offer
  /\ worker' = NextSink
  /\ UNCHANGED <<rows, writer, queue, closing, client>>

-----------------------------------------------------------------------------
(* close() *)

\* Mutant of CloseStart: the sentinel goes ahead of the events.
CloseStart_Front ==
  /\ closing = "open"
  /\ IF Full THEN closing' = "stopping" /\ UNCHANGED queue
             ELSE closing' = "waiting" /\ queue' = <<Stop>> \o queue
  /\ UNCHANGED <<rows, writer, worker, offered, client>>

CloseStart ==
  /\ closing = "open"
  /\ IF Full THEN closing' = "stopping" /\ UNCHANGED queue
             ELSE closing' = "waiting" /\ queue' = Append(queue, Stop)
  /\ UNCHANGED <<rows, writer, worker, offered, client>>

\* Only the wait for the task has a time limit, the put of the sentinel has none.
CloseStop ==
  /\ closing = "stopping" /\ ~Full
  /\ queue' = Append(queue, Stop)
  /\ closing' = "waiting"
  /\ UNCHANGED <<rows, writer, worker, offered, client>>

CloseDone ==
  /\ closing = "waiting" /\ worker.pc = "ended"
  /\ closing' = "closed"
  /\ UNCHANGED <<rows, writer, queue, worker, offered, client>>

\* Five seconds are over: the task is cancelled, with what is still queued.
CloseTimeout ==
  /\ closing = "waiting" /\ worker.pc \in {"get", "send"}
  /\ worker' = [pc |-> "cancelled", event |-> None, sink |-> 1]
  /\ closing' = "closed"
  /\ UNCHANGED <<rows, writer, queue, offered, client>>

-----------------------------------------------------------------------------
(* A client that follows the call over server-sent events.  When the       *)
(* stream has ended or broken it asks again, after the last event it has.  *)

Off == [pc |-> "off", sequence |-> 0, pending |-> <<>>]

\* Mutant of Connect: a stream starts with what is to come.
Connect_FromNow ==
  /\ stream.pc = "off" /\ log # <<>>
  /\ stream' = [pc |-> "list", pending |-> <<>>, sequence |-> Len(log)]
  /\ UNCHANGED <<rows, writer, dispatcher, got>>

\* The call must exist.
Connect ==
  /\ stream.pc = "off" /\ log # <<>>
  /\ stream' = [pc |-> "list", pending |-> <<>>,
                sequence |-> IF got = <<>> THEN 0 ELSE got[Len(got)]]
  /\ UNCHANGED <<rows, writer, dispatcher, got>>

\* list_events: what is committed after the last event that was sent.
List ==
  /\ stream.pc = "list"
  /\ stream' = [stream EXCEPT !.pc = "yield",
                  !.pending = [i \in 1..(Len(log) - stream.sequence) |-> stream.sequence + i]]
  /\ UNCHANGED <<rows, writer, dispatcher, got>>

\* Mutant of Yield: the stream does not move on.
Yield_KeepsSequence ==
  /\ stream.pc = "yield" /\ stream.pending # <<>>
  /\ got' = Append(got, Head(stream.pending))
  /\ stream' = [stream EXCEPT !.pending = Tail(@)]
  /\ UNCHANGED <<rows, writer, dispatcher>>

Yield ==
  /\ stream.pc = "yield" /\ stream.pending # <<>>
  /\ got' = Append(got, Head(stream.pending))
  /\ stream' = [stream EXCEPT !.sequence = Head(stream.pending), !.pending = Tail(@)]
  /\ UNCHANGED <<rows, writer, dispatcher>>

\* Then the status is read, which may have become terminal since the query.
Status ==
  /\ stream.pc = "yield" /\ stream.pending = <<>>
  /\ stream' = IF Terminated THEN Off ELSE [stream EXCEPT !.pc = "list"]
  /\ UNCHANGED <<rows, writer, dispatcher, got>>

Break ==
  /\ stream.pc # "off"
  /\ stream' = Off
  /\ UNCHANGED <<rows, writer, dispatcher, got>>

-----------------------------------------------------------------------------

Publish(t) == PublishClosed(t) \/ PublishNow(t) \/ PublishFull(t) \/ Put(t)
Close == CloseStart \/ CloseStop \/ CloseDone \/ CloseTimeout
Poll == Connect \/ List \/ Yield \/ Status

Next ==
  \/ \E t \in Writer : (\E k \in Kind : Commit(t, k)) \/ Publish(t)
  \/ Get \/ Send
  \/ Close
  \/ Poll \/ Break

Spec == Init /\ [][Next]_vars

\* The tasks of an event loop run, the webhook answers or times out, close() waits
\* five seconds for the task, and the client asks again whenever it is not
\* connected, on a connection that does not always break at the same point.
\* Redis, the first sink, has no socket timeout: a send to it may never return.
\* Nothing forces a commit, a close or a broken connection.
Fairness ==
  /\ \A t \in Local : WF_vars(Publish(t))
  /\ WF_vars(Get) /\ WF_vars(worker.sink # 1 /\ Send)
  /\ WF_vars(CloseStop) /\ WF_vars(CloseDone \/ CloseTimeout)
  /\ WF_vars(Connect) /\ SF_vars(List) /\ SF_vars(Yield) /\ WF_vars(Status)

FairSpec == Spec /\ Fairness

-----------------------------------------------------------------------------
(* Properties *)

EventId == 1..MaxEvents
Elements(q) == {q[i] : i \in 1..Len(q)}

TypeOK ==
  /\ log \in Seq([kind : Kind, by : Writer]) /\ Len(log) <= MaxEvents
  /\ writer \in [Writer -> [pc : {"idle", "committed", "putting"}, event : Event \cup {None}]]
  /\ queue \in Seq(Event \cup {Stop}) /\ Len(queue) <= QueueSize
  /\ worker \in [pc : {"get", "send", "ended", "cancelled"}, event : Event \cup {None},
                 sink : 1..Sink]
  /\ offered \in [1..Sink -> Seq(Event)]
  /\ closing \in {"open", "stopping", "waiting", "closed"}
  /\ stream \in [pc : {"off", "list", "yield"}, sequence : Event \cup {0}, pending : Seq(Event)]
  /\ got \in Seq(Event)

Offered(e) ==
  e \in Event /\ \A s \in 1..Sink : Wants(s, e) => e \in Elements(offered[s])

\* While the dispatcher is open a critical event is never lost: it is with the
\* task that publishes it, in the queue, in the hands of the worker, or it was
\* offered to every sink that wants it.
CriticalKept ==
  closing = "open" =>
    \A e \in Event :
      Critical(e) /\ log[e].by \in Local =>
        \/ writer[log[e].by].event = e
        \/ e \in Elements(queue)
        \/ worker.pc = "send" /\ worker.event = e
        \/ Offered(e)

\* A close() that is not cut short flushes: what was in the queue before it began
\* is offered to the sinks when the task ends.
FlushedAtClose ==
  \A e \in EventId :
    [](closing = "open" /\ e \in Elements(queue)
         => [](worker.pc = "ended" => Offered(e)))

\* Each sink is offered the events of one writer in the order of the log.
WriterOrder ==
  \A s \in 1..Sink : \A i, j \in 1..Len(offered[s]) :
    i < j /\ log[offered[s][i]].by = log[offered[s][j]].by => offered[s][i] < offered[s][j]

\* The client receives the log: no gap, nothing twice, over all connections.
StreamIsLog == \A i \in 1..Len(got) : got[i] = i

\* Every event reaches the client in the end, the ones after or next to the
\* terminal one included.
EveryEventStreamed == \A e \in EventId : e \in Event ~> e \in Elements(got)

\* Redis answers, or fails: no send to it hangs for ever.
RedisReturns == []<>(worker.pc # "send" \/ worker.sink # 1)

\* As long as Redis does not hang, a critical event is offered to its sinks,
\* unless the dispatcher is closed.
CriticalOffered ==
  RedisReturns =>
    \A e \in EventId :
      (e \in Event /\ Critical(e) /\ log[e].by \in Local)
        ~> (Offered(e) \/ closing # "open")

\* A close() that has queued its sentinel ends, whatever the sinks do; and one
\* that has begun ends, if Redis does not hang while the queue is full.
CloseEnds ==
  /\ closing = "waiting" ~> closing = "closed"
  /\ RedisReturns => (closing # "open" ~> closing = "closed")

=============================================================================
