------------------------ MODULE EventDeliveryProofs ------------------------
(***************************************************************************)
(* Theorems about EventDelivery, for any tasks, sinks, size of the queue   *)
(* and number of events.                                                   *)
(***************************************************************************)
EXTENDS EventDelivery, SequenceTheorems, TLAPS

-----------------------------------------------------------------------------
(* What queueing does to the elements of a sequence.                       *)

LEMMA AppendElements ==
  ASSUME NEW S, NEW q \in Seq(S), NEW e \in S
  PROVE  /\ Append(q, e) \in Seq(S)
         /\ Len(Append(q, e)) = Len(q) + 1
         /\ \A i \in 1..Len(q) : Append(q, e)[i] = q[i]
         /\ Append(q, e)[Len(q) + 1] = e
         /\ Elements(Append(q, e)) = Elements(q) \cup {e}
<1>1. /\ Append(q, e) \in Seq(S)
      /\ Len(Append(q, e)) = Len(q) + 1
      /\ \A i \in 1..Len(q) : Append(q, e)[i] = q[i]
      /\ Append(q, e)[Len(q) + 1] = e
  OBVIOUS
<1>2. Elements(Append(q, e)) = Elements(q) \cup {e}
  BY <1>1 DEF Elements
<1> QED BY <1>1, <1>2

LEMMA TailElements ==
  ASSUME NEW S, NEW q \in Seq(S), q # <<>>
  PROVE  /\ Tail(q) \in Seq(S)
         /\ Len(q) >= 1 /\ Len(Tail(q)) = Len(q) - 1
         /\ \A i \in 1..Len(Tail(q)) : Tail(q)[i] = q[i + 1]
         /\ Head(q) = q[1] /\ Head(q) \in S
         /\ Elements(q) = Elements(Tail(q)) \cup {Head(q)}
<1>1. /\ Tail(q) \in Seq(S)
      /\ Len(q) >= 1 /\ Len(Tail(q)) = Len(q) - 1
      /\ \A i \in 1..Len(Tail(q)) : Tail(q)[i] = q[i + 1]
      /\ Head(q) = q[1] /\ Head(q) \in S
  OBVIOUS
<1>2. Elements(q) = Elements(Tail(q)) \cup {Head(q)}
  <2>1. ASSUME NEW i \in 1..Len(q) PROVE q[i] \in Elements(Tail(q)) \cup {Head(q)}
    <3>1. CASE i = 1
      BY <1>1, <3>1
    <3>2. CASE i # 1
      <4>1. i - 1 \in 1..Len(Tail(q)) /\ q[i] = Tail(q)[i - 1]
        BY <1>1, <3>2
      <4> QED BY <4>1 DEF Elements
    <3> QED BY <3>1, <3>2
  <2>2. ASSUME NEW i \in 1..Len(Tail(q)) PROVE Tail(q)[i] \in Elements(q)
    <3>1. i + 1 \in 1..Len(q) /\ Tail(q)[i] = q[i + 1]
      BY <1>1
    <3> QED BY <3>1 DEF Elements
  <2>3. Head(q) \in Elements(q)
    BY <1>1 DEF Elements
  <2> QED BY <2>1, <2>2, <2>3 DEF Elements
<1> QED BY <1>1, <1>2

-----------------------------------------------------------------------------
(* Type correctness.                                                       *)

LEMMA TypeInit == Init => TypeOK
  BY Constants DEF Init, TypeOK, Idle, Event, None

LEMMA TypeCommit ==
  ASSUME TypeOK, NEW t \in Writer, NEW k \in Kind, Commit(t, k)
  PROVE  TypeOK'
<1>1. /\ log' \in Seq([kind : Kind, by : Writer]) /\ Len(log') = Len(log) + 1
      /\ Len(log) \in Nat
  BY DEF Commit, TypeOK
<1>2. Event \subseteq Event' /\ Len(log) + 1 \in Event'
  BY <1>1 DEF Event
<1>3. /\ Seq(Event) \subseteq Seq(Event')
      /\ Seq(Event \cup {Stop}) \subseteq Seq(Event' \cup {Stop})
  BY <1>2
<1>4. writer' \in [Writer -> [pc : {"idle", "committed", "putting"}, event : Event' \cup {None}]]
  BY <1>2 DEF Commit, TypeOK
<1>5. /\ queue' \in Seq(Event' \cup {Stop}) /\ got' \in Seq(Event')
      /\ offered' \in [1..Sink -> Seq(Event')]
  BY <1>3 DEF Commit, TypeOK, dispatcher, client
<1>6. worker' \in [pc : {"get", "send", "ended", "cancelled"}, event : Event' \cup {None},
                   sink : 1..Sink]
  BY <1>2 DEF Commit, TypeOK, dispatcher
<1>7. stream' \in [pc : {"off", "list", "yield"}, sequence : Event' \cup {0},
                   pending : Seq(Event')]
  BY <1>2, <1>3 DEF Commit, TypeOK, client
<1>8. Len(log') <= MaxEvents
  BY <1>1, Constants DEF Commit
<1> QED
  BY <1>1, <1>4, <1>5, <1>6, <1>7, <1>8 DEF Commit, TypeOK, dispatcher, client

LEMMA TypePublish ==
  ASSUME TypeOK, NEW t \in Writer, Publish(t)
  PROVE  TypeOK'
<1>1. Event' = Event
  BY DEF Publish, PublishClosed, PublishNow, PublishFull, Put, rows, Event
<1>2. writer' \in [Writer -> [pc : {"idle", "committed", "putting"}, event : Event \cup {None}]]
  <2> DEFINE P == [pc : {"idle", "committed", "putting"}, event : Event \cup {None}]
  <2>1. Idle \in P /\ writer[t] \in P /\ writer \in [Writer -> P]
    BY DEF TypeOK, Idle
  <2>2. [writer[t] EXCEPT !.pc = "putting"] \in P
    BY <2>1
  <2>3. \E p \in P : writer' = [writer EXCEPT ![t] = p]
    BY <2>1, <2>2 DEF Publish, PublishClosed, PublishNow, PublishFull, Put
  <2> HIDE DEF P
  <2>4. writer' \in [Writer -> P]
    BY <2>1, <2>3
  <2> QED BY <2>4 DEF P
<1>3. queue' \in Seq(Event \cup {Stop}) /\ Len(queue') <= QueueSize
  <2>1. CASE PublishNow(t) \/ Put(t)
    <3>1. writer[t].event \in Event \cup {Stop}
      BY DEF TypeOK, None, Stop
    <3>2. queue' = Append(queue, writer[t].event) /\ Len(queue) < QueueSize
      BY <2>1, Constants DEF PublishNow, Put, Full, TypeOK
    <3> QED BY <3>1, <3>2, AppendElements, Constants DEF TypeOK
  <2>2. CASE PublishClosed(t) \/ PublishFull(t)
    BY <2>2 DEF PublishClosed, PublishFull, TypeOK, dispatcher
  <2> QED BY <2>1, <2>2 DEF Publish
<1> QED
  BY <1>1, <1>2, <1>3
  DEF Publish, PublishClosed, PublishNow, PublishFull, Put, TypeOK, rows, dispatcher, client

LEMMA TypeDispatcher ==
  ASSUME TypeOK, worker.pc = "send" => worker.event # None, Get \/ Send \/ Close
  PROVE  TypeOK'
<1>1. Event' = Event
  BY DEF Get, Send, Close, CloseStart, CloseStop, CloseDone, CloseTimeout, rows, Event
<1>2. CASE Get
  <2>1. Head(queue) \in Event \cup {Stop} /\ Tail(queue) \in Seq(Event \cup {Stop})
        /\ Len(Tail(queue)) <= QueueSize
    BY <1>2, TailElements, Constants DEF Get, TypeOK
  <2>2. worker' \in [pc : {"get", "send", "ended", "cancelled"}, event : Event \cup {None},
                     sink : 1..Sink]
    <3>1. CASE Head(queue) = Stop
      BY <1>2, <3>1 DEF Get, TypeOK
    <3>2. CASE Head(queue) # Stop
      <4>1. worker' = [pc |-> "send", event |-> Head(queue), sink |-> 1]
        BY <1>2, <3>2 DEF Get
      <4>2. Head(queue) \in Event /\ 1 \in 1..Sink
        BY <2>1, <3>2, Constants
      <4> QED BY <4>1, <4>2
    <3> QED BY <3>1, <3>2
  <2> QED BY <1>1, <1>2, <2>1, <2>2 DEF Get, TypeOK, rows, client
<1>3. CASE Send
  <2>1. worker' \in [pc : {"get", "send", "ended", "cancelled"}, event : Event \cup {None},
                     sink : 1..Sink]
    <3> DEFINE W == [pc : {"get", "send", "ended", "cancelled"}, event : Event \cup {None},
                     sink : 1..Sink]
    <3>1. worker \in W /\ 1 \in 1..Sink
      BY Constants DEF TypeOK
    <3>2. [pc |-> "get", event |-> None, sink |-> 1] \in W
      BY <3>1
    <3>3. worker.sink # Sink => [worker EXCEPT !.sink = @ + 1] \in W
      BY <3>1, Constants
    <3> QED BY <1>3, <3>2, <3>3 DEF Send, NextSink
  <2>2. worker.sink \in 1..Sink /\ worker.event \in Event /\ offered[worker.sink] \in Seq(Event)
    BY <1>3 DEF Send, TypeOK
  <2>3. offered' \in [1..Sink -> Seq(Event)]
    BY <1>3, <2>2 DEF Send, Offer, TypeOK
  <2> QED BY <1>1, <1>3, <2>1, <2>3 DEF Send, TypeOK, rows, client
<1>4. CASE Close
  <2>1. queue' \in Seq(Event \cup {Stop}) /\ Len(queue') <= QueueSize
    <3>1. CASE queue' = Append(queue, Stop) /\ ~Full
      BY <3>1, AppendElements, Constants DEF Full, TypeOK
    <3>2. CASE UNCHANGED queue
      BY <3>2 DEF TypeOK
    <3> QED BY <1>4, <3>1, <3>2 DEF Close, CloseStart, CloseStop, CloseDone, CloseTimeout
  <2>2. /\ worker' \in [pc : {"get", "send", "ended", "cancelled"}, event : Event \cup {None},
                        sink : 1..Sink]
        /\ closing' \in {"open", "stopping", "waiting", "closed"}
    BY <1>4, Constants DEF Close, CloseStart, CloseStop, CloseDone, CloseTimeout, TypeOK
  <2> QED
    BY <1>1, <1>4, <2>1, <2>2
    DEF Close, CloseStart, CloseStop, CloseDone, CloseTimeout, TypeOK, rows, client
<1> QED BY <1>2, <1>3, <1>4

LEMMA TypeClient ==
  ASSUME TypeOK, Poll \/ Break
  PROVE  TypeOK'
<1>1. Event' = Event
  BY DEF Poll, Connect, List, Yield, Status, Break, rows, Event
<1>2. /\ stream' \in [pc : {"off", "list", "yield"}, sequence : Event \cup {0},
                      pending : Seq(Event)]
      /\ got' \in Seq(Event)
  <2>1. CASE Connect
    BY <2>1 DEF Connect, TypeOK
  <2>2. CASE List
    <3>1. stream.sequence \in 0..Len(log) /\ Len(log) \in Nat
      BY DEF TypeOK, Event
    <3>2. \A i \in 1..(Len(log) - stream.sequence) : stream.sequence + i \in Event
      BY <3>1 DEF Event
    <3>3. [i \in 1..(Len(log) - stream.sequence) |-> stream.sequence + i] \in Seq(Event)
      BY <3>1, <3>2
    <3> QED BY <2>2, <3>3 DEF List, TypeOK
  <2>3. CASE Yield
    BY <2>3, TailElements, AppendElements DEF Yield, TypeOK
  <2>4. CASE Status \/ Break
    <3>1. <<>> \in Seq(Event) /\ 0 \in Event \cup {0}
      OBVIOUS
    <3>2. Off \in [pc : {"off", "list", "yield"}, sequence : Event \cup {0}, pending : Seq(Event)]
      BY <3>1 DEF Off
    <3>3. [stream EXCEPT !.pc = "list"] \in
            [pc : {"off", "list", "yield"}, sequence : Event \cup {0}, pending : Seq(Event)]
      BY DEF TypeOK
    <3>4. stream' \in {Off, stream, [stream EXCEPT !.pc = "list"]} /\ got' = got
      BY <2>4 DEF Status, Break
    <3> QED BY <3>2, <3>3, <3>4 DEF TypeOK
  <2> QED BY <2>1, <2>2, <2>3, <2>4 DEF Poll
<1> QED
  BY <1>1, <1>2 DEF Poll, Connect, List, Yield, Status, Break, TypeOK, rows, dispatcher

-----------------------------------------------------------------------------
(* What each party holds.                                                  *)

\* A task between commit and publication holds an event of its own, a critical
\* one if it waits for room.
WriterHolds ==
  \A t \in Writer :
    /\ writer[t].pc = "idle" <=> writer[t].event = None
    /\ writer[t].pc # "idle" => log[writer[t].event].by = t
    /\ writer[t].pc = "putting" => Critical(writer[t].event)

\* The worker holds an event that was offered to the sinks before this one.
WorkerHolds ==
  worker.pc = "send" =>
    /\ worker.event \in Event
    /\ \A s \in 1..(worker.sink - 1) :
         Wants(s, worker.event) => worker.event \in Elements(offered[s])

\* The stream stands where the client stands, and what it is about to send
\* follows in the log.
StreamHolds ==
  /\ stream.pc # "off" => stream.sequence = Len(got)
  /\ stream.pc = "off" => stream.pending = <<>>
  /\ \A i \in 1..Len(stream.pending) : stream.pending[i] = Len(got) + i
  /\ StreamIsLog

IInv == TypeOK /\ WriterHolds /\ WorkerHolds /\ StreamHolds /\ CriticalKept

\* As long as the log only grows, nothing that is said of its events changes.
LEMMA SameLog ==
  ASSUME UNCHANGED log
  PROVE  /\ Event' = Event
         /\ \A e : (Critical(e)' <=> Critical(e))
         /\ \A s, e : (Wants(s, e)' <=> Wants(s, e))
  BY DEF Event, Critical, Wants

LEMMA HoldsInit == Init => WriterHolds /\ WorkerHolds /\ StreamHolds /\ CriticalKept
<1> SUFFICES ASSUME Init PROVE WriterHolds /\ WorkerHolds /\ StreamHolds /\ CriticalKept
  OBVIOUS
<1>1. WriterHolds /\ WorkerHolds
  BY DEF Init, WriterHolds, WorkerHolds, Idle
<1>2. StreamHolds
  BY DEF Init, StreamHolds, StreamIsLog
<1>3. Event = {}
  BY DEF Init, Event
<1> QED BY <1>1, <1>2, <1>3 DEF CriticalKept

\* The client's side, which nothing else touches.
LEMMA StreamNext ==
  ASSUME TypeOK, StreamHolds, [Next]_vars
  PROVE  StreamHolds'
<1>1. CASE Poll \/ Break
  <2>1. CASE Connect
    <3>1. Len(got) \in Nat /\ got # <<>> => got[Len(got)] = Len(got)
      BY DEF TypeOK, StreamHolds, StreamIsLog
    <3>2. got = <<>> => Len(got) = 0
      OBVIOUS
    <3> QED BY <2>1, <3>1, <3>2 DEF Connect, StreamHolds, StreamIsLog
  <2>2. CASE List
    <3>1. stream \in [pc : {"off", "list", "yield"}, sequence : Event \cup {0}, pending : Seq(Event)]
      BY DEF TypeOK
    <3>2. stream.sequence = Len(got) /\ Len(got) \in Nat /\ Len(log) \in Nat
          /\ stream.sequence <= Len(log)
      BY <2>2, <3>1 DEF List, StreamHolds, TypeOK, Event
    <3>3. /\ stream'.pc = "yield" /\ stream'.sequence = stream.sequence
          /\ stream'.pending = [i \in 1..(Len(log) - stream.sequence) |-> stream.sequence + i]
      BY <2>2, <3>1 DEF List
    <3>4. \A i \in 1..Len(stream'.pending) : stream'.pending[i] = Len(got) + i
      BY <3>2, <3>3
    <3> QED BY <2>2, <3>2, <3>3, <3>4 DEF List, StreamHolds, StreamIsLog
  <2>3. CASE Yield
    <3> DEFINE q == stream.pending
    <3>1. stream \in [pc : {"off", "list", "yield"}, sequence : Event \cup {0}, pending : Seq(Event)]
      BY DEF TypeOK
    <3>2. /\ stream'.pc = "yield" /\ stream'.sequence = Head(q) /\ stream'.pending = Tail(q)
          /\ got' = Append(got, Head(q)) /\ q # <<>> /\ q \in Seq(Event)
      BY <2>3, <3>1 DEF Yield
    <3>3. /\ Head(q) = q[1] /\ Head(q) \in Event /\ Len(q) >= 1 /\ Len(Tail(q)) = Len(q) - 1
          /\ \A i \in 1..Len(Tail(q)) : Tail(q)[i] = q[i + 1]
      BY <3>2, TailElements
    <3>4. /\ Len(got') = Len(got) + 1 /\ got'[Len(got) + 1] = Head(q) /\ Len(got) \in Nat
          /\ \A i \in 1..Len(got) : got'[i] = got[i]
      BY <3>2, <3>3, AppendElements DEF TypeOK
    <3>5. Head(q) = Len(got) + 1
      BY <3>3, <3>4 DEF StreamHolds
    <3>6. \A i \in 1..Len(Tail(q)) : Tail(q)[i] = Len(got) + 1 + i
      <4> TAKE i \in 1..Len(Tail(q))
      <4>1. i + 1 \in 1..Len(q) /\ i \in Nat
        BY <3>3
      <4>2. q[i + 1] = Len(got) + (i + 1)
        BY <4>1 DEF StreamHolds
      <4> QED BY <3>3, <3>4, <4>1, <4>2
    <3>7. StreamIsLog'
      BY <3>4, <3>5 DEF StreamHolds, StreamIsLog
    <3> QED BY <3>2, <3>4, <3>5, <3>6, <3>7 DEF StreamHolds
  <2>4. CASE Status \/ Break
    <3>1. stream' = Off \/ (stream' = [stream EXCEPT !.pc = "list"] /\ stream.pc = "yield")
      BY <2>4 DEF Status, Break
    <3>2. got' = got
      BY <2>4 DEF Status, Break
    <3>3. CASE stream' = Off
      BY <3>2, <3>3 DEF Off, StreamHolds, StreamIsLog
    <3>4. CASE stream' = [stream EXCEPT !.pc = "list"] /\ stream.pc = "yield"
      BY <3>2, <3>4 DEF StreamHolds, StreamIsLog, TypeOK
    <3> QED BY <3>1, <3>3, <3>4
  <2> QED BY <1>1, <2>1, <2>2, <2>3, <2>4 DEF Poll
<1>2. CASE UNCHANGED client
  BY <1>2 DEF client, StreamHolds, StreamIsLog
<1>3. Poll \/ Break \/ UNCHANGED client
  BY DEF Next, vars, client, Commit, Publish, PublishClosed, PublishNow, PublishFull, Put,
         Get, Send, Close, CloseStart, CloseStop, CloseDone, CloseTimeout
<1> QED BY <1>1, <1>2, <1>3

-----------------------------------------------------------------------------
(* The dispatcher's side: what a commit, a publication, and a step of the  *)
(* worker or of close() do to the events that somebody holds.              *)

LEMMA CommitLog ==
  ASSUME TypeOK, NEW t \in Writer, NEW k \in Kind, Commit(t, k)
  PROVE  /\ Len(log) \in Nat /\ Event' = Event \cup {Len(log) + 1} /\ None \notin Event
         /\ log'[Len(log) + 1] = [kind |-> k, by |-> t]
         /\ \A e \in Event : /\ log'[e] = log[e] /\ (Critical(e)' <=> Critical(e))
                             /\ \A s : (Wants(s, e)' <=> Wants(s, e))
<1>1. /\ log \in Seq([kind : Kind, by : Writer]) /\ Len(log) \in Nat
      /\ log' = Append(log, [kind |-> k, by |-> t])
      /\ [kind |-> k, by |-> t] \in [kind : Kind, by : Writer]
  BY DEF Commit, TypeOK
<1>2. /\ Len(log') = Len(log) + 1 /\ log'[Len(log) + 1] = [kind |-> k, by |-> t]
      /\ \A e \in 1..Len(log) : log'[e] = log[e]
  BY <1>1
<1>3. Event' = Event \cup {Len(log) + 1} /\ None \notin Event
  BY <1>1, <1>2 DEF Event, None
<1> QED BY <1>1, <1>2, <1>3 DEF Event, Critical, Wants

LEMMA KeptByCommit ==
  ASSUME TypeOK, WriterHolds, WorkerHolds, CriticalKept,
         NEW t \in Writer, NEW k \in Kind, Commit(t, k)
  PROVE  WriterHolds' /\ WorkerHolds' /\ CriticalKept'
<1>1. /\ Len(log) \in Nat /\ Event' = Event \cup {Len(log) + 1} /\ None \notin Event
      /\ log'[Len(log) + 1] = [kind |-> k, by |-> t]
      /\ \A e \in Event : /\ log'[e] = log[e] /\ (Critical(e)' <=> Critical(e))
                          /\ \A s : (Wants(s, e)' <=> Wants(s, e))
  BY CommitLog
<1>2. \A u \in Writer : writer[u].event \in Event \cup {None}
  BY DEF TypeOK
<1>3. /\ \A u \in Writer \ {t} : writer'[u] = writer[u]
      /\ t \in Local => writer'[t] = [pc |-> "committed", event |-> Len(log) + 1]
      /\ t \notin Local => writer'[t] = writer[t]
      /\ writer[t].pc = "idle"
  BY DEF Commit, TypeOK
<1>4. UNCHANGED <<queue, worker, offered, closing>>
  BY DEF Commit, dispatcher
<1>5. WriterHolds'
  <2> SUFFICES ASSUME NEW u \in Writer
               PROVE  /\ writer'[u].pc = "idle" <=> writer'[u].event = None
                      /\ writer'[u].pc # "idle" => log'[writer'[u].event].by = u
                      /\ writer'[u].pc = "putting" =>
                           log'[writer'[u].event].kind \in CriticalEvents
    BY DEF WriterHolds, Critical
  <2>1. CASE writer'[u] = writer[u]
    BY <1>1, <1>2, <2>1 DEF WriterHolds, Critical
  <2>2. CASE u = t /\ t \in Local
    BY <1>1, <1>3, <2>2 DEF None
  <2> QED BY <1>3, <2>1, <2>2
<1>6. WorkerHolds'
  <2>1. \A s, e : e \in Event => (Wants(s, e)' <=> Wants(s, e))
    BY <1>1
  <2> QED BY <1>1, <1>4, <2>1 DEF WorkerHolds, Elements, Wants
<1>7. \A e \in Event : Offered(e) => Offered(e)'
  BY <1>1, <1>4 DEF Offered, Wants, Elements
<1>8. CriticalKept'
  <2> SUFFICES ASSUME closing' = "open", NEW e \in Event', Critical(e)', log'[e].by \in Local
               PROVE  \/ writer'[log'[e].by].event = e
                      \/ e \in Elements(queue)'
                      \/ worker'.pc = "send" /\ worker'.event = e
                      \/ Offered(e)'
    BY DEF CriticalKept, Elements
  <2>1. CASE e = Len(log) + 1
    BY <1>1, <1>3, <2>1
  <2>2. CASE e \in Event
    <3>1. Critical(e) /\ log[e].by \in Local /\ log'[e].by = log[e].by /\ closing = "open"
      BY <1>1, <1>4, <2>2 DEF Critical
    <3>2. log[e].by \in Writer
      BY <3>1 DEF Writer
    <3>3. \/ writer[log[e].by].event = e
          \/ e \in Elements(queue)
          \/ worker.pc = "send" /\ worker.event = e
          \/ Offered(e)
      BY <2>2, <3>1 DEF CriticalKept
    <3>4. writer[log[e].by].event = e => writer'[log[e].by].event = e
      <4>1. CASE log[e].by = t
        BY <1>1, <1>3, <2>2, <4>1 DEF WriterHolds
      <4>2. CASE log[e].by # t
        BY <1>3, <3>2, <4>2
      <4> QED BY <4>1, <4>2
    <3> QED BY <1>4, <1>7, <2>2, <3>1, <3>3, <3>4 DEF Elements
  <2> QED BY <1>1, <2>1, <2>2
<1> QED BY <1>5, <1>6, <1>8

LEMMA KeptByPublish ==
  ASSUME TypeOK, WriterHolds, WorkerHolds, CriticalKept, NEW t \in Writer, Publish(t)
  PROVE  WriterHolds' /\ WorkerHolds' /\ CriticalKept'
<1>1. UNCHANGED <<log, worker, offered, closing>>
  BY DEF Publish, PublishClosed, PublishNow, PublishFull, Put, rows, dispatcher
<1>2. \A u \in Writer \ {t} : writer'[u] = writer[u]
  BY DEF Publish, PublishClosed, PublishNow, PublishFull, Put, TypeOK
<1>3. writer[t].pc # "idle" /\ writer[t].event \in Event \cup {None} /\ writer[t].event # None
  BY DEF Publish, PublishClosed, PublishNow, PublishFull, Put, TypeOK, WriterHolds
<1>4. \/ /\ writer'[t] = Idle
         /\ \/ closing # "open"
            \/ ~Critical(writer[t].event) /\ UNCHANGED queue
            \/ queue' = Append(queue, writer[t].event)
      \/ /\ writer'[t] = [writer[t] EXCEPT !.pc = "putting"]
         /\ Critical(writer[t].event) /\ UNCHANGED queue
  BY DEF Publish, PublishClosed, PublishNow, PublishFull, Put, TypeOK, dispatcher
<1>5. \/ writer'[t] = Idle
      \/ writer'[t].pc = "putting" /\ writer'[t].event = writer[t].event
         /\ Critical(writer[t].event)
  BY <1>4 DEF TypeOK
<1>6. WriterHolds'
  <2> SUFFICES ASSUME NEW u \in Writer
               PROVE  /\ writer'[u].pc = "idle" <=> writer'[u].event = None
                      /\ writer'[u].pc # "idle" => log[writer'[u].event].by = u
                      /\ writer'[u].pc = "putting" => Critical(writer'[u].event)
    BY <1>1 DEF WriterHolds, Critical
  <2>1. CASE u # t
    BY <1>2, <2>1 DEF WriterHolds
  <2>2. CASE u = t
    BY <1>3, <1>5, <2>2 DEF WriterHolds, Idle
  <2> QED BY <2>1, <2>2
<1>7. WorkerHolds'
  BY <1>1 DEF WorkerHolds, Event, Wants, Elements
<1>8. CriticalKept'
  <2> SUFFICES ASSUME closing = "open", NEW e \in Event, Critical(e), log[e].by \in Local
               PROVE  \/ writer'[log[e].by].event = e
                      \/ e \in Elements(queue')
                      \/ worker.pc = "send" /\ worker.event = e
                      \/ Offered(e)
    BY <1>1 DEF CriticalKept, Elements, Event, Critical, Offered, Wants
  <2>1. \/ writer[log[e].by].event = e
        \/ e \in Elements(queue)
        \/ worker.pc = "send" /\ worker.event = e
        \/ Offered(e)
    BY DEF CriticalKept
  <2>2. queue' = Append(queue, writer[t].event) =>
          Elements(queue') = Elements(queue) \cup {writer[t].event}
    <3>1. writer[t].event \in Event \cup {Stop} /\ queue \in Seq(Event \cup {Stop})
      BY <1>3 DEF TypeOK, None, Stop
    <3> QED BY <3>1, AppendElements
  <2>3. e \in Elements(queue) => e \in Elements(queue')
    BY <1>4, <2>2
  <2>4. CASE writer[log[e].by].event = e
    <3>1. CASE log[e].by = t
      <4>1. Critical(writer[t].event) /\ writer[t].event = e
        BY <2>4, <3>1
      <4>2. CASE queue' = Append(queue, writer[t].event)
        BY <2>2, <4>1, <4>2
      <4>3. CASE writer'[t] = [writer[t] EXCEPT !.pc = "putting"]
        BY <3>1, <4>1, <4>3 DEF TypeOK
      <4> QED BY <1>4, <4>1, <4>2, <4>3
    <3>2. CASE log[e].by # t
      BY <1>2, <2>4, <3>2 DEF Writer
    <3> QED BY <3>1, <3>2
  <2> QED BY <2>1, <2>3, <2>4
<1> QED BY <1>6, <1>7, <1>8

\* What was offered stays so; with the last sink the worker has offered its event
\* to every sink that wants it.
LEMMA SendOffers ==
  ASSUME TypeOK, WorkerHolds, Send
  PROVE  /\ WorkerHolds'
         /\ \A e \in Event : Offered(e) => Offered(e)'
         /\ worker.pc = "send" /\ worker.event \in Event
         /\ \A e \in Event : e = worker.event =>
              \/ worker'.pc = "send" /\ worker'.event = e
              \/ worker'.pc = "get" /\ Offered(e)'
<1>0. PICK w, n : w = worker.event /\ n = worker.sink
  OBVIOUS
<1>1. /\ worker.pc = "send" /\ w \in Event /\ n \in 1..Sink /\ UNCHANGED log
      /\ offered \in [1..Sink -> Seq(Event)]
  BY <1>0 DEF Send, WorkerHolds, TypeOK, rows
<1>2. offered' = [offered EXCEPT ![n] = IF Wants(n, w) THEN Append(@, w) ELSE @]
  BY <1>0 DEF Send, Offer
<1>3. Elements(Append(offered[n], w)) = Elements(offered[n]) \cup {w}
  BY <1>1, AppendElements
<1>4. /\ \A s \in 1..Sink : Elements(offered[s]) \subseteq Elements(offered'[s])
      /\ Wants(n, w) => w \in Elements(offered'[n])
  BY <1>1, <1>2, <1>3
<1>5. \A s \in 1..n : Wants(s, w) => w \in Elements(offered'[s])
  <2> TAKE s \in 1..n
  <2>1. s \in 1..Sink /\ (s \in 1..(n - 1) \/ s = n)
    BY <1>1, Constants
  <2> QED BY <1>0, <1>1, <1>4, <2>1 DEF WorkerHolds
<1>6. \A e \in Event : Offered(e) => Offered(e)'
  BY <1>1, <1>4 DEF Offered, Wants, Elements, Event
<1>7. CASE n = Sink
  <2>1. worker'.pc = "get"
    BY <1>0, <1>7 DEF Send, NextSink
  <2>2. Offered(w)'
    BY <1>1, <1>5, <1>7 DEF Offered, Wants, Elements, Event
  <2> QED BY <1>0, <1>1, <1>6, <2>1, <2>2 DEF WorkerHolds
<1>8. CASE n # Sink
  <2>1. worker'.pc = "send" /\ worker'.event = w /\ worker'.sink = n + 1
    BY <1>0, <1>1, <1>8 DEF Send, NextSink, TypeOK
  <2>2. WorkerHolds'
    <3>1. 1..(worker'.sink - 1) = 1..n
      BY <1>1, <2>1, Constants
    <3> QED BY <1>1, <1>5, <2>1, <3>1 DEF WorkerHolds, Wants, Elements, Event
  <2> QED BY <1>0, <1>1, <1>6, <2>1, <2>2
<1> QED BY <1>7, <1>8

LEMMA KeptByDispatcher ==
  ASSUME TypeOK, WriterHolds, WorkerHolds, CriticalKept, Get \/ Send \/ Close
  PROVE  WriterHolds' /\ WorkerHolds' /\ CriticalKept'
<1>1. UNCHANGED <<log, writer>>
  BY DEF Get, Send, Close, CloseStart, CloseStop, CloseDone, CloseTimeout, rows
<1>2. WriterHolds'
  BY <1>1 DEF WriterHolds, Critical
<1>3. SUFFICES
        /\ WorkerHolds'
        /\ closing' = "open" =>
             \A e \in Event :
               (e \in Elements(queue) \/ (worker.pc = "send" /\ worker.event = e) \/ Offered(e))
                 => \/ e \in Elements(queue')
                    \/ worker'.pc = "send" /\ worker'.event = e
                    \/ Offered(e)'
  <2>1. closing' = "open" => closing = "open"
    BY DEF Get, Send, Close, CloseStart, CloseStop, CloseDone, CloseTimeout
  <2>2. Event' = Event /\ \A e : (Critical(e)' <=> Critical(e))
    BY <1>1, SameLog
  <2> QED BY <1>1, <1>2, <2>1, <2>2 DEF CriticalKept, Elements
<1>4. CASE Get
  <2>1. /\ Elements(queue) = Elements(queue') \cup {Head(queue)}
        /\ Head(queue) \in Event \cup {Stop}
    BY <1>4, TailElements DEF Get, TypeOK
  <2>2. \/ Head(queue) = Stop /\ worker'.pc = "ended"
        \/ worker' = [pc |-> "send", event |-> Head(queue), sink |-> 1] /\ Head(queue) # Stop
    BY <1>4 DEF Get, TypeOK
  <2>3. worker.pc = "get" /\ UNCHANGED offered
    BY <1>4 DEF Get
  <2>4. WorkerHolds'
    BY <1>1, <2>1, <2>2, SameLog DEF WorkerHolds
  <2>5. Stop \notin Event
    BY DEF Stop, Event
  <2>6. \A e \in Event : Offered(e) => Offered(e)'
    BY <1>1, <2>3 DEF Offered, Wants, Elements, Event
  <2> QED BY <2>1, <2>2, <2>3, <2>4, <2>5, <2>6
<1>5. CASE Send
  BY <1>5, SendOffers DEF Send
<1>6. CASE Close
  <2>1. closing' # "open" /\ UNCHANGED offered
    BY <1>6 DEF Close, CloseStart, CloseStop, CloseDone, CloseTimeout
  <2>2. UNCHANGED worker \/ worker'.pc = "cancelled"
    BY <1>6 DEF Close, CloseStart, CloseStop, CloseDone, CloseTimeout
  <2>3. WorkerHolds'
    BY <1>1, <2>1, <2>2 DEF WorkerHolds, Wants, Elements, Event
  <2> QED BY <2>1, <2>3
<1> QED BY <1>4, <1>5, <1>6

-----------------------------------------------------------------------------
(* The order of the events of one writer.                                  *)

\* If d and e are of one writer then d is the earlier one.
Before(d, e) == log[d].by = log[e].by => d < e

\* d has left the queue for the worker.
Passed(d) ==
  \/ worker.pc = "send" /\ worker.event = d
  \/ \E s \in 1..Sink : d \in Elements(offered[s])

\* From the sinks over the worker and the queue to the tasks, the events of one
\* writer become younger.
OrderHolds ==
  /\ \A i, j \in 1..Len(queue) :
       i < j /\ queue[i] # Stop /\ queue[j] # Stop => Before(queue[i], queue[j])
  /\ \A d \in Event : \A e \in Elements(queue) \ {Stop} : Passed(d) => Before(d, e)
  /\ worker.pc = "send" =>
       \A s \in worker.sink..Sink : \A d \in Elements(offered[s]) : Before(d, worker.event)
  /\ \A t \in Writer : \A d \in Event :
       /\ writer[t].pc # "idle" /\ log[d].by = t
       /\ d \in Elements(queue) \/ Passed(d)
       => d < writer[t].event
  /\ WriterOrder

\* What is queued, held or offered is an event, or the sentinel.
LEMMA Elementary ==
  ASSUME TypeOK
  PROVE  /\ Len(log) \in Nat /\ Len(queue) \in Nat /\ Stop \notin Event
         /\ \A i \in 1..Len(queue) : queue[i] \in Elements(queue)
         /\ Elements(queue) \subseteq Event \cup {Stop}
         /\ \A s \in 1..Sink : /\ Elements(offered[s]) \subseteq Event
                               /\ Len(offered[s]) \in Nat
                               /\ \A i \in 1..Len(offered[s]) :
                                    offered[s][i] \in Elements(offered[s])
<1>1. Len(log) \in Nat /\ Stop \notin Event
  BY DEF TypeOK, Event, Stop
<1>2. queue \in Seq(Event \cup {Stop}) /\ \A s \in 1..Sink : offered[s] \in Seq(Event)
  BY DEF TypeOK
<1>3. \A S : \A q \in Seq(S) : /\ Elements(q) \subseteq S /\ Len(q) \in Nat
                              /\ \A i \in 1..Len(q) : q[i] \in Elements(q)
  BY DEF Elements
<1> QED BY <1>1, <1>2, <1>3

LEMMA OrderInit == Init => OrderHolds
<1> SUFFICES ASSUME Init PROVE OrderHolds
  OBVIOUS
<1>1. /\ Len(queue) = 0 /\ Elements(queue) = {} /\ Event = {}
      /\ \A s \in 1..Sink : Len(offered[s]) = 0
      /\ worker.pc = "get" /\ \A t \in Writer : writer[t].pc = "idle"
  BY DEF Init, Elements, Event, Idle
<1> QED BY <1>1 DEF OrderHolds, WriterOrder

LEMMA OrderCommit ==
  ASSUME TypeOK, WorkerHolds, OrderHolds, NEW t \in Writer, NEW k \in Kind, Commit(t, k)
  PROVE  OrderHolds'
<1>1. /\ Len(log) \in Nat /\ Event' = Event \cup {Len(log) + 1}
      /\ \A e \in Event : log'[e] = log[e]
  BY CommitLog
<1>2. UNCHANGED <<queue, worker, offered>>
  BY DEF Commit, dispatcher
<1>3. /\ \A u \in Writer \ {t} : writer'[u] = writer[u]
      /\ writer'[t] = [pc |-> "committed", event |-> Len(log) + 1] \/ writer'[t] = writer[t]
  BY DEF Commit, TypeOK
<1>4. \A d : Passed(d)' <=> Passed(d)
  BY <1>2 DEF Passed, Elements
<1>5. \A d : Passed(d) => d \in Event
  BY Elementary DEF Passed, WorkerHolds
<1>6. \A d, e \in Event : Before(d, e)' <=> Before(d, e)
  BY <1>1 DEF Before
<1>7. \A i, j \in 1..Len(queue)' :
        i < j /\ queue'[i] # Stop /\ queue'[j] # Stop => Before(queue[i], queue[j])'
  <2>1. \A i \in 1..Len(queue) : queue[i] # Stop => queue[i] \in Event
    BY Elementary
  <2> QED BY <1>1, <1>2, <2>1 DEF OrderHolds, Before
<1>8. \A d \in Event' : \A e \in Elements(queue)' \ {Stop} : Passed(d)' => Before(d, e)'
  <2>1. Elements(queue)' = Elements(queue)
    BY <1>2 DEF Elements
  <2> QED BY <1>4, <1>5, <1>6, <2>1, Elementary DEF OrderHolds
<1>9. worker'.pc = "send" =>
        \A s \in worker'.sink..Sink : \A d \in Elements(offered[s])' : Before(d, worker.event)'
  <2> SUFFICES ASSUME worker.pc = "send", NEW s \in worker.sink..Sink, NEW d \in Elements(offered[s])
               PROVE  log'[d].by = log'[worker.event].by => d < worker.event
    BY <1>2 DEF Elements, Before
  <2>1. worker.event \in Event /\ s \in 1..Sink
    BY Constants DEF WorkerHolds, TypeOK
  <2>2. d \in Event
    BY <2>1, Elementary
  <2> QED BY <1>1, <2>1, <2>2 DEF OrderHolds, Before
<1>10. \A u \in Writer : \A d \in Event' :
         /\ writer'[u].pc # "idle" /\ log'[d].by = u
         /\ d \in Elements(queue)' \/ Passed(d)'
         => d < writer'[u].event
  <2> SUFFICES ASSUME NEW u \in Writer, NEW d \in Event', writer'[u].pc # "idle", log'[d].by = u,
                      d \in Elements(queue) \/ Passed(d)
               PROVE  d < writer'[u].event
    BY <1>2, <1>4 DEF Elements
  <2>1. d \in Event
    BY <1>1, <1>5, Elementary DEF Event, Stop
  <2>2. CASE writer'[u] = writer[u]
    BY <1>1, <2>1, <2>2 DEF OrderHolds
  <2>3. CASE writer'[u].event = Len(log) + 1
    BY <1>1, <2>1, <2>3 DEF Event
  <2> QED BY <1>3, <2>2, <2>3
<1>11. WriterOrder'
  <2> SUFFICES ASSUME NEW s \in 1..Sink, NEW i \in 1..Len(offered[s]), NEW j \in 1..Len(offered[s]),
                      i < j, log'[offered[s][i]].by = log'[offered[s][j]].by
               PROVE  offered[s][i] < offered[s][j]
    BY <1>2 DEF WriterOrder
  <2>1. offered[s][i] \in Event /\ offered[s][j] \in Event
    BY Elementary
  <2> QED BY <1>1, <2>1 DEF OrderHolds, WriterOrder
<1> QED BY <1>7, <1>8, <1>9, <1>10, <1>11 DEF OrderHolds

LEMMA OrderPublish ==
  ASSUME TypeOK, WriterHolds, OrderHolds, NEW t \in Writer, Publish(t)
  PROVE  OrderHolds'
<1>1. UNCHANGED <<log, worker, offered>> /\ Event' = Event
  BY DEF Publish, PublishClosed, PublishNow, PublishFull, Put, rows, dispatcher, Event
<1>2. \A u \in Writer \ {t} : writer'[u] = writer[u]
  BY DEF Publish, PublishClosed, PublishNow, PublishFull, Put, TypeOK
<1>3. PICK e : e = writer[t].event
  OBVIOUS
<1>4. writer[t].pc # "idle" /\ e \in Event /\ log[e].by = t
  BY <1>3 DEF Publish, PublishClosed, PublishNow, PublishFull, Put, TypeOK, WriterHolds
<1>5. \/ writer'[t] = Idle /\ (UNCHANGED queue \/ queue' = Append(queue, e))
      \/ writer'[t].event = e /\ UNCHANGED queue
  BY <1>3 DEF Publish, PublishClosed, PublishNow, PublishFull, Put, TypeOK, dispatcher
<1>6. \A d : Passed(d)' <=> Passed(d)
  BY <1>1 DEF Passed, Elements
<1>7. \A d, f : Before(d, f)' <=> Before(d, f)
  BY <1>1 DEF Before
<1>8. WriterOrder'
  BY <1>1 DEF OrderHolds, WriterOrder
<1>9. worker'.pc = "send" =>
        \A s \in worker'.sink..Sink : \A d \in Elements(offered[s])' : Before(d, worker.event)'
  BY <1>1 DEF OrderHolds, Elements, Before
<1>10. CASE UNCHANGED queue
  <2>1. \A u \in Writer : writer'[u].pc # "idle" =>
          writer[u].pc # "idle" /\ writer'[u].event = writer[u].event
    BY <1>2, <1>3, <1>4, <1>5 DEF Idle
  <2>2. Elements(queue)' = Elements(queue)
    BY <1>10 DEF Elements
  <2>3. \A i, j \in 1..Len(queue)' :
          i < j /\ queue'[i] # Stop /\ queue'[j] # Stop => Before(queue[i], queue[j])'
    BY <1>1, <1>10 DEF OrderHolds, Before
  <2>4. \A d \in Event' : \A f \in Elements(queue)' \ {Stop} : Passed(d)' => Before(d, f)'
    BY <1>1, <1>6, <1>7, <2>2 DEF OrderHolds
  <2>5. \A u \in Writer : \A d \in Event' :
          /\ writer'[u].pc # "idle" /\ log'[d].by = u
          /\ d \in Elements(queue)' \/ Passed(d)'
          => d < writer'[u].event
    BY <1>1, <1>6, <2>1, <2>2 DEF OrderHolds
  <2> QED BY <1>8, <1>9, <2>3, <2>4, <2>5 DEF OrderHolds
<1>11. CASE queue' = Append(queue, e) /\ writer'[t] = Idle
  <2>1. e \in Event \cup {Stop} /\ queue \in Seq(Event \cup {Stop}) /\ Len(queue) \in Nat
    BY <1>4 DEF TypeOK
  <2>2. /\ Len(queue') = Len(queue) + 1
        /\ \A i \in 1..Len(queue) : queue'[i] = queue[i]
        /\ queue'[Len(queue) + 1] = e
        /\ Elements(queue') = Elements(queue) \cup {e}
    BY <1>11, <2>1, AppendElements
  <2>3. \A d \in Event : d \in Elements(queue) \/ Passed(d) => Before(d, e)
    BY <1>3, <1>4 DEF OrderHolds, Before
  <2>4. \A i, j \in 1..Len(queue') :
          i < j /\ queue'[i] # Stop /\ queue'[j] # Stop => Before(queue'[i], queue'[j])
    <3> TAKE i, j \in 1..Len(queue')
    <3> HAVE i < j /\ queue'[i] # Stop /\ queue'[j] # Stop
    <3>1. i \in 1..Len(queue) /\ queue'[i] = queue[i]
      BY <2>1, <2>2
    <3>2. CASE j \in 1..Len(queue)
      BY <2>2, <3>1, <3>2 DEF OrderHolds
    <3>3. CASE j = Len(queue) + 1
      <4>1. queue[i] \in Event /\ queue[i] \in Elements(queue)
        BY <3>1, Elementary
      <4> QED BY <2>2, <2>3, <3>1, <3>3, <4>1
    <3> QED BY <2>1, <2>2, <3>2, <3>3
  <2>5. \A d \in Event : \A f \in Elements(queue') \ {Stop} : Passed(d) => Before(d, f)
    BY <2>2, <2>3 DEF OrderHolds
  <2>6. \A u \in Writer : \A d \in Event :
          /\ writer'[u].pc # "idle" /\ log[d].by = u
          /\ d \in Elements(queue') \/ Passed(d)
          => d < writer'[u].event
    <3> TAKE u \in Writer
    <3> TAKE d \in Event
    <3> HAVE writer'[u].pc # "idle" /\ log[d].by = u /\ (d \in Elements(queue') \/ Passed(d))
    <3>1. u # t /\ writer'[u] = writer[u]
      BY <1>2, <1>11 DEF Idle
    <3>2. d # e
      BY <1>4, <3>1
    <3> QED BY <2>2, <3>1, <3>2 DEF OrderHolds
  <2>7. /\ \A i, j \in 1..Len(queue)' :
             i < j /\ queue'[i] # Stop /\ queue'[j] # Stop => Before(queue[i], queue[j])'
        /\ \A d \in Event' : \A f \in Elements(queue)' \ {Stop} : Passed(d)' => Before(d, f)'
        /\ \A u \in Writer : \A d \in Event' :
             /\ writer'[u].pc # "idle" /\ log'[d].by = u
             /\ d \in Elements(queue)' \/ Passed(d)'
             => d < writer'[u].event
    BY <1>1, <1>6, <2>4, <2>5, <2>6 DEF Before, Elements
  <2> QED BY <1>8, <1>9, <2>7 DEF OrderHolds
<1> QED BY <1>5, <1>10, <1>11

LEMMA OrderGet ==
  ASSUME TypeOK, OrderHolds, Get
  PROVE  OrderHolds'
<1>1. UNCHANGED <<log, writer, offered>> /\ Event' = Event /\ worker.pc = "get"
  BY DEF Get, rows, Event
<1>2. PICK h : h = Head(queue)
  OBVIOUS
<1>3. /\ Len(queue) \in Nat /\ Len(queue) >= 1 /\ Len(queue') = Len(queue) - 1 /\ h = queue[1]
      /\ \A i \in 1..Len(queue') : queue'[i] = queue[i + 1]
      /\ Elements(queue) = Elements(queue') \cup {h} /\ h \in Event \cup {Stop}
  BY <1>2, TailElements DEF Get, TypeOK
<1>4. \/ h = Stop /\ worker'.pc = "ended"
      \/ h # Stop /\ worker' = [pc |-> "send", event |-> h, sink |-> 1]
  BY <1>2 DEF Get, TypeOK
<1>5. \A d, e : Before(d, e)' <=> Before(d, e)
  BY <1>1 DEF Before
<1>6. \A d : Passed(d)' => Passed(d) \/ (d = h /\ h # Stop)
  BY <1>1, <1>4 DEF Passed, Elements
<1>7. \A i, j \in 1..Len(queue)' :
        i < j /\ queue'[i] # Stop /\ queue'[j] # Stop => Before(queue[i], queue[j])'
  <2> TAKE i, j \in 1..Len(queue)'
  <2>1. i + 1 \in 1..Len(queue) /\ j + 1 \in 1..Len(queue) /\ (i < j => i + 1 < j + 1)
    BY <1>3
  <2> QED BY <1>1, <1>3, <2>1 DEF OrderHolds, Before
<1>8. \A d \in Event' : \A e \in Elements(queue)' \ {Stop} : Passed(d)' => Before(d, e)'
  <2> SUFFICES ASSUME NEW d \in Event, NEW e \in Elements(queue') \ {Stop}, Passed(d)'
               PROVE  Before(d, e)
    BY <1>1, <1>5 DEF Elements
  <2>1. CASE Passed(d)
    BY <1>3, <2>1 DEF OrderHolds
  <2>2. CASE d = h /\ h # Stop
    <3>1. PICK j \in 1..Len(queue') : e = queue'[j]
      BY DEF Elements
    <3>2. j + 1 \in 1..Len(queue) /\ 1 \in 1..Len(queue) /\ 1 < j + 1 /\ queue[j + 1] = e
      BY <1>3, <3>1
    <3> QED BY <1>3, <2>2, <3>2 DEF OrderHolds
  <2> QED BY <1>6, <2>1, <2>2
<1>9. worker'.pc = "send" =>
        \A s \in worker'.sink..Sink : \A d \in Elements(offered[s])' : Before(d, worker.event)'
  <2> SUFFICES ASSUME h # Stop, NEW s \in 1..Sink, NEW d \in Elements(offered[s])
               PROVE  Before(d, h)
    BY <1>1, <1>4, <1>5 DEF Elements, Before
  <2>1. Passed(d) /\ d \in Event /\ h \in Elements(queue)
    BY <1>3, Elementary DEF Passed
  <2> QED BY <2>1 DEF OrderHolds
<1>10. \A u \in Writer : \A d \in Event' :
         /\ writer'[u].pc # "idle" /\ log'[d].by = u
         /\ d \in Elements(queue)' \/ Passed(d)'
         => d < writer'[u].event
  <2>1. \A d \in Event : d \in Elements(queue)' \/ Passed(d)' => d \in Elements(queue) \/ Passed(d)
    BY <1>3, <1>6 DEF Elements
  <2> QED BY <1>1, <2>1 DEF OrderHolds
<1>11. WriterOrder'
  BY <1>1 DEF OrderHolds, WriterOrder
<1> QED BY <1>7, <1>8, <1>9, <1>10, <1>11 DEF OrderHolds

LEMMA OrderSend ==
  ASSUME TypeOK, WorkerHolds, OrderHolds, Send
  PROVE  OrderHolds'
<1>1. UNCHANGED <<log, writer, queue>> /\ Event' = Event /\ worker.pc = "send"
  BY DEF Send, rows, Event
<1>2. PICK w, n : w = worker.event /\ n = worker.sink
  OBVIOUS
<1>3. w \in Event /\ n \in 1..Sink /\ offered \in [1..Sink -> Seq(Event)]
  BY <1>1, <1>2 DEF WorkerHolds, TypeOK
<1>4. \/ worker'.pc = "get"
      \/ worker'.pc = "send" /\ worker'.event = w /\ worker'.sink = n + 1
  BY <1>1, <1>2 DEF Send, NextSink, TypeOK
<1>5. /\ offered' \in [1..Sink -> Seq(Event)]
      /\ \A s \in 1..Sink : s # n => offered'[s] = offered[s]
      /\ offered'[n] = offered[n] \/ offered'[n] = Append(offered[n], w)
  BY <1>2, <1>3 DEF Send, Offer
<1>6. /\ Len(Append(offered[n], w)) = Len(offered[n]) + 1 /\ Len(offered[n]) \in Nat
      /\ \A i \in 1..Len(offered[n]) : Append(offered[n], w)[i] = offered[n][i]
      /\ Append(offered[n], w)[Len(offered[n]) + 1] = w
      /\ Elements(Append(offered[n], w)) = Elements(offered[n]) \cup {w}
  BY <1>3, AppendElements
<1>7. \A d, e : Before(d, e)' <=> Before(d, e)
  BY <1>1 DEF Before
<1>8. \A d : Passed(d)' => Passed(d)
  <2> TAKE d
  <2>1. \A s \in 1..Sink : Elements(offered'[s]) \subseteq Elements(offered[s]) \cup {w}
    BY <1>5, <1>6
  <2>2. Passed(w)
    BY <1>1, <1>2 DEF Passed
  <2>3. \A s : Elements(offered[s])' = Elements(offered'[s])
    BY DEF Elements
  <2> QED BY <1>4, <2>1, <2>2, <2>3 DEF Passed
<1>9. Elements(queue)' = Elements(queue)
  BY <1>1 DEF Elements
<1>10. \A i, j \in 1..Len(queue)' :
         i < j /\ queue'[i] # Stop /\ queue'[j] # Stop => Before(queue[i], queue[j])'
  BY <1>1 DEF OrderHolds, Before
<1>11. \A d \in Event' : \A e \in Elements(queue)' \ {Stop} : Passed(d)' => Before(d, e)'
  BY <1>1, <1>7, <1>8, <1>9 DEF OrderHolds
<1>12. worker'.pc = "send" =>
         \A s \in worker'.sink..Sink : \A d \in Elements(offered[s])' : Before(d, worker.event)'
  <2> SUFFICES ASSUME worker'.pc = "send", NEW s \in (n + 1)..Sink, NEW d \in Elements(offered'[s])
               PROVE  log[d].by = log[w].by => d < w
    BY <1>1, <1>4 DEF Elements, Before
  <2>1. s \in 1..Sink /\ s # n /\ s \in n..Sink
    BY <1>3, Constants
  <2> QED BY <1>1, <1>2, <1>5, <2>1 DEF OrderHolds, Before
<1>13. \A u \in Writer : \A d \in Event' :
         /\ writer'[u].pc # "idle" /\ log'[d].by = u
         /\ d \in Elements(queue)' \/ Passed(d)'
         => d < writer'[u].event
  BY <1>1, <1>8, <1>9 DEF OrderHolds
<1>14. WriterOrder'
  <2> SUFFICES ASSUME NEW s \in 1..Sink, NEW i \in 1..Len(offered'[s]), NEW j \in 1..Len(offered'[s]),
                      i < j, log[offered'[s][i]].by = log[offered'[s][j]].by
               PROVE  offered'[s][i] < offered'[s][j]
    BY <1>1 DEF WriterOrder
  <2>1. CASE offered'[s] = offered[s]
    BY <2>1 DEF OrderHolds, WriterOrder
  <2>2. CASE s = n /\ offered'[n] = Append(offered[n], w)
    <3>1. i \in 1..Len(offered[n]) /\ offered'[s][i] = offered[n][i]
      BY <1>6, <2>2
    <3>2. CASE j \in 1..Len(offered[n])
      BY <1>3, <1>6, <2>2, <3>1, <3>2 DEF OrderHolds, WriterOrder
    <3>3. CASE j = Len(offered[n]) + 1
      <4>1. offered'[s][j] = w /\ offered[n][i] \in Elements(offered[n]) /\ n \in n..Sink
        BY <1>3, <1>6, <2>2, <3>1, <3>3, Constants DEF Elements
      <4> QED BY <1>1, <1>2, <3>1, <4>1 DEF OrderHolds, Before
    <3> QED BY <1>6, <2>2, <3>2, <3>3
  <2> QED BY <1>5, <2>1, <2>2
<1> QED BY <1>10, <1>11, <1>12, <1>13, <1>14 DEF OrderHolds

LEMMA OrderClose ==
  ASSUME TypeOK, OrderHolds, Close
  PROVE  OrderHolds'
<1>1. UNCHANGED <<log, writer, offered>> /\ Event' = Event
  BY DEF Close, CloseStart, CloseStop, CloseDone, CloseTimeout, rows, Event
<1>2. UNCHANGED worker \/ worker'.pc = "cancelled"
  BY DEF Close, CloseStart, CloseStop, CloseDone, CloseTimeout
<1>3. UNCHANGED queue \/ queue' = Append(queue, Stop)
  BY DEF Close, CloseStart, CloseStop, CloseDone, CloseTimeout
<1>4. \A d : Passed(d)' => Passed(d)
  BY <1>1, <1>2 DEF Passed, Elements
<1>5. \A d, e : Before(d, e)' <=> Before(d, e)
  BY <1>1 DEF Before
<1>6. queue \in Seq(Event \cup {Stop}) /\ Len(queue) \in Nat /\ Stop \in Event \cup {Stop}
  BY DEF TypeOK
<1>7. /\ Len(Append(queue, Stop)) = Len(queue) + 1
      /\ \A i \in 1..Len(queue) : Append(queue, Stop)[i] = queue[i]
      /\ Append(queue, Stop)[Len(queue) + 1] = Stop
      /\ Elements(Append(queue, Stop)) = Elements(queue) \cup {Stop}
  BY <1>6, AppendElements
<1>8. /\ \A i \in 1..Len(queue') : queue'[i] # Stop =>
           i \in 1..Len(queue) /\ queue'[i] = queue[i]
      /\ Elements(queue') \ {Stop} = Elements(queue) \ {Stop}
  <2>1. CASE UNCHANGED queue
    BY <2>1
  <2>2. CASE queue' = Append(queue, Stop)
    <3>1. \A i \in 1..Len(queue') : i \in 1..Len(queue) \/ queue'[i] = Stop
      BY <1>6, <1>7, <2>2
    <3> QED BY <1>7, <2>2, <3>1
  <2> QED BY <1>3, <2>1, <2>2
<1>9. Elements(queue)' = Elements(queue')
  BY DEF Elements
<1>10. \A i, j \in 1..Len(queue)' :
         i < j /\ queue'[i] # Stop /\ queue'[j] # Stop => Before(queue[i], queue[j])'
  BY <1>1, <1>8 DEF OrderHolds, Before
<1>11. \A d \in Event' : \A e \in Elements(queue)' \ {Stop} : Passed(d)' => Before(d, e)'
  BY <1>1, <1>4, <1>5, <1>8, <1>9 DEF OrderHolds
<1>12. worker'.pc = "send" =>
         \A s \in worker'.sink..Sink : \A d \in Elements(offered[s])' : Before(d, worker.event)'
  BY <1>1, <1>2 DEF OrderHolds, Elements, Before
<1>13. \A u \in Writer : \A d \in Event' :
         /\ writer'[u].pc # "idle" /\ log'[d].by = u
         /\ d \in Elements(queue)' \/ Passed(d)'
         => d < writer'[u].event
  <2>1. Stop \notin Event
    BY Elementary
  <2> QED BY <1>1, <1>4, <1>8, <1>9, <2>1 DEF OrderHolds
<1>14. WriterOrder'
  BY <1>1 DEF OrderHolds, WriterOrder
<1> QED BY <1>10, <1>11, <1>12, <1>13, <1>14 DEF OrderHolds

LEMMA OrderNext ==
  ASSUME TypeOK, WriterHolds, WorkerHolds, OrderHolds, [Next]_vars
  PROVE  OrderHolds'
<1>1. ASSUME NEW t \in Writer, NEW k \in Kind, Commit(t, k) PROVE OrderHolds'
  BY <1>1, OrderCommit
<1>2. ASSUME NEW t \in Writer, Publish(t) PROVE OrderHolds'
  BY <1>2, OrderPublish
<1>3. CASE Poll \/ Break \/ UNCHANGED vars
  <2>1. UNCHANGED <<log, writer, queue, worker, offered>>
    BY <1>3 DEF Poll, Connect, List, Yield, Status, Break, rows, dispatcher, vars
  <2> QED BY <2>1 DEF OrderHolds, WriterOrder, Passed, Before, Elements, Event
<1> QED BY <1>1, <1>2, <1>3, OrderGet, OrderSend, OrderClose DEF Next

-----------------------------------------------------------------------------
(* The theorems.                                                           *)

LEMMA InvInit == Init => IInv
  BY TypeInit, HoldsInit DEF IInv

LEMMA InvNext == IInv /\ [Next]_vars => IInv'
<1> SUFFICES ASSUME IInv, [Next]_vars PROVE IInv'
  OBVIOUS
<1>1. StreamHolds'
  BY StreamNext DEF IInv
<1>2. ASSUME NEW t \in Writer, NEW k \in Kind, Commit(t, k) PROVE IInv'
  BY <1>1, <1>2, TypeCommit, KeptByCommit DEF IInv
<1>3. ASSUME NEW t \in Writer, Publish(t) PROVE IInv'
  BY <1>1, <1>3, TypePublish, KeptByPublish DEF IInv
<1>4. CASE Get \/ Send \/ Close
  <2>1. worker.pc = "send" => worker.event # None
    BY DEF IInv, WorkerHolds, Event, None
  <2> QED BY <1>1, <1>4, <2>1, TypeDispatcher, KeptByDispatcher DEF IInv
<1>5. CASE Poll \/ Break
  <2>1. UNCHANGED <<log, writer, queue, worker, offered, closing>>
    BY <1>5 DEF Poll, Connect, List, Yield, Status, Break, rows, dispatcher
  <2>2. WriterHolds' /\ WorkerHolds' /\ CriticalKept'
    BY <2>1 DEF IInv, WriterHolds, WorkerHolds, CriticalKept, Critical, Wants, Offered,
                Elements, Event
  <2> QED BY <1>1, <1>5, <2>2, TypeClient DEF IInv
<1>6. CASE UNCHANGED vars
  <2>1. TypeOK'
    BY <1>6 DEF IInv, TypeOK, vars, Event
  <2>2. WriterHolds' /\ WorkerHolds' /\ CriticalKept'
    BY <1>6 DEF IInv, WriterHolds, WorkerHolds, CriticalKept, Critical, Wants, Offered,
                Elements, Event, vars
  <2> QED BY <1>1, <2>1, <2>2 DEF IInv
<1> QED BY <1>2, <1>3, <1>4, <1>5, <1>6 DEF Next

LEMMA Always == Spec => []IInv
BY InvInit, InvNext, PTL DEF Spec

\* Every variable keeps its type, the queue its bound.
THEOREM Typing == Spec => []TypeOK
<1>1. IInv => TypeOK
  BY DEF IInv
<1> QED BY <1>1, Always, PTL

\* A critical event is never lost while the dispatcher is open, however full the
\* queue and however many tasks wait for room in it.
THEOREM KeptCritical == Spec => []CriticalKept
<1>1. IInv => CriticalKept
  BY DEF IInv
<1> QED BY <1>1, Always, PTL

\* A client receives the log in order, without a gap or a repetition, over all
\* its connections, however they break.
THEOREM Stream == Spec => []StreamIsLog
<1>1. IInv => StreamIsLog
  BY DEF IInv, StreamHolds
<1> QED BY <1>1, Always, PTL

\* Every sink is offered the events of one writer in the order of the log.
THEOREM Order == Spec => []WriterOrder
<1>1. Init => IInv /\ OrderHolds
  BY InvInit, OrderInit
<1>2. IInv /\ OrderHolds /\ [Next]_vars => IInv' /\ OrderHolds'
  BY InvNext, OrderNext DEF IInv
<1>3. OrderHolds => WriterOrder
  BY DEF OrderHolds
<1> QED BY <1>1, <1>2, <1>3, PTL DEF Spec

-----------------------------------------------------------------------------
(* What close() flushes.                                                   *)

\* Before the sentinel is in the queue nothing ends the worker.
StopHolds ==
  closing \in {"open", "stopping"} =>
    Stop \notin Elements(queue) /\ worker.pc \in {"get", "send"}

\* The event is offered, or in the hands of the worker, or in the queue ahead of
\* any sentinel; or the worker was cancelled.
Flushing(e) ==
  \/ worker.pc = "cancelled"
  \/ Offered(e)
  \/ worker.pc = "send" /\ worker.event = e
  \/ /\ worker.pc # "ended"
     /\ \E i \in 1..Len(queue) :
          queue[i] = e /\ \A j \in 1..Len(queue) : queue[j] = Stop => i < j

\* What a step does to the queue: it leaves it, takes its head, or appends to it
\* an event, or, with the end of the wait for room, the sentinel.
LEMMA QueueStep ==
  ASSUME IInv, [Next]_vars
  PROVE  \/ queue' = queue
         \/ \E e \in Event : queue' = Append(queue, e) /\ UNCHANGED <<worker, closing>>
         \/ queue' = Append(queue, Stop) /\ UNCHANGED worker /\ closing' = "waiting"
         \/ Get
<1>1. ASSUME NEW t \in Writer, Publish(t), queue' # queue
      PROVE  \E e \in Event : queue' = Append(queue, e) /\ UNCHANGED <<worker, closing>>
  <2>1. CASE PublishNow(t) \/ Put(t)
    <3>1. writer[t].event \in Event
      BY <2>1 DEF PublishNow, Put, IInv, TypeOK, WriterHolds
    <3> QED BY <2>1, <3>1 DEF PublishNow, Put
  <2>2. CASE PublishClosed(t) \/ PublishFull(t)
    BY <1>1, <2>2 DEF PublishClosed, PublishFull, dispatcher
  <2> QED BY <1>1, <2>1, <2>2 DEF Publish
<1>2. CASE Close
  BY <1>2 DEF Close, CloseStart, CloseStop, CloseDone, CloseTimeout
<1>3. ASSUME ~Get, ~Close, \A t \in Writer : ~Publish(t)
      PROVE  queue' = queue
  BY <1>3 DEF Next, Commit, Send, Poll, Connect, List, Yield, Status, Break, dispatcher, vars
<1> QED BY <1>1, <1>2, <1>3

\* What a step does to the worker.
LEMMA WorkerStep ==
  ASSUME [Next]_vars
  PROVE  \/ worker' = worker \/ Get \/ Send
         \/ worker.pc # "ended" /\ worker'.pc = "cancelled" /\ closing' = "closed"
<1>1. ASSUME NEW t \in Writer, Publish(t) \/ \E k \in Kind : Commit(t, k)
      PROVE  worker' = worker
  BY <1>1 DEF Commit, Publish, PublishClosed, PublishNow, PublishFull, Put, dispatcher
<1>2. CASE Close
  BY <1>2 DEF Close, CloseStart, CloseStop, CloseDone, CloseTimeout
<1>3. CASE Poll \/ Break \/ UNCHANGED vars
  BY <1>3 DEF Poll, Connect, List, Yield, Status, Break, dispatcher, vars
<1> QED BY <1>1, <1>2, <1>3 DEF Next

LEMMA StopNext == IInv /\ StopHolds /\ [Next]_vars => StopHolds'
<1> SUFFICES ASSUME IInv, StopHolds, [Next]_vars, closing' \in {"open", "stopping"}
             PROVE  Stop \notin Elements(queue') /\ worker'.pc \in {"get", "send"}
  BY DEF StopHolds, Elements
<1>1. closing \in {"open", "stopping"}
  BY DEF Next, Commit, Publish, PublishClosed, PublishNow, PublishFull, Put, Get, Send, Close,
     CloseStart, CloseStop, CloseDone, CloseTimeout, Poll, Connect, List, Yield, Status, Break,
     dispatcher, vars
<1>2. Stop \notin Elements(queue) /\ worker.pc \in {"get", "send"} /\ Stop \notin Event
  BY <1>1 DEF StopHolds, Stop, Event
<1>3. queue \in Seq(Event \cup {Stop})
  BY DEF IInv, TypeOK
<1>4. CASE Get
  <2>1. Elements(queue) = Elements(queue') \cup {Head(queue)}
    BY <1>3, <1>4, TailElements DEF Get
  <2> QED BY <1>2, <1>4, <2>1 DEF Get
<1>5. CASE ~Get
  <2>1. Stop \notin Elements(queue')
    <3>1. ASSUME NEW d \in Event \cup {Stop}, queue' = Append(queue, d)
          PROVE  Elements(queue') = Elements(queue) \cup {d}
      BY <1>3, <3>1, AppendElements
    <3> QED BY <1>2, <1>5, <3>1, QueueStep
  <2>2. worker'.pc \in {"get", "send"}
    BY <1>2, <1>5, WorkerStep, SendOffers DEF IInv
  <2> QED BY <2>1, <2>2
<1> QED BY <1>4, <1>5

LEMMA FlushingNext ==
  ASSUME IInv, [Next]_vars, NEW e \in EventId, Flushing(e)
  PROVE  Flushing(e)'
<1>1. e # Stop /\ queue \in Seq(Event \cup {Stop}) /\ Len(queue) \in Nat
  BY Constants DEF EventId, Stop, IInv, TypeOK
<1>2. ASSUME Offered(e) PROVE Offered(e)'
  <2>1. e \in Event
    BY <1>2 DEF Offered
  <2>2. ASSUME NEW t \in Writer, NEW k \in Kind, Commit(t, k) PROVE Offered(e)'
    <3>1. offered' = offered
      BY <2>2 DEF Commit, dispatcher
    <3>2. e \in Event' /\ \A s : (Wants(s, e)' <=> Wants(s, e))
      BY <2>1, <2>2, CommitLog DEF IInv
    <3> QED BY <1>2, <3>1, <3>2 DEF Offered
  <2>3. CASE Send
    BY <1>2, <2>1, <2>3, SendOffers DEF IInv
  <2>4. ASSUME UNCHANGED <<log, offered>> PROVE Offered(e)'
    BY <1>2, <2>4 DEF Offered, Event, Wants, Elements
  <2> QED
    BY <2>2, <2>3, <2>4
    DEF Next, Publish, PublishClosed, PublishNow, PublishFull, Put, Get, Close, CloseStart,
        CloseStop, CloseDone, CloseTimeout, Poll, Connect, List, Yield, Status, Break,
        rows, dispatcher, vars
<1>3. CASE Offered(e)
  BY <1>2, <1>3 DEF Flushing
<1>4. CASE worker.pc = "cancelled"
  BY <1>4, WorkerStep DEF Get, Send, Flushing
<1>5. CASE worker.pc = "send" /\ worker.event = e
  <2>1. CASE Send
    BY <1>5, <2>1, SendOffers DEF IInv, Flushing
  <2> QED BY <1>5, <2>1, WorkerStep DEF Get, Flushing
<1>6. ASSUME worker.pc # "ended", NEW i \in 1..Len(queue), queue[i] = e,
             \A j \in 1..Len(queue) : queue[j] = Stop => i < j
      PROVE  Flushing(e)'
  <2>1. CASE Get
    <3>1. /\ Len(queue') = Len(queue) - 1 /\ Head(queue) = queue[1]
          /\ \A j \in 1..Len(queue') : queue'[j] = queue[j + 1]
      BY <1>1, <2>1, TailElements DEF Get
    <3>2. Head(queue) # Stop
      <4>1. 1 \in 1..Len(queue) /\ ~(i < 1)
        OBVIOUS
      <4> QED BY <1>6, <3>1, <4>1
    <3>3. worker'.pc = "send" /\ worker'.event = Head(queue)
      BY <2>1, <3>2 DEF Get
    <3>4. CASE i = 1
      BY <1>6, <3>1, <3>3, <3>4 DEF Flushing
    <3>5. CASE i # 1
      <4>1. i - 1 \in 1..Len(queue') /\ queue'[i - 1] = e
        BY <1>1, <1>6, <3>1, <3>5
      <4>2. ASSUME NEW j \in 1..Len(queue'), queue'[j] = Stop PROVE i - 1 < j
        <5>1. j + 1 \in 1..Len(queue) /\ queue[j + 1] = Stop
          BY <1>1, <3>1, <4>2
        <5> QED BY <1>6, <5>1
      <4> QED BY <3>3, <4>1, <4>2 DEF Flushing
    <3> QED BY <3>4, <3>5
  <2>2. CASE ~Get
    <3>1. \/ queue' = queue
          \/ \E d \in Event \cup {Stop} : queue' = Append(queue, d)
      BY <2>2, QueueStep
    <3>2. /\ i \in 1..Len(queue') /\ queue'[i] = e
          /\ \A j \in 1..Len(queue') : queue'[j] = Stop => i < j
      <4>1. CASE queue' = queue
        BY <1>6, <4>1
      <4>2. ASSUME NEW d \in Event \cup {Stop}, queue' = Append(queue, d)
            PROVE  /\ i \in 1..Len(queue') /\ queue'[i] = e
                   /\ \A j \in 1..Len(queue') : queue'[j] = Stop => i < j
        <5>1. /\ Len(queue') = Len(queue) + 1
              /\ \A j \in 1..Len(queue) : queue'[j] = queue[j]
          BY <1>1, <4>2, AppendElements
        <5> QED BY <1>1, <1>6, <5>1
      <4> QED BY <3>1, <4>1, <4>2
    <3>3. worker'.pc # "ended"
      BY <1>6, <2>2, WorkerStep, SendOffers DEF IInv
    <3> QED BY <3>2, <3>3 DEF Flushing
  <2> QED BY <2>1, <2>2
<1> QED BY <1>3, <1>4, <1>5, <1>6 DEF Flushing

\* What was in the queue before close() began is offered to its sinks by the time
\* the worker ends, unless the worker is cancelled: the sentinel overtakes nothing.
THEOREM Flush == Spec => FlushedAtClose
<1> SUFFICES ASSUME NEW e \in EventId
             PROVE  Spec => [](closing = "open" /\ e \in Elements(queue)
                                 => [](worker.pc = "ended" => Offered(e)))
  BY DEF FlushedAtClose
<1>1. Init => StopHolds
  BY DEF Init, StopHolds, Elements
<1>2. IInv /\ StopHolds /\ closing = "open" /\ e \in Elements(queue) => Flushing(e)
  BY DEF StopHolds, Flushing, Elements
<1>3. IInv /\ [Next]_vars /\ Flushing(e) => Flushing(e)'
  BY FlushingNext
<1>4. Flushing(e) /\ worker.pc = "ended" => Offered(e)
  BY DEF Flushing
<1> QED BY <1>1, <1>2, <1>3, <1>4, StopNext, Always, PTL DEF Spec

=============================================================================
