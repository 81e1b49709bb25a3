---------------------- MODULE ActiveCallContextProofs ----------------------
(***************************************************************************)
(* The hot state and its writer, for any number of tool calls, turns and   *)
(* database failures: the model is told of durable commitments only, each  *)
(* is recorded once, and the transcript has no holes.                      *)
(***************************************************************************)
EXTENDS ActiveCallContext, SequenceTheorems, TLAPS

\* Whose step a progress belongs to.
TaskInv ==
  /\ pc[Job] \in JobPc
  /\ \A t \in Tool : /\ pc[t] \in ToolPc
                     /\ pc[t] = "committing" => t \in CommitCalls
  /\ \A t \in CommitCalls : pc[t] \in {"idle", "committing", "done", "error"}

\* Turns carry their numbers, and requests for commitments their tool calls.
ItemInv ==
  \A i \in 1..Len(queue) :
    /\ queue[i].kind = "commit" <=> queue[i].by \in CommitCalls
    /\ queue[i].kind = "turn" => queue[i].n \in 1..said

Typed == TypeOK /\ TaskInv /\ ItemInv

-----------------------------------------------------------------------------
(* The queue.                                                              *)

\* Commits and turns are what was queued before, but for the first k items.
Follows(k) ==
  /\ \A i \in 1..Len(queue') :
       queue'[i].kind \in {"commit", "turn"} =>
         i + k \in 1..Len(queue) /\ queue'[i] = queue[i + k]
  /\ \A i \in 1..Len(queue) :
       i > k => i - k \in 1..Len(queue') /\ queue'[i - k] = queue[i]

\* What is submitted comes last.
LEMMA PutLast ==
  ASSUME TypeOK, NEW kind \in Kind, NEW state \in SUBSET Item, NEW by \in Task \cup {NoOne},
         NEW n \in 0..MaxTurns, Put(kind, state, by, n)
  PROVE  /\ queue' \in Seq(ItemType) /\ Len(queue') = Len(queue) + 1
         /\ queue'[Len(queue) + 1] = [kind |-> kind, state |-> state, by |-> by, n |-> n]
         /\ \A i \in 1..Len(queue) : queue'[i] = queue[i]
<1> DEFINE item == [kind |-> kind, state |-> state, by |-> by, n |-> n]
<1>1. item \in ItemType
  BY DEF ItemType
<1>2. queue \in Seq(ItemType) /\ queue' = Append(queue, item)
  BY DEF TypeOK, Put
<1> HIDE DEF item
<1>3. queue' \in Seq(ItemType) /\ Len(queue') = Len(queue) + 1
      /\ queue'[Len(queue) + 1] = item /\ \A i \in 1..Len(queue) : queue'[i] = queue[i]
  BY <1>1, <1>2, AppendProperties
<1> QED BY <1>3 DEF item

\* The writer takes what comes first.
LEMMA TakeFirst ==
  ASSUME TypeOK, NEW item \in Heads, queue' = Tail(queue)
  PROVE  /\ item \in ItemType /\ item = queue[1] /\ Len(queue) \in Nat /\ Len(queue) >= 1
         /\ queue' \in Seq(ItemType) /\ Len(queue') = Len(queue) - 1
         /\ \A i \in 1..Len(queue') : queue'[i] = queue[i + 1]
<1>1. queue \in Seq(ItemType) /\ queue # <<>> /\ item = Head(queue)
  BY DEF TypeOK, Heads
<1>2. item = queue[1] /\ item \in ItemType /\ Len(queue) \in Nat /\ Len(queue) >= 1
  BY <1>1, HeadTailProperties, EmptySeq, LenProperties
<1>3. queue' \in Seq(ItemType) /\ Len(queue') = Len(queue) - 1
      /\ \A i \in 1..Len(queue') : queue'[i] = queue[i + 1]
  BY <1>1, HeadTailProperties
<1> QED BY <1>2, <1>3

LEMMA Untouched ==
  ASSUME Typed, UNCHANGED queue, said' = said
  PROVE  queue' \in Seq(ItemType) /\ ItemInv' /\ Follows(0)
<1>1. queue \in Seq(ItemType) /\ Len(queue) \in Nat
  BY LenProperties DEF Typed, TypeOK
<1> QED BY <1>1 DEF Typed, ItemInv, Follows

LEMMA Submitted ==
  ASSUME Typed, NEW kind \in Kind \ {"turn"}, NEW state \in SUBSET Item,
         NEW by \in Task \cup {NoOne}, Put(kind, state, by, 0), said' = said,
         kind = "commit" <=> by \in CommitCalls
  PROVE  queue' \in Seq(ItemType) /\ ItemInv' /\ (kind # "commit" => Follows(0))
<1> MaxTurns \in Nat
  BY Constants
<1>1. /\ queue' \in Seq(ItemType) /\ Len(queue') = Len(queue) + 1 /\ Len(queue) \in Nat
      /\ queue'[Len(queue) + 1] = [kind |-> kind, state |-> state, by |-> by, n |-> 0]
      /\ \A i \in 1..Len(queue) : queue'[i] = queue[i]
  BY PutLast, LenProperties DEF Typed, TypeOK
<1>2. ASSUME NEW i \in 1..Len(queue')
      PROVE  /\ queue'[i].kind = "commit" <=> queue'[i].by \in CommitCalls
             /\ queue'[i].kind = "turn" => queue'[i].n \in 1..said
             /\ kind # "commit" /\ queue'[i].kind \in {"commit", "turn"} =>
                  i \in 1..Len(queue) /\ queue'[i] = queue[i]
  <2>1. CASE i \in 1..Len(queue)
    BY <1>1, <2>1 DEF Typed, ItemInv
  <2>2. CASE i = Len(queue) + 1
    BY <1>1, <2>2
  <2> QED BY <1>1, <2>1, <2>2
<1>3. ItemInv'
  BY <1>1, <1>2 DEF ItemInv
<1>4. ASSUME kind # "commit" PROVE Follows(0)
  <2>1. ASSUME NEW i \in 1..Len(queue'), queue'[i].kind \in {"commit", "turn"}
        PROVE  i + 0 \in 1..Len(queue) /\ queue'[i] = queue[i + 0]
    <3>1. i \in 1..Len(queue) /\ queue'[i] = queue[i] /\ i + 0 = i
      BY <1>1, <1>2, <1>4, <2>1
    <3> QED BY <3>1
  <2>2. ASSUME NEW i \in 1..Len(queue)
        PROVE  i - 0 \in 1..Len(queue') /\ queue'[i - 0] = queue[i]
    <3>1. i - 0 = i /\ i \in 1..Len(queue')
      BY <1>1
    <3> QED BY <1>1, <3>1
  <2> QED BY <2>1, <2>2 DEF Follows
<1> QED BY <1>1, <1>3, <1>4

-----------------------------------------------------------------------------
(* Progress.                                                               *)

USE DEF row, context, tasks, api, counters, Goto

LEMMA ToolGoes ==
  ASSUME Typed, NEW t \in Tool, NEW at \in ToolPc, Goto(t, at),
         at = "committing" => t \in CommitCalls,
         t \in CommitCalls => at \in {"idle", "committing", "done", "error"}
  PROVE  TaskInv' /\ pc' \in [Task -> ToolPc \cup JobPc]
         /\ pc'[t] = at /\ \A u \in Task \ {t} : pc'[u] = pc[u]
<1> t \in Task /\ t # Job /\ Tool \subseteq Task /\ CommitCalls \subseteq Tool /\ Job \in Task
  BY Constants DEF Task, Tool
<1>1. pc \in [Task -> ToolPc \cup JobPc] /\ pc' = [pc EXCEPT ![t] = at]
  BY DEF Typed, TypeOK
<1>2. pc' \in [Task -> ToolPc \cup JobPc] /\ pc'[t] = at
      /\ \A u \in Task \ {t} : pc'[u] = pc[u]
  BY <1>1
<1>3. TaskInv'
  BY <1>2 DEF Typed, TaskInv
<1> QED BY <1>2, <1>3

LEMMA JobGoes ==
  ASSUME Typed, NEW at \in JobPc, Goto(Job, at)
  PROVE  TaskInv' /\ pc' \in [Task -> ToolPc \cup JobPc]
         /\ \A u \in Tool : pc'[u] = pc[u]
<1> Tool \subseteq Task /\ CommitCalls \subseteq Tool /\ Job \in Task /\ Job \notin Tool
  BY Constants DEF Task, Tool
<1>1. pc \in [Task -> ToolPc \cup JobPc] /\ pc' = [pc EXCEPT ![Job] = at]
  BY DEF Typed, TypeOK
<1>2. /\ pc' \in [Task -> ToolPc \cup JobPc] /\ pc'[Job] = at
      /\ \A u \in Tool : pc'[u] = pc[u]
  BY <1>1
<1>3. TaskInv'
  BY <1>2 DEF Typed, TaskInv
<1> QED BY <1>2, <1>3

-----------------------------------------------------------------------------
(* Types.                                                                  *)

LEMMA InitTyped == Init => Typed
<1> SUFFICES ASSUME Init PROVE Typed
  OBVIOUS
<1> USE DEF Init
<1>1. TypeOK
  <2>1. queue \in Seq(ItemType)
    BY EmptySeq
  <2>2. pc \in [Task -> ToolPc \cup JobPc]
    BY DEF ToolPc, JobPc
  <2>3. lock \in Task \cup {NoOne} /\ ack \in [Task -> {"none", "wait", "ok", "error"}]
    OBVIOUS
  <2>4. respond \in [Asks -> [pc : {"idle", "read", "resolved", "done"}, view : SUBSET Item]]
    OBVIOUS
  <2>5. said \in 0..MaxTurns /\ events \in 0..MaxEvents /\ faults \in 0..MaxFaults
    BY Constants
  <2>6. logged \in [Commitments -> Nat]
    OBVIOUS
  <2>7. stored \subseteq Item /\ hot \subseteq Item /\ told \subseteq Commitments
    OBVIOUS
  <2>8. status \in Talkable /\ outcome = NoOutcome /\ ended \in Nat
    BY DEF Talkable
  <2>9. turns \subseteq 1..MaxTurns /\ expiry \in [Asks -> SUBSET Item]
        /\ request \in [Asks -> {"none", "pending", "resolved", "expired"}]
    OBVIOUS
  <2>10. writer \in {"open", "closed", "stopped"} /\ failed \in BOOLEAN
         /\ verdict \in {"complete", "fail"}
    OBVIOUS
  <2> QED BY <2>1, <2>2, <2>3, <2>4, <2>5, <2>6, <2>7, <2>8, <2>9, <2>10 DEF TypeOK
<1>2. TaskInv
  BY Constants DEF TaskInv, Task, Tool, ToolPc, JobPc
<1>3. ItemInv
  BY DEF ItemInv
<1> QED BY <1>1, <1>2, <1>3 DEF Typed

-----------------------------------------------------------------------------
(* The invariant.                                                          *)

Commits == {i \in 1..Len(queue) : queue[i].kind = "commit"}
Turns   == {i \in 1..Len(queue) : queue[i].kind = "turn"}

\* Where a commitment may be: requested by the tool call that holds the lock,
\* in at most one item of the queue; once recorded, answered and then in the
\* hot state, unless the writer has failed.
CommitInv ==
  /\ \A c \in hot \cap Commitments : logged[c] > 0
  /\ \A c \in told : logged[c] > 0
  /\ \A t \in CommitCalls : pc[t] = "committing" =>
       lock = t /\ CommitId[t] \notin hot /\ (ack[t] = "ok" => logged[CommitId[t]] > 0)
  /\ \A i \in Commits : pc[queue[i].by] = "committing" /\ ack[queue[i].by] = "wait"
  /\ \A i, j \in Commits : i = j
  /\ \A c \in Commitments : logged[c] > 0 =>
       \/ c \in hot \/ failed
       \/ \E t \in CommitCalls :
            pc[t] = "committing" /\ ack[t] = "ok" /\ CommitId[t] = c
  /\ \A c \in Commitments : logged[c] <= 1

\* Where a turn may be: in the transcript or, in their order, in the queue,
\* unless the writer has failed.
TurnInv ==
  /\ turns \subseteq 1..said
  /\ \A n \in turns : 1..n \subseteq turns
  /\ \A i, j \in Turns : i < j => queue[i].n < queue[j].n
  /\ \A n \in turns, i \in Turns : n < queue[i].n
  /\ failed \/ \A m \in 1..said : m \in turns \/ \E i \in Turns : queue[i].n = m

Inv == Typed /\ CommitInv /\ TurnInv

\* A step that touches neither commitments nor turns.
Quiet ==
  /\ logged' = logged /\ told' = told /\ turns' = turns /\ said' = said
  /\ failed' = failed /\ hot' \cap Commitments = hot \cap Commitments
  /\ \A t \in CommitCalls :
       /\ pc'[t] = pc[t] \/ "committing" \notin {pc[t], pc'[t]}
       /\ ack'[t] = ack[t]
       /\ lock = t => lock' = t
  /\ Follows(0)

\* What the writer leaves alone, whatever it does with the first item.
LEMMA CommitsFollow ==
  ASSUME Typed, Typed', CommitInv, NEW k \in {0, 1}, Follows(k),
         UNCHANGED <<logged, told>>, hot' \cap Commitments = hot \cap Commitments,
         failed => failed',
         \A t \in CommitCalls : pc'[t] = pc[t] \/ "committing" \notin {pc[t], pc'[t]},
         \A t \in CommitCalls : ack'[t] = ack[t] /\ (lock = t => lock' = t)
  PROVE  CommitInv'
<1> \A t \in CommitCalls : CommitId[t] \in Commitments
  BY Constants
<1> Len(queue) \in Nat /\ Len(queue') \in Nat
  BY LenProperties DEF Typed, TypeOK
<1> told \subseteq Commitments
  BY DEF Typed, TypeOK
<1>1. ASSUME NEW i \in Commits'
      PROVE  i + k \in Commits /\ queue'[i] = queue[i + k] /\ queue[i + k].by \in CommitCalls
  <2>1. i \in 1..Len(queue') /\ queue'[i].kind = "commit"
    BY DEF Commits
  <2>2. i + k \in 1..Len(queue) /\ queue'[i] = queue[i + k]
    BY <2>1 DEF Follows
  <2> QED BY <2>1, <2>2 DEF Commits, Typed, ItemInv
<1>2. \A i \in Commits' : pc'[queue'[i].by] = "committing" /\ ack'[queue'[i].by] = "wait"
  BY <1>1 DEF CommitInv
<1>3. \A i, j \in Commits' : i = j
  <2> SUFFICES ASSUME NEW i \in Commits', NEW j \in Commits' PROVE i = j
    OBVIOUS
  <2>1. i + k = j + k
    BY <1>1 DEF CommitInv
  <2>2. i \in Nat /\ j \in Nat
    BY DEF Commits
  <2> QED BY <2>1, <2>2
<1>4. \A c \in Commitments : logged'[c] > 0 =>
        \/ c \in hot' \/ failed'
        \/ \E t \in CommitCalls :
             pc'[t] = "committing" /\ ack'[t] = "ok" /\ CommitId[t] = c
  BY DEF CommitInv
<1>5. \A t \in CommitCalls : pc'[t] = "committing" =>
        /\ lock' = t /\ CommitId[t] \notin hot'
        /\ ack'[t] = "ok" => logged'[CommitId[t]] > 0
  BY DEF CommitInv
<1>6. /\ \A c \in hot' \cap Commitments : logged'[c] > 0
      /\ \A c \in told' : logged'[c] > 0
      /\ \A c \in Commitments : logged'[c] <= 1
  BY DEF CommitInv
<1> QED BY <1>2, <1>3, <1>4, <1>5, <1>6 DEF CommitInv

LEMMA TurnsFollow ==
  ASSUME Typed, Typed', TurnInv, NEW k \in {0, 1}, Follows(k),
         UNCHANGED <<turns, said>>, failed => failed',
         failed' \/ k = 0 \/ queue[1].kind # "turn"
  PROVE  TurnInv'
<1> Len(queue) \in Nat /\ Len(queue') \in Nat /\ said \in Nat
  BY LenProperties, Constants DEF Typed, TypeOK
<1>1. ASSUME NEW i \in Turns'
      PROVE  i + k \in Turns /\ queue'[i] = queue[i + k] /\ i \in Nat
  <2>1. i \in 1..Len(queue') /\ queue'[i].kind = "turn"
    BY DEF Turns
  <2>2. i + k \in 1..Len(queue) /\ queue'[i] = queue[i + k]
    BY <2>1 DEF Follows
  <2> QED BY <2>1, <2>2 DEF Turns
<1>2. \A i, j \in Turns' : i < j => queue'[i].n < queue'[j].n
  <2> SUFFICES ASSUME NEW i \in Turns', NEW j \in Turns', i < j
               PROVE  queue'[i].n < queue'[j].n
    OBVIOUS
  <2>1. i + k \in Turns /\ j + k \in Turns /\ i + k < j + k
    BY <1>1
  <2>2. queue[i + k].n < queue[j + k].n
    BY <2>1 DEF TurnInv
  <2> QED BY <1>1, <2>2
<1>3. \A n \in turns', i \in Turns' : n < queue'[i].n
  BY <1>1 DEF TurnInv
<1>4. ASSUME ~failed', NEW m \in 1..said, m \notin turns
      PROVE  \E i \in Turns' : queue'[i].n = m
  <2>1. PICK i \in Turns : queue[i].n = m
    BY <1>4 DEF TurnInv
  <2>2. i \in 1..Len(queue) /\ queue[i].kind = "turn" /\ i > k
    BY <1>4 DEF Turns
  <2>3. i - k \in 1..Len(queue') /\ queue'[i - k] = queue[i]
    BY <2>2 DEF Follows
  <2> QED BY <2>1, <2>2, <2>3 DEF Turns
<1>5. turns' \subseteq 1..said' /\ \A n \in turns' : 1..n \subseteq turns'
  BY DEF TurnInv
<1> QED BY <1>2, <1>3, <1>4, <1>5 DEF TurnInv

LEMMA QuietStep ==
  ASSUME Inv, Typed', Quiet
  PROVE  Inv'
<1>1. CommitInv'
  BY CommitsFollow DEF Inv, Quiet
<1>2. TurnInv'
  BY TurnsFollow DEF Inv, Quiet
<1> QED BY <1>1, <1>2 DEF Inv

-----------------------------------------------------------------------------
(* Steps that touch neither commitments nor turns, type by type.           *)

LEMMA ToolQuiet ==
  ASSUME Typed, NEW t \in Tool \ CommitCalls,
         ToolCall(t) \/ ToolStep(t)
  PROVE  Typed' /\ Quiet
<1> USE DEF Typed
<1> /\ t \in Task /\ t # Job /\ NoOne \notin Task /\ CommitCalls \subseteq Task
    /\ {} \in SUBSET Item /\ Commitments \cap (Facts \cup Candidates) = {}
  BY Constants DEF Tool, Task
<1> hot \in SUBSET Item /\ pc[t] # "committing" /\ t \in DOMAIN pc
  BY DEF TypeOK, TaskInv
<1>1. CASE record_fact(t)
  <2>1. queue' \in Seq(ItemType) /\ ItemInv' /\ Follows(0)
    BY <1>1, Submitted DEF record_fact, Submit, Kind, Item
  <2>2. TaskInv' /\ pc' \in [Task -> ToolPc \cup JobPc]
        /\ \A u \in CommitCalls : pc'[u] = pc[u]
    BY <1>1, ToolGoes DEF record_fact, ToolPc
  <2>3. TypeOK'
    BY <1>1, <2>1, <2>2 DEF record_fact, TypeOK, Item
  <2>4. Quiet
    BY <1>1, <2>1, <2>2 DEF record_fact, Quiet, TypeOK
  <2> QED BY <2>1, <2>2, <2>3, <2>4
<1>2. CASE propose_candidate(t)
  <2>1. queue' \in Seq(ItemType) /\ ItemInv' /\ Follows(0)
    BY <1>2, Submitted DEF propose_candidate, Submit, Kind, Item
  <2>2. TaskInv' /\ pc' \in [Task -> ToolPc \cup JobPc]
        /\ \A u \in CommitCalls : pc'[u] = pc[u]
    BY <1>2, ToolGoes DEF propose_candidate, ToolPc
  <2>3. TypeOK'
    BY <1>2, <2>1, <2>2 DEF propose_candidate, TypeOK, Item
  <2>4. Quiet
    BY <1>2, <2>1, <2>2 DEF propose_candidate, Quiet, TypeOK
  <2> QED BY <2>1, <2>2, <2>3, <2>4
<1>3. CASE PolicyRaises(t)
  <2>1. queue' \in Seq(ItemType) /\ ItemInv' /\ Follows(0)
    BY <1>3, Untouched DEF PolicyRaises
  <2>2. TaskInv' /\ pc' \in [Task -> ToolPc \cup JobPc]
        /\ \A u \in CommitCalls : pc'[u] = pc[u]
    BY <1>3, ToolGoes DEF PolicyRaises, ToolPc
  <2>3. TypeOK'
    BY <1>3, <2>1, <2>2 DEF PolicyRaises, TypeOK
  <2>4. Quiet
    BY <1>3, <2>1, <2>2 DEF PolicyRaises, Quiet, TypeOK
  <2> QED BY <2>1, <2>2, <2>3, <2>4
<1>4. CASE finish_call(t)
  <2>1. queue' \in Seq(ItemType) /\ ItemInv' /\ Follows(0)
    BY <1>4, Submitted DEF finish_call, SubmitAndWait, Kind
  <2>2. TaskInv' /\ pc' \in [Task -> ToolPc \cup JobPc]
        /\ \A u \in CommitCalls : pc'[u] = pc[u]
    BY <1>4, ToolGoes DEF finish_call, ToolPc
  <2>3. TypeOK'
    BY <1>4, <2>1, <2>2 DEF finish_call, SubmitAndWait, Acquire, TypeOK
  <2>4. Quiet
    BY <1>4, <2>1, <2>2 DEF finish_call, SubmitAndWait, Acquire, Quiet, TypeOK
  <2> QED BY <2>1, <2>2, <2>3, <2>4
<1>5. CASE cold_transfer(t)
  <2>1. queue' \in Seq(ItemType) /\ ItemInv' /\ Follows(0)
    BY <1>5, Submitted DEF cold_transfer, SubmitAndWait, Kind
  <2>2. TaskInv' /\ pc' \in [Task -> ToolPc \cup JobPc]
        /\ \A u \in CommitCalls : pc'[u] = pc[u]
    BY <1>5, ToolGoes DEF cold_transfer, ToolPc
  <2>3. TypeOK'
    BY <1>5, <2>1, <2>2 DEF cold_transfer, SubmitAndWait, Acquire, TypeOK
  <2>4. Quiet
    BY <1>5, <2>1, <2>2 DEF cold_transfer, SubmitAndWait, Acquire, Quiet, TypeOK
  <2> QED BY <2>1, <2>2, <2>3, <2>4
<1>6. CASE request_user_input(t)
  <2>1. queue' \in Seq(ItemType) /\ ItemInv' /\ Follows(0)
    BY <1>6, Submitted DEF request_user_input, SubmitAndWait, Kind
  <2>2. TaskInv' /\ pc' \in [Task -> ToolPc \cup JobPc]
        /\ \A u \in CommitCalls : pc'[u] = pc[u]
    BY <1>6, ToolGoes DEF request_user_input, ToolPc
  <2>3. TypeOK'
    BY <1>6, <2>1, <2>2 DEF request_user_input, SubmitAndWait, Acquire, TypeOK
  <2>4. Quiet
    BY <1>6, <2>1, <2>2 DEF request_user_input, SubmitAndWait, Acquire, Quiet, TypeOK
  <2> QED BY <2>1, <2>2, <2>3, <2>4
<1>7. CASE Finished(t)
  <2>1. queue' \in Seq(ItemType) /\ ItemInv' /\ Follows(0)
    BY <1>7, Untouched DEF Finished
  <2>2. TaskInv' /\ pc' \in [Task -> ToolPc \cup JobPc]
        /\ \A u \in CommitCalls : pc'[u] = pc[u]
    BY <1>7, ToolGoes DEF Finished, ToolPc
  <2>3. TypeOK'
    BY <1>7, <2>1, <2>2 DEF Finished, Release, Answered, TypeOK
  <2>4. Quiet
    BY <1>7, <2>1, <2>2 DEF Finished, Release, Answered, Quiet, TypeOK
  <2> QED BY <2>1, <2>2, <2>3, <2>4
<1>8. CASE TransferRequested(t)
  <2>1. queue' \in Seq(ItemType) /\ ItemInv' /\ Follows(0)
    BY <1>8, Untouched DEF TransferRequested
  <2>2. TaskInv' /\ pc' \in [Task -> ToolPc \cup JobPc]
        /\ \A u \in CommitCalls : pc'[u] = pc[u]
    BY <1>8, ToolGoes DEF TransferRequested, ToolPc
  <2>3. TypeOK'
    BY <1>8, <2>1, <2>2 DEF TransferRequested, Release, Answered, TypeOK
  <2>4. Quiet
    BY <1>8, <2>1, <2>2 DEF TransferRequested, Release, Answered, Quiet, TypeOK
  <2> QED BY <2>1, <2>2, <2>3, <2>4
<1>9. CASE TransferResult(t)
  <2>1. queue' \in Seq(ItemType) /\ ItemInv' /\ Follows(0)
    BY <1>9, Submitted DEF TransferResult, SubmitAndWait, Kind
  <2>2. TaskInv' /\ pc' \in [Task -> ToolPc \cup JobPc]
        /\ \A u \in CommitCalls : pc'[u] = pc[u]
    BY <1>9, ToolGoes DEF TransferResult, ToolPc
  <2>3. TypeOK'
    BY <1>9, <2>1, <2>2 DEF TransferResult, SubmitAndWait, Acquire, TypeOK
  <2>4. Quiet
    BY <1>9, <2>1, <2>2 DEF TransferResult, SubmitAndWait, Acquire, Quiet, TypeOK
  <2> QED BY <2>1, <2>2, <2>3, <2>4
<1>10. CASE TransferFailed(t)
  <2>1. queue' \in Seq(ItemType) /\ ItemInv' /\ Follows(0)
    BY <1>10, Untouched DEF TransferFailed
  <2>2. TaskInv' /\ pc' \in [Task -> ToolPc \cup JobPc]
        /\ \A u \in CommitCalls : pc'[u] = pc[u]
    BY <1>10, ToolGoes DEF TransferFailed, ToolPc
  <2>3. TypeOK'
    BY <1>10, <2>1, <2>2 DEF TransferFailed, Release, Answered, TypeOK
  <2>4. Quiet
    BY <1>10, <2>1, <2>2 DEF TransferFailed, Release, Answered, Quiet, TypeOK
  <2> QED BY <2>1, <2>2, <2>3, <2>4
<1>11. CASE TransferSucceeded(t)
  <2>1. queue' \in Seq(ItemType) /\ ItemInv' /\ Follows(0)
    BY <1>11, Submitted DEF TransferSucceeded, SubmitAndWait, Kind
  <2>2. TaskInv' /\ pc' \in [Task -> ToolPc \cup JobPc]
        /\ \A u \in CommitCalls : pc'[u] = pc[u]
    BY <1>11, ToolGoes DEF TransferSucceeded, ToolPc
  <2>3. TypeOK'
    BY <1>11, <2>1, <2>2 DEF TransferSucceeded, SubmitAndWait, Release, TypeOK
  <2>4. Quiet
    BY <1>11, <2>1, <2>2 DEF TransferSucceeded, SubmitAndWait, Release, Quiet, TypeOK
  <2> QED BY <2>1, <2>2, <2>3, <2>4
<1>12. CASE ToolError(t)
  <2>1. queue' \in Seq(ItemType) /\ ItemInv' /\ Follows(0)
    BY <1>12, Untouched DEF ToolError
  <2>2. TaskInv' /\ pc' \in [Task -> ToolPc \cup JobPc]
        /\ \A u \in CommitCalls : pc'[u] = pc[u]
    BY <1>12, ToolGoes DEF ToolError, ToolPc
  <2>3. TypeOK'
    BY <1>12, <2>1, <2>2 DEF ToolError, Release, Answered, TypeOK
  <2>4. Quiet
    BY <1>12, <2>1, <2>2 DEF ToolError, Release, Answered, Quiet, TypeOK
  <2> QED BY <2>1, <2>2, <2>3, <2>4
<1>13. CASE RequestInput(t)
  <2>1. queue' \in Seq(ItemType) /\ ItemInv' /\ Follows(0)
    BY <1>13, Untouched DEF RequestInput
  <2>2. TaskInv' /\ pc' \in [Task -> ToolPc \cup JobPc]
        /\ \A u \in CommitCalls : pc'[u] = pc[u]
    BY <1>13, ToolGoes DEF RequestInput, ToolPc
  <2>3. TypeOK'
    BY <1>13, <2>1, <2>2 DEF RequestInput, Release, Answered, TypeOK, Talkable
  <2>4. Quiet
    BY <1>13, <2>1, <2>2 DEF RequestInput, Release, Answered, Quiet, TypeOK
  <2> QED BY <2>1, <2>2, <2>3, <2>4
<1>14. CASE PollResolved(t)
  <2>1. queue' \in Seq(ItemType) /\ ItemInv' /\ Follows(0)
    BY <1>14, Untouched DEF PollResolved
  <2>2. TaskInv' /\ pc' \in [Task -> ToolPc \cup JobPc]
        /\ \A u \in CommitCalls : pc'[u] = pc[u]
    BY <1>14, ToolGoes DEF PollResolved, ToolPc
  <2>3. TypeOK'
    BY <1>14, <2>1, <2>2 DEF PollResolved, TypeOK
  <2>4. Quiet
    BY <1>14, <2>1, <2>2 DEF PollResolved, Quiet, TypeOK
  <2> QED BY <2>1, <2>2, <2>3, <2>4
<1>15. CASE PollExpired(t)
  <2>1. queue' \in Seq(ItemType) /\ ItemInv' /\ Follows(0)
    BY <1>15, Untouched DEF PollExpired
  <2>2. TaskInv' /\ pc' \in [Task -> ToolPc \cup JobPc]
        /\ \A u \in CommitCalls : pc'[u] = pc[u]
    BY <1>15, ToolGoes DEF PollExpired, ToolPc
  <2>3. TypeOK'
    BY <1>15, <2>1, <2>2 DEF PollExpired, TypeOK, Talkable
  <2>4. Quiet
    BY <1>15, <2>1, <2>2 DEF PollExpired, Quiet, TypeOK
  <2> QED BY <2>1, <2>2, <2>3, <2>4
<1>16. CASE ExpireInput(t)
  <2>1. queue' \in Seq(ItemType) /\ ItemInv' /\ Follows(0)
    BY <1>16, Untouched DEF ExpireInput
  <2>2. TaskInv' /\ pc' \in [Task -> ToolPc \cup JobPc]
        /\ \A u \in CommitCalls : pc'[u] = pc[u]
    BY <1>16, ToolGoes DEF ExpireInput, ToolPc
  <2>3. TypeOK'
    BY <1>16, <2>1, <2>2 DEF ExpireInput, TypeOK, Talkable
  <2>4. Quiet
    BY <1>16, <2>1, <2>2 DEF ExpireInput, Quiet, TypeOK
  <2> QED BY <2>1, <2>2, <2>3, <2>4
<1>17. CASE Resume(t)
  <2>1. queue' \in Seq(ItemType) /\ ItemInv' /\ Follows(0)
    BY <1>17, Untouched DEF Resume
  <2>2. TaskInv' /\ pc' \in [Task -> ToolPc \cup JobPc]
        /\ \A u \in CommitCalls : pc'[u] = pc[u]
    BY <1>17, ToolGoes DEF Resume, ToolPc
  <2>3. TypeOK'
    BY <1>17, <2>1, <2>2 DEF Resume, TypeOK
  <2>4. Quiet
    BY <1>17, <2>1, <2>2 DEF Resume, Quiet, TypeOK
  <2> QED BY <2>1, <2>2, <2>3, <2>4
<1>18. ~Authorize(t) /\ ~Replay(t) /\ ~Committed(t)
  BY DEF Authorize, Replay, Committed
<1> QED BY <1>1, <1>2, <1>3, <1>4, <1>5, <1>6, <1>7, <1>8, <1>9, <1>10, <1>11, <1>12,
           <1>13, <1>14, <1>15, <1>16, <1>17, <1>18 DEF ToolCall, ToolStep

LEMMA JobQuiet ==
  ASSUME Typed, CallEnds \/ WatchdogGivesUp \/ FinishAmd \/ JobFault \/ ShutDown
  PROVE  Typed' /\ Quiet
<1> USE DEF Typed
<1> /\ Job \in Task /\ Job \notin CommitCalls /\ NoOne \notin Task /\ CommitCalls \subseteq Task
    /\ CommitCalls \subseteq Tool /\ {} \in SUBSET Item
  BY Constants DEF Tool, Task
<1> hot \in SUBSET Item
  BY DEF TypeOK
<1>1. CASE CallEnds
  <2>1. queue' \in Seq(ItemType) /\ ItemInv' /\ Follows(0)
    BY <1>1, Untouched DEF CallEnds
  <2>2. TaskInv' /\ pc' \in [Task -> ToolPc \cup JobPc]
        /\ \A u \in CommitCalls : pc'[u] = pc[u]
    BY <1>1, JobGoes DEF CallEnds, JobPc
  <2>3. TypeOK'
    BY <1>1, <2>1, <2>2 DEF CallEnds, TypeOK
  <2>4. Quiet
    BY <1>1, <2>1, <2>2 DEF CallEnds, Quiet, TypeOK
  <2> QED BY <2>1, <2>2, <2>3, <2>4
<1>2. CASE WatchdogGivesUp
  <2>1. queue' \in Seq(ItemType) /\ ItemInv' /\ Follows(0)
    BY <1>2, Untouched DEF WatchdogGivesUp
  <2>2. TaskInv' /\ pc' \in [Task -> ToolPc \cup JobPc]
        /\ \A u \in CommitCalls : pc'[u] = pc[u]
    BY <1>2, JobGoes DEF WatchdogGivesUp, JobPc
  <2>3. TypeOK'
    BY <1>2, <2>1, <2>2 DEF WatchdogGivesUp, TypeOK
  <2>4. Quiet
    BY <1>2, <2>1, <2>2 DEF WatchdogGivesUp, Quiet, TypeOK
  <2> QED BY <2>1, <2>2, <2>3, <2>4
<1>3. CASE FinishAmd
  <2>1. queue' \in Seq(ItemType) /\ ItemInv' /\ Follows(0)
    BY <1>3, Submitted DEF FinishAmd, SubmitAndWait, Kind
  <2>2. TaskInv' /\ pc' \in [Task -> ToolPc \cup JobPc]
        /\ \A u \in CommitCalls : pc'[u] = pc[u]
    BY <1>3, JobGoes DEF FinishAmd, JobPc
  <2>3. TypeOK'
    BY <1>3, <2>1, <2>2 DEF FinishAmd, SubmitAndWait, TypeOK
  <2>4. Quiet
    BY <1>3, <2>1, <2>2 DEF FinishAmd, SubmitAndWait, Quiet, TypeOK
  <2> QED BY <2>1, <2>2, <2>3, <2>4
<1>4. CASE JobFault
  <2>1. queue' \in Seq(ItemType) /\ ItemInv' /\ Follows(0)
    BY <1>4, Untouched DEF JobFault
  <2>2. TaskInv' /\ pc' \in [Task -> ToolPc \cup JobPc]
        /\ \A u \in CommitCalls : pc'[u] = pc[u]
    BY <1>4, JobGoes DEF JobFault, JobPc
  <2>3. TypeOK'
    BY <1>4, <2>1, <2>2 DEF JobFault, TypeOK
  <2>4. Quiet
    BY <1>4, <2>1, <2>2 DEF JobFault, Quiet, TypeOK
  <2> QED BY <2>1, <2>2, <2>3, <2>4
<1>5. CASE FinishedAmd
  <2>1. queue' \in Seq(ItemType) /\ ItemInv' /\ Follows(0)
    BY <1>5, Untouched DEF FinishedAmd
  <2>2. TaskInv' /\ pc' \in [Task -> ToolPc \cup JobPc]
        /\ \A u \in CommitCalls : pc'[u] = pc[u]
    BY <1>5, JobGoes DEF FinishedAmd, JobPc
  <2>3. TypeOK'
    BY <1>5, <2>1, <2>2 DEF FinishedAmd, Answered, TypeOK
  <2>4. Quiet
    BY <1>5, <2>1, <2>2 DEF FinishedAmd, Answered, Quiet, TypeOK
  <2> QED BY <2>1, <2>2, <2>3, <2>4
<1>6. CASE Report
  <2>1. queue' \in Seq(ItemType) /\ ItemInv' /\ Follows(0)
    BY <1>6, Submitted DEF Report, SubmitAndWait, Kind
  <2>2. TaskInv' /\ pc' \in [Task -> ToolPc \cup JobPc]
        /\ \A u \in CommitCalls : pc'[u] = pc[u]
    BY <1>6, JobGoes DEF Report, JobPc
  <2>3. TypeOK'
    BY <1>6, <2>1, <2>2 DEF Report, SubmitAndWait, Acquire, TypeOK
  <2>4. Quiet
    BY <1>6, <2>1, <2>2 DEF Report, SubmitAndWait, Acquire, Quiet, TypeOK
  <2> QED BY <2>1, <2>2, <2>3, <2>4
<1>7. CASE Reported
  <2>1. queue' \in Seq(ItemType) /\ ItemInv' /\ Follows(0)
    BY <1>7, Submitted DEF Reported, SubmitAndWait, Kind
  <2>2. TaskInv' /\ pc' \in [Task -> ToolPc \cup JobPc]
        /\ \A u \in CommitCalls : pc'[u] = pc[u]
    BY <1>7, JobGoes DEF Reported, JobPc
  <2>3. TypeOK'
    BY <1>7, <2>1, <2>2 DEF Reported, SubmitAndWait, Release, TypeOK
  <2>4. Quiet
    BY <1>7, <2>1, <2>2 DEF Reported, SubmitAndWait, Release, Quiet, TypeOK
  <2> QED BY <2>1, <2>2, <2>3, <2>4
<1>8. CASE ReportRaises
  <2>1. queue' \in Seq(ItemType) /\ ItemInv' /\ Follows(0)
    BY <1>8, Untouched DEF ReportRaises
  <2>2. TaskInv' /\ pc' \in [Task -> ToolPc \cup JobPc]
        /\ \A u \in CommitCalls : pc'[u] = pc[u]
    BY <1>8, JobGoes DEF ReportRaises, JobPc
  <2>3. TypeOK'
    BY <1>8, <2>1, <2>2 DEF ReportRaises, Release, Answered, TypeOK
  <2>4. Quiet
    BY <1>8, <2>1, <2>2 DEF ReportRaises, Release, Answered, Quiet, TypeOK
  <2> QED BY <2>1, <2>2, <2>3, <2>4
<1>9. CASE Unwind
  <2>1. queue' \in Seq(ItemType) /\ ItemInv' /\ Follows(0)
    BY <1>9, Submitted DEF Unwind, SubmitAndWait, Kind
  <2>2. TaskInv' /\ pc' \in [Task -> ToolPc \cup JobPc]
        /\ \A u \in CommitCalls : pc'[u] = pc[u]
    BY <1>9, JobGoes DEF Unwind, JobPc
  <2>3. TypeOK'
    BY <1>9, <2>1, <2>2 DEF Unwind, SubmitAndWait, TypeOK
  <2>4. Quiet
    BY <1>9, <2>1, <2>2 DEF Unwind, SubmitAndWait, Quiet, TypeOK
  <2> QED BY <2>1, <2>2, <2>3, <2>4
<1>10. CASE Close
  <2>1. queue' \in Seq(ItemType) /\ ItemInv' /\ Follows(0)
    BY <1>10, Untouched DEF Close
  <2>2. TaskInv' /\ pc' \in [Task -> ToolPc \cup JobPc]
        /\ \A u \in CommitCalls : pc'[u] = pc[u]
    BY <1>10, JobGoes DEF Close, JobPc
  <2>3. TypeOK'
    BY <1>10, <2>1, <2>2 DEF Close, Answered, TypeOK
  <2>4. Quiet
    BY <1>10, <2>1, <2>2 DEF Close, Answered, Quiet, TypeOK
  <2> QED BY <2>1, <2>2, <2>3, <2>4
<1>11. CASE Closed
  <2>1. queue' \in Seq(ItemType) /\ ItemInv' /\ Follows(0)
    BY <1>11, Untouched DEF Closed
  <2>2. TaskInv' /\ pc' \in [Task -> ToolPc \cup JobPc]
        /\ \A u \in CommitCalls : pc'[u] = pc[u]
    BY <1>11, JobGoes DEF Closed, JobPc
  <2>3. TypeOK'
    BY <1>11, <2>1, <2>2 DEF Closed, TypeOK
  <2>4. Quiet
    BY <1>11, <2>1, <2>2 DEF Closed, Quiet, TypeOK
  <2> QED BY <2>1, <2>2, <2>3, <2>4
<1>12. CASE Complete
  <2>1. queue' \in Seq(ItemType) /\ ItemInv' /\ Follows(0)
    BY <1>12, Untouched DEF Complete
  <2>2. TaskInv' /\ pc' \in [Task -> ToolPc \cup JobPc]
        /\ \A u \in CommitCalls : pc'[u] = pc[u]
    BY <1>12, JobGoes DEF Complete, JobPc
  <2>3. TypeOK'
    BY <1>12, <2>1, <2>2 DEF Complete, TypeOK, Talkable, Terminal
  <2>4. Quiet
    BY <1>12, <2>1, <2>2 DEF Complete, Quiet, TypeOK
  <2> QED BY <2>1, <2>2, <2>3, <2>4
<1>13. CASE Completed
  <2>1. queue' \in Seq(ItemType) /\ ItemInv' /\ Follows(0)
    BY <1>13, Untouched DEF Completed
  <2>2. TaskInv' /\ pc' \in [Task -> ToolPc \cup JobPc]
        /\ \A u \in CommitCalls : pc'[u] = pc[u]
    BY <1>13, JobGoes DEF Completed, JobPc
  <2>3. TypeOK'
    BY <1>13, <2>1, <2>2 DEF Completed, TypeOK, Talkable, Terminal
  <2>4. Quiet
    BY <1>13, <2>1, <2>2 DEF Completed, Quiet, TypeOK
  <2> QED BY <2>1, <2>2, <2>3, <2>4
<1>14. CASE Fail
  <2>1. queue' \in Seq(ItemType) /\ ItemInv' /\ Follows(0)
    BY <1>14, Untouched DEF Fail
  <2>2. TaskInv' /\ pc' \in [Task -> ToolPc \cup JobPc]
        /\ \A u \in CommitCalls : pc'[u] = pc[u]
    BY <1>14, JobGoes DEF Fail, JobPc
  <2>3. TypeOK'
    BY <1>14, <2>1, <2>2 DEF Fail, TypeOK, Talkable, Terminal
  <2>4. Quiet
    BY <1>14, <2>1, <2>2 DEF Fail, Quiet, TypeOK
  <2> QED BY <2>1, <2>2, <2>3, <2>4
<1> QED BY <1>1, <1>2, <1>3, <1>4, <1>5, <1>6, <1>7, <1>8, <1>9, <1>10, <1>11, <1>12,
           <1>13, <1>14 DEF ShutDown

LEMMA ApiQuiet ==
  ASSUME Typed, Cancel \/ Event \/ Stop \/ UNCHANGED vars \/ \E a \in Asks : Respond(a)
  PROVE  Typed' /\ Quiet
<1> USE DEF Typed
<1> /\ NoOne \notin Task /\ CommitCalls \subseteq Task /\ {} \in SUBSET Item
    /\ MaxEvents \in Nat
  BY Constants DEF Tool, Task
<1>1. CASE Cancel
  <2>1. queue' \in Seq(ItemType) /\ ItemInv' /\ Follows(0)
    BY <1>1, Untouched DEF Cancel
  <2>2. TypeOK'
    BY <1>1, <2>1 DEF Cancel, TypeOK, Terminal, Talkable
  <2>3. TaskInv' /\ Quiet
    BY <1>1, <2>1 DEF Cancel, TaskInv, Quiet
  <2> QED BY <2>1, <2>2, <2>3
<1>2. CASE Event
  <2>1. queue' \in Seq(ItemType) /\ ItemInv' /\ Follows(0)
    BY <1>2, Submitted DEF Event, Submit, Kind
  <2>2. TypeOK'
    BY <1>2, <2>1 DEF Event, TypeOK
  <2>3. TaskInv' /\ Quiet
    BY <1>2, <2>1 DEF Event, TaskInv, Quiet
  <2> QED BY <2>1, <2>2, <2>3
<1>3. CASE Stop
  <2>1. queue' \in Seq(ItemType) /\ ItemInv' /\ Follows(0)
    BY <1>3, Untouched DEF Stop
  <2>2. TypeOK'
    BY <1>3, <2>1 DEF Stop, TypeOK
  <2>3. TaskInv' /\ Quiet
    BY <1>3, <2>1 DEF Stop, TaskInv, Quiet
  <2> QED BY <2>1, <2>2, <2>3
<1>4. CASE UNCHANGED vars
  <2>1. queue' \in Seq(ItemType) /\ ItemInv' /\ Follows(0)
    BY <1>4, Untouched DEF vars
  <2>2. TypeOK'
    BY <1>4, <2>1 DEF vars, TypeOK, Terminal, Talkable
  <2>3. TaskInv' /\ Quiet
    BY <1>4, <2>1 DEF vars, TaskInv, Quiet
  <2> QED BY <2>1, <2>2, <2>3
<1>5. ASSUME NEW a \in Asks, RespondRead(a) PROVE Typed' /\ Quiet
  <2>1. queue' \in Seq(ItemType) /\ ItemInv' /\ Follows(0)
    BY <1>5, Untouched DEF RespondRead
  <2>2. TypeOK'
    BY <1>5, <2>1 DEF RespondRead, TypeOK
  <2>3. TaskInv' /\ Quiet
    BY <1>5, <2>1 DEF RespondRead, TaskInv, Quiet
  <2> QED BY <2>1, <2>2, <2>3
<1>6. ASSUME NEW a \in Asks, RespondResolve(a) PROVE Typed' /\ Quiet
  <2>1. queue' \in Seq(ItemType) /\ ItemInv' /\ Follows(0)
    BY <1>6, Untouched DEF RespondResolve
  <2>2. TypeOK'
    BY <1>6, <2>1 DEF RespondResolve, TypeOK
  <2>3. TaskInv' /\ Quiet
    BY <1>6, <2>1 DEF RespondResolve, TaskInv, Quiet
  <2> QED BY <2>1, <2>2, <2>3
<1>7. ASSUME NEW a \in Asks, RespondUpdate(a) PROVE Typed' /\ Quiet
  <2>1. queue' \in Seq(ItemType) /\ ItemInv' /\ Follows(0)
    BY <1>7, Untouched DEF RespondUpdate
  <2>2. TypeOK'
    BY <1>7, <2>1 DEF RespondUpdate, TypeOK, Terminal, Talkable
  <2>3. TaskInv' /\ Quiet
    BY <1>7, <2>1 DEF RespondUpdate, TaskInv, Quiet
  <2> QED BY <2>1, <2>2, <2>3
<1> QED BY <1>1, <1>2, <1>3, <1>4, <1>5, <1>6, <1>7 DEF Respond

-----------------------------------------------------------------------------
(* Calls of authorize_commit.                                              *)

LEMMA AuthorizePuts ==
  ASSUME Typed, NEW t \in CommitCalls, Authorize(t)
  PROVE  /\ Len(queue') = Len(queue) + 1 /\ Len(queue) \in Nat
         /\ queue'[Len(queue) + 1] =
              [kind |-> "commit", state |-> hot \cup {CommitId[t]}, by |-> t, n |-> 0]
         /\ \A i \in 1..Len(queue) : queue'[i] = queue[i]
<1>1. t \in Task \cup {NoOne} /\ CommitId[t] \in Item /\ MaxTurns \in Nat
  BY Constants DEF Tool, Task, Item
<1>2. hot \cup {CommitId[t]} \in SUBSET Item /\ "commit" \in Kind /\ 0 \in 0..MaxTurns
  BY <1>1 DEF Typed, TypeOK, Kind
<1>3. Len(queue) \in Nat
  BY LenProperties DEF Typed, TypeOK
<1>4. Put("commit", hot \cup {CommitId[t]}, t, 0)
  BY DEF Authorize, SubmitAndWait
<1>5. TypeOK
  BY DEF Typed
<1> QED BY <1>1, <1>2, <1>3, <1>4, <1>5, PutLast

LEMMA AuthorizeStep ==
  ASSUME Inv, NEW t \in CommitCalls, Authorize(t)
  PROVE  Inv'
<1> USE DEF Inv, Typed
<1> /\ t \in Tool /\ t \in Task /\ t # Job /\ CommitId[t] \in Commitments /\ CommitId[t] \in Item
    /\ CommitCalls \subseteq Task /\ NoOne \notin Task
  BY Constants DEF Tool, Task, Item
<1>1. hot \cup {CommitId[t]} \in SUBSET Item /\ "commit" \in Kind /\ MaxTurns \in Nat
  BY Constants DEF TypeOK, Kind
<1>2. queue' \in Seq(ItemType) /\ ItemInv'
  BY <1>1, Submitted DEF Authorize, SubmitAndWait
<1>3. /\ TaskInv' /\ pc' \in [Task -> ToolPc \cup JobPc]
      /\ pc'[t] = "committing" /\ \A u \in Task \ {t} : pc'[u] = pc[u]
  BY ToolGoes DEF Authorize, ToolPc
<1>4. TypeOK'
  BY <1>2, <1>3 DEF Authorize, SubmitAndWait, Acquire, TypeOK
<1>5. /\ Len(queue') = Len(queue) + 1 /\ Len(queue) \in Nat
      /\ queue'[Len(queue) + 1] =
           [kind |-> "commit", state |-> hot \cup {CommitId[t]}, by |-> t, n |-> 0]
      /\ \A i \in 1..Len(queue) : queue'[i] = queue[i]
  BY AuthorizePuts
<1>6. ack'[t] = "wait" /\ \A u \in Task \ {t} : ack'[u] = ack[u]
  BY DEF Authorize, SubmitAndWait, TypeOK
<1>7. \A u \in CommitCalls : pc[u] # "committing"
  BY DEF CommitInv, Authorize, Acquire
<1>8. Commits = {}
  BY <1>7 DEF CommitInv, ItemInv, Commits
<1>9. Commits' = {Len(queue) + 1}
  <2>1. ASSUME NEW i \in Commits' PROVE i = Len(queue) + 1
    <3>1. i \in 1..Len(queue') /\ queue'[i].kind = "commit"
      BY DEF Commits
    <3>2. i \notin 1..Len(queue)
      BY <1>5, <1>8, <3>1 DEF Commits
    <3> QED BY <1>5, <3>1, <3>2
  <2>2. Len(queue) + 1 \in Commits'
    BY <1>5 DEF Commits
  <2> QED BY <2>1, <2>2
<1>10. CommitInv'
  <2>1. /\ \A i \in Commits' : pc'[queue'[i].by] = "committing"
             /\ ack'[queue'[i].by] = "wait"
        /\ \A i, j \in Commits' : i = j
    BY <1>3, <1>5, <1>6, <1>9
  <2>2. \A u \in CommitCalls : pc'[u] = "committing" =>
          /\ lock' = u /\ CommitId[u] \notin hot'
          /\ ack'[u] = "ok" => logged'[CommitId[u]] > 0
    BY <1>3, <1>6, <1>7 DEF Authorize, Acquire
  <2>3. \A c \in Commitments : logged'[c] > 0 => c \in hot' \/ failed'
    BY <1>7 DEF CommitInv, Authorize
  <2>4. /\ \A c \in hot' \cap Commitments : logged'[c] > 0
        /\ \A c \in told' : logged'[c] > 0
        /\ \A c \in Commitments : logged'[c] <= 1
    BY DEF CommitInv, Authorize
  <2> QED BY <2>1, <2>2, <2>3, <2>4 DEF CommitInv
<1>11. Turns' = Turns
  <2>1. ASSUME NEW i \in 1..Len(queue'), queue'[i].kind = "turn" PROVE i \in 1..Len(queue)
    BY <1>5, <2>1
  <2> QED BY <1>5, <2>1 DEF Turns
<1>12. TurnInv'
  BY <1>5, <1>11 DEF TurnInv, Authorize, Turns
<1> QED BY <1>2, <1>3, <1>4, <1>10, <1>12

LEMMA ReplayStep ==
  ASSUME Inv, NEW t \in CommitCalls, Replay(t) \/ Committed(t)
  PROVE  Inv'
<1> USE DEF Inv, Typed
<1> /\ t \in Tool /\ t \in Task /\ t # Job /\ CommitId[t] \in Commitments /\ CommitId[t] \in Item
    /\ CommitCalls \subseteq Task /\ CommitCalls \subseteq Tool
  BY Constants DEF Tool, Task, Item
<1>1. /\ TaskInv' /\ pc' \in [Task -> ToolPc \cup JobPc]
      /\ pc'[t] = "done" /\ \A u \in Task \ {t} : pc'[u] = pc[u]
  BY ToolGoes DEF Replay, Committed, ToolPc
<1>2. queue' \in Seq(ItemType) /\ ItemInv' /\ Follows(0)
  BY Untouched DEF Replay, Committed
<1>3. logged[CommitId[t]] > 0
  BY DEF Replay, Committed, Answered, CommitInv
<1>4. TypeOK'
  <2>1. CASE Replay(t)
    BY <1>1, <1>2, <2>1 DEF Replay, Tells, TypeOK
  <2>2. CASE Committed(t)
    BY <1>1, <1>2, <2>2 DEF Committed, Tells, Answered, Release, TypeOK
  <2> QED BY <2>1, <2>2
<1>5. \A c \in told' : logged'[c] > 0
  BY <1>3 DEF Replay, Committed, Tells, CommitInv
<1>6. CommitInv'
  <2>1. CASE Replay(t)
    <3>1. \A i \in Commits : queue[i].by # t
      BY <2>1 DEF CommitInv, Replay, Callable
    <3>2. Commits' = Commits /\ queue' = queue
      BY <2>1 DEF Replay, Commits
    <3>3. \A i \in Commits : queue[i].by \in CommitCalls
      BY DEF Commits, ItemInv
    <3> QED BY <1>1, <1>5, <2>1, <3>1, <3>2, <3>3 DEF CommitInv, Replay, Callable
  <2>2. CASE Committed(t)
    <3>1. \A u \in CommitCalls : pc[u] = "committing" => u = t
      BY <2>2 DEF CommitInv, Committed
    <3>2. \A i \in Commits : queue[i].by \in CommitCalls
      BY DEF Commits, ItemInv
    <3>3. Commits = {}
      BY <2>2, <3>1, <3>2 DEF CommitInv, Committed, Answered
    <3>4. Commits' = Commits /\ hot' = hot \cup {CommitId[t]} /\ logged' = logged
      BY <2>2 DEF Committed, Commits
    <3>5. \A u \in CommitCalls : pc'[u] # "committing"
      BY <1>1, <3>1
    <3>6. \A c \in Commitments : logged'[c] > 0 => c \in hot' \/ failed'
      BY <2>2, <3>1, <3>4 DEF CommitInv, Committed
    <3> QED BY <1>3, <1>5, <3>3, <3>4, <3>5, <3>6 DEF CommitInv
  <2> QED BY <2>1, <2>2
<1>7. turns' = turns /\ said' = said /\ failed' = failed
  BY DEF Replay, Committed
<1>8. TurnInv'
  BY <1>1, <1>2, <1>4, <1>7, TurnsFollow
<1> QED BY <1>1, <1>2, <1>4, <1>6, <1>8

LEMMA CommitErrorStep ==
  ASSUME Inv, NEW t \in CommitCalls, ToolError(t) \/ PolicyRaises(t)
  PROVE  Inv'
<1> USE DEF Inv, Typed
<1> /\ t \in Tool /\ t \in Task /\ t # Job /\ CommitId[t] \in Commitments /\ CommitId[t] \in Item
    /\ CommitCalls \subseteq Task /\ CommitCalls \subseteq Tool /\ NoOne \notin Task
  BY Constants DEF Tool, Task, Item
<1>1. /\ TaskInv' /\ pc' \in [Task -> ToolPc \cup JobPc]
      /\ pc'[t] \in {"done", "error"} /\ \A u \in Task \ {t} : pc'[u] = pc[u]
  <2>1. CASE ToolError(t)
    BY <2>1, ToolGoes DEF ToolError, ToolPc
  <2>2. CASE PolicyRaises(t)
    BY <2>2, ToolGoes DEF PolicyRaises, ToolPc
  <2> QED BY <2>1, <2>2
<1>2. queue' \in Seq(ItemType) /\ ItemInv' /\ Follows(0)
  BY Untouched DEF ToolError, PolicyRaises
<1>3. TypeOK'
  <2>1. CASE ToolError(t)
    BY <1>1, <1>2, <2>1 DEF ToolError, Answered, Release, TypeOK
  <2>2. CASE PolicyRaises(t)
    BY <1>1, <1>2, <2>2 DEF PolicyRaises, TypeOK
  <2> QED BY <2>1, <2>2
<1>4. /\ hot' = hot /\ logged' = logged /\ told' = told /\ failed' = failed
           /\ queue' = queue
      /\ turns' = turns /\ said' = said
  BY DEF ToolError, PolicyRaises
<1>5. \A u \in CommitCalls \ {t} : ack'[u] = ack[u] /\ (lock = u => lock' = u)
  BY DEF ToolError, PolicyRaises, Answered, Release, TypeOK
<1>6. pc[t] # "committing" \/ ack[t] = "error"
  BY DEF ToolError, PolicyRaises, Answered, Callable
<1>7. \A i \in Commits : queue[i].by # t /\ queue[i].by \in CommitCalls
  BY <1>6 DEF CommitInv, Commits, ItemInv
<1>8. CommitInv'
  <2>1. Commits' = Commits
    BY <1>4 DEF Commits
  <2>2. \A c \in Commitments : logged'[c] > 0 =>
          \/ c \in hot' \/ failed'
          \/ \E u \in CommitCalls :
               pc'[u] = "committing" /\ ack'[u] = "ok" /\ CommitId[u] = c
    BY <1>1, <1>4, <1>5, <1>6 DEF CommitInv
  <2>3. \A u \in CommitCalls : pc'[u] = "committing" =>
          /\ lock' = u /\ CommitId[u] \notin hot'
          /\ ack'[u] = "ok" => logged'[CommitId[u]] > 0
    BY <1>1, <1>4, <1>5 DEF CommitInv
  <2> QED BY <1>1, <1>4, <1>5, <1>7, <2>1, <2>2, <2>3 DEF CommitInv
<1>9. TurnInv'
  BY <1>1, <1>2, <1>3, <1>4, TurnsFollow
<1> QED BY <1>1, <1>2, <1>3, <1>8, <1>9

LEMMA CommitSteps ==
  ASSUME Typed, NEW t \in CommitCalls, ToolCall(t) \/ ToolStep(t)
  PROVE  Authorize(t) \/ Replay(t) \/ Committed(t) \/ ToolError(t) \/ PolicyRaises(t)
<1>1. pc[t] \in {"idle", "committing", "done", "error"}
  BY DEF Typed, TaskInv
<1>2. t \notin Facts \cup Candidates \cup Asks \cup Transfers \cup Finishes
  BY Constants
<1>3. CASE ToolCall(t)
  BY <1>2, <1>3 DEF ToolCall, record_fact, propose_candidate, finish_call,
     cold_transfer,
                    request_user_input
<1>4. CASE ToolStep(t)
  BY <1>1, <1>2, <1>4 DEF ToolStep, Finished, TransferRequested, TransferResult,
       TransferFailed, TransferSucceeded, RequestInput, PollResolved, PollExpired,
       ExpireInput, Resume
<1> QED BY <1>3, <1>4

LEMMA ToolSteps ==
  ASSUME Inv, NEW t \in Tool, ToolCall(t) \/ ToolStep(t)
  PROVE  Inv'
<1>1. CASE t \notin CommitCalls
  BY <1>1, ToolQuiet, QuietStep DEF Inv
<1>2. CASE t \in CommitCalls
  BY <1>2, CommitSteps, AuthorizeStep, ReplayStep, CommitErrorStep DEF Inv
<1> QED BY <1>1, <1>2

-----------------------------------------------------------------------------
(* A turn is said.                                                         *)

LEMMA SayStep ==
  ASSUME Inv, Say
  PROVE  Inv'
<1> USE DEF Inv, Typed
<1> /\ NoOne \in Task \cup {NoOne} /\ NoOne \notin CommitCalls
    /\ {} \in SUBSET Item /\ "turn" \in Kind /\ said \in Nat /\ MaxTurns \in Nat
  BY Constants DEF Tool, Task, Kind, TypeOK
<1>1. said' = said + 1 /\ said' \in 1..MaxTurns
  BY DEF Say
<1>2. Len(queue) \in Nat
  BY LenProperties DEF TypeOK
<1>3. /\ queue' \in Seq(ItemType) /\ Len(queue') = Len(queue) + 1
      /\ queue'[Len(queue) + 1] = [kind |-> "turn", state |-> {}, by |-> NoOne, n |-> said']
      /\ \A i \in 1..Len(queue) : queue'[i] = queue[i]
  <2>1. Put("turn", {}, NoOne, said + 1) /\ said + 1 \in 0..MaxTurns
    BY <1>1 DEF Say
  <2>2. TypeOK
    OBVIOUS
  <2> QED BY <1>1, <2>1, <2>2, PutLast
<1>4. ItemInv'
  <2>1. ASSUME NEW i \in 1..Len(queue')
        PROVE  /\ queue'[i].kind = "commit" <=> queue'[i].by \in CommitCalls
               /\ queue'[i].kind = "turn" => queue'[i].n \in 1..said'
    <3>1. CASE i \in 1..Len(queue)
      BY <1>1, <1>3, <3>1 DEF ItemInv
    <3>2. CASE i = Len(queue) + 1
      BY <1>1, <1>3, <3>2
    <3> QED BY <1>2, <1>3, <3>1, <3>2
  <2> QED BY <2>1 DEF ItemInv
<1>5. TypeOK'
  BY <1>1, <1>3 DEF Say, TypeOK
<1>6. TaskInv'
  BY DEF Say, TaskInv
<1>7. Commits' = Commits
  <2>1. ASSUME NEW i \in 1..Len(queue'), queue'[i].kind = "commit" PROVE i \in 1..Len(queue)
    BY <1>2, <1>3, <2>1
  <2> QED BY <1>2, <1>3, <2>1 DEF Commits
<1>8. CommitInv'
  <2>1. \A i \in Commits : queue'[i] = queue[i]
    BY <1>3 DEF Commits
  <2> QED BY <1>7, <2>1 DEF Say, CommitInv
<1>9. Turns' = Turns \cup {Len(queue) + 1}
  <2>1. ASSUME NEW i \in Turns' PROVE i \in Turns \cup {Len(queue) + 1}
    BY <1>2, <1>3 DEF Turns
  <2>2. ASSUME NEW i \in Turns PROVE i \in Turns'
    BY <1>2, <1>3 DEF Turns
  <2>3. Len(queue) + 1 \in Turns'
    BY <1>2, <1>3 DEF Turns
  <2> QED BY <2>1, <2>2, <2>3
<1>10. \A i \in Turns : queue'[i] = queue[i] /\ queue[i].n \in 1..said /\ i \in 1..Len(queue)
  BY <1>3 DEF Turns, ItemInv
<1>11. TurnInv'
  <2>1. turns' = turns /\ failed' = failed
    BY DEF Say
  <2>2. turns' \subseteq 1..said' /\ \A n \in turns' : 1..n \subseteq turns'
    BY <1>1, <2>1 DEF TurnInv
  <2>3. \A i, j \in Turns' : i < j => queue'[i].n < queue'[j].n
    BY <1>1, <1>2, <1>3, <1>9, <1>10 DEF TurnInv
  <2>4. \A n \in turns', i \in Turns' : n < queue'[i].n
    <3> SUFFICES ASSUME NEW n \in turns, NEW i \in Turns' PROVE n < queue'[i].n
      BY <2>1
    <3>1. CASE i \in Turns
      BY <1>10, <3>1 DEF TurnInv
    <3>2. CASE i = Len(queue) + 1
      BY <1>1, <1>3, <3>2 DEF TurnInv
    <3> QED BY <1>9, <3>1, <3>2
  <2>5. ASSUME ~failed', NEW m \in 1..said', m \notin turns'
        PROVE  \E i \in Turns' : queue'[i].n = m
    <3>1. CASE m \in 1..said
      BY <1>9, <1>10, <2>1, <2>5, <3>1 DEF TurnInv
    <3>2. CASE m = said'
      BY <1>3, <1>9, <3>2
    <3> QED BY <1>1, <2>5, <3>1, <3>2
  <2> QED BY <2>2, <2>3, <2>4, <2>5 DEF TurnInv
<1> QED BY <1>4, <1>5, <1>6, <1>8, <1>11

-----------------------------------------------------------------------------
(* The writer.                                                             *)

\* What every step of the writer does with the first item.
LEMMA Taken ==
  ASSUME Typed, NEW item \in Heads, queue' = Tail(queue), said' = said,
         NEW answer \in {"ok", "error"}, Answer(item, answer)
  PROVE  /\ queue' \in Seq(ItemType) /\ ItemInv' /\ Follows(1)
         /\ item = queue[1] /\ item \in ItemType /\ Len(queue) \in Nat /\ Len(queue) >= 1
         /\ Len(queue') = Len(queue) - 1
         /\ \A i \in 1..Len(queue') : queue'[i] = queue[i + 1]
         /\ ack' \in [Task -> {"none", "wait", "ok", "error"}]
         /\ \A t \in Task : ack'[t] = IF t = item.by THEN answer ELSE ack[t]
<1> USE DEF Typed
<1>1. /\ item \in ItemType /\ item = queue[1] /\ Len(queue) \in Nat /\ Len(queue) >= 1
      /\ queue' \in Seq(ItemType) /\ Len(queue') = Len(queue) - 1
      /\ \A i \in 1..Len(queue') : queue'[i] = queue[i + 1]
  BY TakeFirst
<1>2. ItemInv'
  BY <1>1 DEF ItemInv
<1>3. Follows(1)
  <2>1. \A i \in 1..Len(queue') : i + 1 \in 1..Len(queue) /\ queue'[i] = queue[i + 1]
    BY <1>1
  <2>2. ASSUME NEW i \in 1..Len(queue), i > 1
        PROVE  i - 1 \in 1..Len(queue') /\ queue'[i - 1] = queue[i]
    <3>1. i - 1 \in 1..Len(queue') /\ (i - 1) + 1 = i
      BY <1>1, <2>2
    <3> QED BY <1>1, <3>1
  <2> QED BY <2>1, <2>2 DEF Follows
<1>4. item.by \in Task \cup {NoOne} /\ NoOne \notin Task
  BY <1>1, Constants DEF ItemType
<1>5. /\ ack' \in [Task -> {"none", "wait", "ok", "error"}]
      /\ \A t \in Task : ack'[t] = IF t = item.by THEN answer ELSE ack[t]
  BY <1>4 DEF Answer, TypeOK
<1> QED BY <1>1, <1>2, <1>3, <1>5

\* The item of a commitment is the only one; its tool call waits for it.
LEMMA CommitTaken ==
  ASSUME Typed, CommitInv, NEW item \in Heads, queue' = Tail(queue), said' = said,
         NEW answer \in {"ok", "error"}, Answer(item, answer), item.kind = "commit",
         UNCHANGED <<hot, lock, pc, told>>, failed => failed',
         \/ logged' = logged
         \/ /\ ~failed
            /\ logged' = [c \in Commitments |->
                 IF c = CommitId[item.by] THEN logged[c] + 1 ELSE logged[c]],
         answer = "ok" => logged' # logged,
         answer = "ok" \/ failed'
  PROVE  CommitInv'
<1> USE DEF Typed
<1> CommitCalls \subseteq Task /\ \A t \in CommitCalls : CommitId[t] \in Commitments
  BY Constants DEF Task, Tool
<1>1. /\ Follows(1) /\ item = queue[1] /\ Len(queue) \in Nat /\ Len(queue) >= 1
      /\ Len(queue') = Len(queue) - 1
      /\ \A i \in 1..Len(queue') : queue'[i] = queue[i + 1]
      /\ \A t \in Task : ack'[t] = IF t = item.by THEN answer ELSE ack[t]
  BY Taken
<1> DEFINE t == item.by
<1>2. t \in CommitCalls /\ 1 \in Commits
  BY <1>1 DEF ItemInv, Commits
<1>3. pc[t] = "committing" /\ ack[t] = "wait" /\ lock = t /\ CommitId[t] \notin hot
  BY <1>1, <1>2 DEF CommitInv
<1>4. \A u \in CommitCalls : pc[u] = "committing" => u = t
  BY <1>3 DEF CommitInv
<1>5. Commits' = {}
  <2> SUFFICES ASSUME NEW i \in Commits' PROVE FALSE
    OBVIOUS
  <2>1. i \in 1..Len(queue') /\ queue'[i].kind = "commit"
    BY DEF Commits
  <2>2. i + 1 \in Commits /\ i + 1 # 1
    BY <1>1, <2>1 DEF Commits
  <2> QED BY <1>2, <2>2 DEF CommitInv
<1>6. logged \in [Commitments -> Nat]
  BY DEF TypeOK
<1>7. ~failed => logged[CommitId[t]] = 0
  BY <1>2, <1>3, <1>4, <1>6 DEF CommitInv
<1>8. /\ \A c \in Commitments : logged'[c] >= logged[c] /\ logged'[c] \in 0..1
      /\ \A c \in Commitments \ {CommitId[t]} : logged'[c] = logged[c]
      /\ answer = "ok" => logged'[CommitId[t]] > 0
  <2>1. CASE logged' = logged
    BY <1>2, <1>6, <2>1 DEF CommitInv
  <2>2. CASE logged' # logged
    BY <1>2, <1>6, <1>7, <2>2 DEF CommitInv
  <2> QED BY <2>1, <2>2
<1> HIDE DEF t
<1>9. \A c \in Commitments : logged'[c] > 0 =>
        \/ c \in hot' \/ failed'
        \/ \E u \in CommitCalls :
             pc'[u] = "committing" /\ ack'[u] = "ok" /\ CommitId[u] = c
  <2> SUFFICES ASSUME NEW c \in Commitments, logged'[c] > 0, c \notin hot, ~failed'
               PROVE  \E u \in CommitCalls :
                        pc[u] = "committing" /\ ack'[u] = "ok" /\ CommitId[u] = c
    OBVIOUS
  <2>1. CASE c = CommitId[t]
    BY <1>1, <1>2, <1>3, <2>1 DEF t
  <2>2. CASE c # CommitId[t]
    BY <1>3, <1>4, <1>8, <2>2 DEF CommitInv
  <2> QED BY <2>1, <2>2
<1>10. \A u \in CommitCalls : pc'[u] = "committing" =>
         /\ lock' = u /\ CommitId[u] \notin hot'
         /\ ack'[u] = "ok" => logged'[CommitId[u]] > 0
  BY <1>1, <1>3, <1>4, <1>8 DEF t
<1>11. /\ \A c \in hot' \cap Commitments : logged'[c] > 0
       /\ \A c \in told' : logged'[c] > 0
  BY <1>6, <1>8 DEF CommitInv, TypeOK
<1> QED BY <1>5, <1>8, <1>9, <1>10, <1>11 DEF CommitInv

\* A turn that is written continues the transcript.
LEMMA TurnTaken ==
  ASSUME Typed, Typed', TurnInv, NEW item \in Heads, queue' = Tail(queue), said' = said,
         Follows(1), item = queue[1], Len(queue) \in Nat, Len(queue) >= 1,
         item.kind = "turn", ~failed, turns' = turns \cup {item.n}
  PROVE  TurnInv'
<1> USE DEF Typed
<1> said \in Nat /\ Len(queue') \in Nat
  BY LenProperties, Constants DEF TypeOK
<1>1. 1 \in Turns /\ item.n \in 1..said
  BY DEF Turns, ItemInv
<1>2. ASSUME NEW i \in Turns'
      PROVE  i + 1 \in Turns /\ queue'[i] = queue[i + 1] /\ i \in Nat /\ i >= 1
             /\ queue[i + 1].n \in 1..said
  <2>1. i \in 1..Len(queue') /\ queue'[i].kind = "turn"
    BY DEF Turns
  <2>2. i + 1 \in 1..Len(queue) /\ queue'[i] = queue[i + 1]
    BY <2>1 DEF Follows
  <2> QED BY <2>1, <2>2 DEF Turns, ItemInv
<1>3. turns' \subseteq 1..said'
  BY <1>1 DEF TurnInv
<1>4. \A m \in 1..item.n : m \in turns'
  <2> SUFFICES ASSUME NEW m \in 1..item.n, m # item.n, m \notin turns PROVE FALSE
    OBVIOUS
  <2>1. m \in 1..said /\ m < item.n
    BY <1>1
  <2>2. PICK i \in Turns : queue[i].n = m
    BY <2>1 DEF TurnInv
  <2>3. i = 1 \/ i > 1
    BY DEF Turns
  <2>4. i > 1 => item.n < queue[i].n
    BY <1>1 DEF TurnInv
  <2> QED BY <1>1, <2>1, <2>2, <2>3, <2>4
<1>5. \A n \in turns' : 1..n \subseteq turns'
  BY <1>4 DEF TurnInv
<1>6. \A i, j \in Turns' : i < j => queue'[i].n < queue'[j].n
  <2> SUFFICES ASSUME NEW i \in Turns', NEW j \in Turns', i < j
               PROVE  queue'[i].n < queue'[j].n
    OBVIOUS
  <2>1. i + 1 \in Turns /\ j + 1 \in Turns /\ i + 1 < j + 1
    BY <1>2
  <2>2. queue[i + 1].n < queue[j + 1].n
    BY <2>1 DEF TurnInv
  <2> QED BY <1>2, <2>2
<1>7. \A n \in turns', i \in Turns' : n < queue'[i].n
  <2> SUFFICES ASSUME NEW n \in turns', NEW i \in Turns' PROVE n < queue[i + 1].n
    BY <1>2
  <2>1. i + 1 \in Turns /\ 1 < i + 1
    BY <1>2
  <2>2. item.n < queue[i + 1].n
    BY <1>1, <2>1 DEF TurnInv
  <2> QED BY <2>1, <2>2 DEF TurnInv
<1>8. ASSUME NEW m \in 1..said, m \notin turns'
      PROVE  \E i \in Turns' : queue'[i].n = m
  <2>1. PICK i \in Turns : queue[i].n = m
    BY <1>8 DEF TurnInv
  <2>2. i \in 1..Len(queue) /\ queue[i].kind = "turn" /\ i > 1
    BY <1>8, <2>1 DEF Turns
  <2>3. i - 1 \in 1..Len(queue') /\ queue'[i - 1] = queue[i]
    BY <2>2 DEF Follows
  <2> QED BY <2>1, <2>2, <2>3 DEF Turns
<1> QED BY <1>3, <1>5, <1>6, <1>7, <1>8 DEF TurnInv

LEMMA WriterStep ==
  ASSUME Inv, NEW item \in Heads, queue' = Tail(queue), said' = said,
         NEW answer \in {"ok", "error"}, Answer(item, answer), TypeOK',
         UNCHANGED <<hot, lock, pc, told>>,
         \/ UNCHANGED <<logged, turns>>
         \/ ~Skips(item) /\ Land(item),
         answer = "ok" => ~Skips(item) /\ Land(item),
         \/ failed' = failed
         \/ failed' = (failed \/ Required(item.kind)),
         Required(item.kind) => answer = "ok" \/ failed'
  PROVE  Inv'
<1> USE DEF Inv, Typed
<1> /\ CommitCalls \subseteq Task /\ failed \in BOOLEAN /\ failed' \in BOOLEAN
    /\ logged \in [Commitments -> Nat] /\ \A t \in CommitCalls : CommitId[t] \in Commitments
  BY Constants DEF Task, Tool, TypeOK
<1>1. /\ queue' \in Seq(ItemType) /\ ItemInv' /\ Follows(1)
      /\ item = queue[1] /\ item \in ItemType /\ Len(queue) \in Nat /\ Len(queue) >= 1
      /\ \A t \in Task : ack'[t] = IF t = item.by THEN answer ELSE ack[t]
  BY Taken
<1>2. TaskInv'
  BY DEF TaskInv
<1>3. Typed'
  BY <1>1, <1>2
<1>4. item.kind = "commit" <=> item.by \in CommitCalls
  BY <1>1 DEF ItemInv
<1>5. failed => failed'
  OBVIOUS
<1>6. CommitInv'
  <2>1. CASE item.kind = "commit"
    <3>1. item.by \in CommitCalls /\ CommitId[item.by] \in Commitments
          /\ Required(item.kind)
      BY <1>4, <2>1 DEF Required
    <3>2. ~Skips(item) => ~failed
      BY <3>1 DEF Skips
    <3>3. Land(item) => logged' = [c \in Commitments |->
                          IF c = CommitId[item.by] THEN logged[c] + 1 ELSE logged[c]]
      BY <2>1 DEF Land
    <3>4. Land(item) => logged' # logged
      <4> SUFFICES ASSUME Land(item) PROVE logged'[CommitId[item.by]] # logged[CommitId[item.by]]
        OBVIOUS
      <4>1. logged'[CommitId[item.by]] = logged[CommitId[item.by]] + 1
        BY <3>1, <3>3
      <4> QED BY <3>1, <4>1
    <3>5. \/ logged' = logged
          \/ /\ ~failed
             /\ logged' = [c \in Commitments |->
                  IF c = CommitId[item.by] THEN logged[c] + 1 ELSE logged[c]]
      BY <3>2, <3>3
    <3>6. (answer = "ok" => logged' # logged) /\ (answer = "ok" \/ failed')
      BY <3>1, <3>4
    <3> QED BY <1>5, <2>1, <3>5, <3>6, CommitTaken
  <2>2. CASE item.kind # "commit"
    <3>1. logged' = logged
      <4>1. Land(item) => logged' = [c \in Commitments |-> logged[c]]
        BY <2>2 DEF Land
      <4> QED BY <4>1
    <3>2. \A t \in CommitCalls : ack'[t] = ack[t]
      BY <1>1, <1>4, <2>2
    <3> QED BY <1>1, <1>3, <1>5, <3>1, <3>2, CommitsFollow
  <2> QED BY <2>1, <2>2
<1>7. TurnInv'
  <2>1. CASE item.kind = "turn" /\ ~Skips(item) /\ Land(item)
    <3>1. ~failed /\ turns' = turns \cup {item.n}
      BY <2>1 DEF Skips, Required, Land
    <3> QED BY <1>1, <1>3, <2>1, <3>1, TurnTaken
  <2>2. CASE item.kind = "turn" /\ ~(~Skips(item) /\ Land(item))
    <3>1. turns' = turns /\ failed'
      BY <2>2 DEF Required
    <3> QED BY <1>1, <1>3, <1>5, <3>1, TurnsFollow
  <2>3. CASE item.kind # "turn"
    <3>1. turns' = turns
      BY <2>3 DEF Land
    <3> QED BY <1>1, <1>3, <1>5, <2>3, <3>1, TurnsFollow
  <2> QED BY <2>1, <2>2, <2>3
<1> QED BY <1>3, <1>6, <1>7

\* The rows of a call are what they should be.
RowOK ==
  /\ status \in Talkable \cup {"completing"} \cup Terminal
  /\ stored \subseteq Item
  /\ outcome \in (SUBSET Commitments) \cup {NoOutcome}
  /\ ended \in Nat /\ logged \in [Commitments -> Nat]
  /\ turns \subseteq 1..MaxTurns
  /\ request \in [Asks -> {"none", "pending", "resolved", "expired"}]

LEMMA Lands ==
  ASSUME Typed, NEW item \in Heads, queue' = Tail(queue), Land(item) \/ UNCHANGED row
  PROVE  RowOK'
<1> USE DEF Typed
<1>1. RowOK
  BY DEF TypeOK, RowOK
<1>2. item \in ItemType /\ item = queue[1] /\ 1 \in 1..Len(queue)
  BY TakeFirst
<1>3. CASE UNCHANGED row
  BY <1>1, <1>3 DEF RowOK
<1>4. CASE Land(item)
  <2>1. said \in 0..MaxTurns /\ MaxTurns \in Nat /\ turns \subseteq 1..MaxTurns
    BY Constants DEF TypeOK
  <2>2. item.kind = "turn" => item.n \in 1..MaxTurns
    BY <1>2, <2>1 DEF ItemInv
  <2>3. turns' \subseteq 1..MaxTurns
    BY <1>4, <2>1, <2>2 DEF Land
  <2>4. item.state \subseteq Item
    BY <1>2 DEF ItemType
  <2>5. logged' \in [Commitments -> Nat] /\ ended' \in Nat /\ stored' \subseteq Item
    BY <1>1, <1>4, <2>4 DEF RowOK, Land
  <2>6. /\ status' = status \/ status' = "completing"
        /\ outcome' = outcome \/ outcome' \subseteq Commitments
        /\ request' = request
    BY <1>4 DEF Land
  <2> QED BY <1>1, <2>3, <2>5, <2>6 DEF RowOK
<1> QED BY <1>3, <1>4

LEMMA WriterTyped ==
  ASSUME Typed, NEW item \in Heads, queue' = Tail(queue),
         NEW answer \in {"ok", "error"}, Answer(item, answer),
         Land(item) \/ UNCHANGED row,
         UNCHANGED <<hot, lock, writer, pc, told, verdict, api, said, events>>,
         failed' \in BOOLEAN, faults' \in 0..MaxFaults
  PROVE  TypeOK'
<1>1. RowOK'
  BY Lands
<1>2. queue' \in Seq(ItemType) /\ ack' \in [Task -> {"none", "wait", "ok", "error"}]
  BY Taken
<1> QED BY <1>1, <1>2 DEF Typed, TypeOK, RowOK

LEMMA WriterSteps ==
  ASSUME Inv, Skip \/ Write \/ Refuse \/ Fault
  PROVE  Inv'
<1> USE DEF Inv
<1> failed \in BOOLEAN /\ MaxFaults \in Nat /\ faults \in 0..MaxFaults
  BY Constants DEF Typed, TypeOK
<1>1. CASE Skip
  <2>1. PICK item \in Heads :
          /\ queue' = Tail(queue) /\ Skips(item) /\ Answer(item, "error")
          /\ UNCHANGED <<row, hot, lock, writer, failed, pc, told, verdict, api, counters>>
    BY <1>1 DEF Skip
  <2>2. TypeOK'
    BY <2>1, WriterTyped
  <2> QED BY <2>1, <2>2, WriterStep DEF Skips
<1>2. CASE Write
  <2>1. PICK item \in Heads :
          /\ queue' = Tail(queue) /\ ~Skips(item) /\ Land(item) /\ Answer(item, "ok")
          /\ UNCHANGED <<hot, lock, writer, failed, pc, told, verdict, api, counters>>
    BY <1>2 DEF Write
  <2>2. TypeOK'
    BY <2>1, WriterTyped
  <2> QED BY <2>1, <2>2, WriterStep
<1>3. CASE Refuse
  <2>1. PICK item \in Heads :
          /\ queue' = Tail(queue) /\ Answer(item, "error")
          /\ failed' = (failed \/ Required(item.kind))
          /\ UNCHANGED <<row, hot, lock, writer, pc, told, verdict, api, counters>>
    BY <1>3 DEF Refuse
  <2>2. TypeOK'
    BY <2>1, WriterTyped DEF Required
  <2> QED BY <2>1, <2>2, WriterStep
<1>4. CASE Fault
  <2>1. PICK item \in Heads :
          /\ faults < MaxFaults /\ faults' = faults + 1
          /\ queue' = Tail(queue) /\ Answer(item, "error") /\ ~Skips(item)
          /\ Land(item) \/ UNCHANGED row
          /\ failed' = (failed \/ Required(item.kind))
          /\ UNCHANGED <<hot, lock, writer, pc, told, verdict, api, said, events>>
    BY <1>4 DEF Fault
  <2>2. faults' \in 0..MaxFaults /\ failed' \in BOOLEAN
    BY <2>1 DEF Required
  <2>3. TypeOK'
    BY <2>1, <2>2, WriterTyped
  <2> QED BY <2>1, <2>3, WriterStep
<1> QED BY <1>1, <1>2, <1>3, <1>4

-----------------------------------------------------------------------------
(* The shut-down.                                                          *)

Last == {"completing", "failing", "enriching", "over", "lost"}
Late == {"reporting", "flushing", "draining"} \cup Last

\* The job closes the context when the tools have returned, and ends the call
\* when nothing is queued any more.
ShutInv ==
  /\ pc[Job] \in Late => \A t \in Tool : pc[t] \in {"idle", "done", "error"}
  /\ writer # "open" => pc[Job] \in Last \cup {"draining"}
  /\ writer = "stopped" => queue = <<>>
  /\ pc[Job] \in Last => writer = "stopped"
  /\ status \notin Terminal => ended = 0
  /\ status \in {"completed", "failed"} => ended <= 1 /\ pc[Job] = "over"

LEMMA ToolShut ==
  ASSUME Typed, ShutInv, NEW t \in Tool, ToolCall(t) \/ ToolStep(t)
  PROVE  ShutInv'
<1> /\ t # Job /\ t \in Task /\ Job \in Task /\ Tool \subseteq Task
    /\ pc \in [Task -> ToolPc \cup JobPc]
  BY Constants DEF Typed, TypeOK, Task
<1>1. CASE ToolCall(t)
  <2> USE <1>1 DEF ToolCall, record_fact, propose_candidate, Authorize, Replay,
                   PolicyRaises, finish_call, cold_transfer, request_user_input
  <2>1. pc'[Job] = pc[Job] /\ writer' = writer /\ ended' = ended /\ status' = status
    OBVIOUS
  <2>2. pc[Job] \notin Late
    BY DEF Callable, Late, Last
  <2> HIDE <1>1 DEF ToolCall, record_fact, propose_candidate, Authorize, Replay,
                   PolicyRaises, finish_call, cold_transfer, request_user_input
  <2> QED BY <2>1, <2>2 DEF ShutInv, Late
<1>2. CASE ToolStep(t)
  <2> USE <1>2 DEF ToolStep, Committed, Finished, TransferRequested, TransferResult,
                   TransferFailed, TransferSucceeded, ToolError, RequestInput, PollResolved,
                   PollExpired, ExpireInput, Resume
  <2>1. pc'[Job] = pc[Job] /\ writer' = writer /\ ended' = ended
    OBVIOUS
  <2>2. \/ status' = status
        \/ {status, status'} \subseteq {"active", "input_required"}
    OBVIOUS
  <2>3. pc[Job] \in Late => /\ queue' = queue
                            /\ \A u \in Tool : pc'[u] \in {"idle", "done", "error"}
    BY DEF ShutInv
  <2> HIDE <1>2 DEF ToolStep, Committed, Finished, TransferRequested, TransferResult,
                   TransferFailed, TransferSucceeded, ToolError, RequestInput, PollResolved,
                   PollExpired, ExpireInput, Resume
  <2> QED BY <2>1, <2>2, <2>3 DEF ShutInv, Late, Terminal
<1> QED BY <1>1, <1>2

LEMMA JobShut ==
  ASSUME Typed, ShutInv, CallEnds \/ WatchdogGivesUp \/ FinishAmd \/ JobFault \/ ShutDown
  PROVE  ShutInv'
<1> /\ Job \in Task /\ Job \notin Tool /\ Tool \subseteq Task
    /\ pc \in [Task -> ToolPc \cup JobPc] /\ ended \in Nat
  BY Constants DEF Typed, TypeOK, Task
<1> USE DEF ShutInv, Late, Last
<1>1. CASE CallEnds
  BY <1>1 DEF CallEnds
<1>2. CASE WatchdogGivesUp
  BY <1>2 DEF WatchdogGivesUp
<1>3. CASE FinishAmd
  BY <1>3 DEF FinishAmd, SubmitAndWait
<1>4. CASE JobFault
  BY <1>4 DEF JobFault
<1>5. CASE FinishedAmd
  BY <1>5 DEF FinishedAmd
<1>6. CASE Report
  BY <1>6 DEF Report, SessionCanClose, SubmitAndWait
<1>7. CASE Reported
  BY <1>7 DEF Reported, SubmitAndWait
<1>8. CASE ReportRaises
  BY <1>8 DEF ReportRaises
<1>9. CASE Unwind
  BY <1>9 DEF Unwind, SessionCanClose, SubmitAndWait
<1>10. CASE Close
  BY <1>10 DEF Close
<1>11. CASE Closed
  BY <1>11 DEF Closed
<1>12. CASE Complete
  BY <1>12 DEF Complete, Terminal, Talkable
<1>13. CASE Completed
  BY <1>13 DEF Completed, Terminal, Talkable
<1>14. CASE Fail
  BY <1>14 DEF Fail, Terminal, Talkable
<1> QED BY <1>1, <1>2, <1>3, <1>4, <1>5, <1>6, <1>7, <1>8, <1>9, <1>10, <1>11, <1>12,
           <1>13, <1>14 DEF ShutDown

LEMMA ApiShut ==
  ASSUME Typed, ShutInv,
         Cancel \/ Say \/ Event \/ UNCHANGED vars \/ \E a \in Asks : Respond(a)
  PROVE  ShutInv'
<1> USE DEF ShutInv, Late, Last
<1>1. CASE Cancel
  BY <1>1 DEF Cancel, Terminal
<1>2. CASE Say
  BY <1>2 DEF Say, Observing
<1>3. CASE Event
  BY <1>3 DEF Event
<1>4. CASE UNCHANGED vars
  BY <1>4 DEF vars
<1>5. ASSUME NEW a \in Asks, Respond(a) PROVE ShutInv'
  BY <1>5 DEF Respond, RespondRead, RespondResolve, RespondUpdate, Terminal
<1> QED BY <1>1, <1>2, <1>3, <1>4, <1>5

LEMMA WriterShut ==
  ASSUME Typed, ShutInv, Writer
  PROVE  ShutInv'
<1> ended \in Nat
  BY DEF Typed, TypeOK
<1>1. CASE Stop
  BY <1>1 DEF Stop, ShutInv, Last
<1>2. CASE Skip \/ Write \/ Refuse \/ Fault
  <2>1. Heads # {} /\ pc' = pc /\ writer' = writer
    BY <1>2 DEF Skip, Write, Refuse, Fault
  <2>2. writer # "stopped" /\ status \notin {"completed", "failed"}
    BY <2>1 DEF ShutInv, Heads, Last
  <2>3. \/ status' = status
        \/ status \in Talkable /\ status' = "completing"
    BY <1>2 DEF Skip, Write, Refuse, Fault, Land, Expected
  <2>4. ended' = ended \/ status \in Terminal
    BY <1>2 DEF Skip, Write, Refuse, Fault, Land
  <2> QED BY <2>1, <2>2, <2>3, <2>4 DEF ShutInv, Terminal, Talkable
<1> QED BY <1>1, <1>2 DEF Writer

-----------------------------------------------------------------------------
(* What a completed call keeps.                                            *)

\* Nobody writes the state of the row but the writer, and every snapshot is
\* taken under the lock.
OnlyWriter == Asks = {} /\ ~Ivr

\* The items that carry a snapshot of the state.
Snapshots == {i \in 1..Len(queue) : queue[i].kind \notin {"turn", "event", "barrier"}}

\* A snapshot holds every commitment of the hot state, and none but recorded ones
\* and the one it is to record; after the one that records a commitment there is
\* none until its tool call has put the commitment into the hot state.
KeepInv ==
  /\ told \subseteq hot
  /\ hot \cap Commitments \subseteq stored
  /\ \A c \in stored \cap Commitments : logged[c] > 0
  /\ \A i \in Snapshots :
       /\ hot \cap Commitments \subseteq queue[i].state
       /\ \A c \in queue[i].state \cap Commitments :
            \/ logged[c] > 0
            \/ queue[i].kind = "commit" /\ c = CommitId[queue[i].by]
  /\ \A i \in Commits, j \in Snapshots : j <= i /\ CommitId[queue[i].by] \in queue[i].state
  /\ \A t \in CommitCalls : pc[t] = "committing" =>
       /\ ack[t] = "ok" => CommitId[t] \in stored
       /\ ack[t] # "wait" => Snapshots = {}
  /\ outcome # NoOutcome =>
       /\ outcome \subseteq Commitments /\ status \notin Talkable
       /\ hot \cap Commitments \subseteq outcome
       /\ \A c \in outcome : logged[c] > 0
       /\ \A t \in CommitCalls : pc[t] = "committing" => ack[t] # "ok"
  /\ status \in {"completing", "completed"} => outcome # NoOutcome
  /\ \A t \in Tool : pc[t] = "transferred" => lock = t

\* Snapshots that were not queued before show the hot state of a moment at which
\* no commitment is under way.
Fresh ==
  \A i \in Snapshots' :
    \/ i \in Snapshots /\ queue'[i] = queue[i]
    \/ /\ queue'[i].kind # "commit" /\ queue'[i].state = hot'
       /\ \A t \in CommitCalls : pc'[t] # "committing"

\* A quiet step that leaves the row and its outcome alone, too.
Calm ==
  /\ Quiet /\ Fresh
  /\ stored' = stored /\ outcome' = outcome
  /\ status' = "completing" => status = "completing"
  /\ status' = "completed" => status \in {"completing", "completed"}
  /\ status = "completed" => status' = "completed"
  /\ status \notin Talkable => status' \notin Talkable
  /\ \A t \in Tool : pc'[t] = "transferred" => lock' = t

LEMMA SameSnapshots ==
  ASSUME UNCHANGED queue
  PROVE  Fresh
BY DEF Fresh, Snapshots

LEMMA NewSnapshot ==
  ASSUME Typed, NEW kind \in Kind \ {"turn", "commit"}, NEW state \in SUBSET Item,
         NEW by \in Task \cup {NoOne}, Put(kind, state, by, 0),
         \/ kind \in {"event", "barrier"}
         \/ state = hot' /\ \A t \in CommitCalls : pc'[t] # "committing"
  PROVE  Fresh
<1> MaxTurns \in Nat
  BY Constants
<1>1. /\ Len(queue') = Len(queue) + 1 /\ Len(queue) \in Nat
      /\ queue'[Len(queue) + 1] = [kind |-> kind, state |-> state, by |-> by, n |-> 0]
      /\ \A i \in 1..Len(queue) : queue'[i] = queue[i]
  <2>1. Len(queue) \in Nat /\ 0 \in 0..MaxTurns
    BY LenProperties DEF Typed, TypeOK
  <2>2. TypeOK
    BY DEF Typed
  <2> QED BY <2>1, <2>2, PutLast
<1>2. ASSUME NEW i \in Snapshots'
      PROVE  \/ i \in Snapshots /\ queue'[i] = queue[i]
             \/ /\ queue'[i].kind # "commit" /\ queue'[i].state = hot'
                /\ \A t \in CommitCalls : pc'[t] # "committing"
  <2>1. i \in 1..Len(queue') /\ queue'[i].kind \notin {"turn", "event", "barrier"}
    BY DEF Snapshots
  <2>2. CASE i \in 1..Len(queue)
    BY <1>1, <2>1, <2>2 DEF Snapshots
  <2>3. CASE i = Len(queue) + 1
    BY <1>1, <2>1, <2>3
  <2> QED BY <1>1, <2>1, <2>2, <2>3
<1> QED BY <1>2 DEF Fresh

LEMMA CalmStep ==
  ASSUME Inv, KeepInv, Typed', Calm
  PROVE  KeepInv'
<1> USE DEF Calm, Quiet
<1> /\ \A t \in CommitCalls : CommitId[t] \in Commitments
    /\ told \subseteq Commitments /\ CommitCalls \subseteq Tool
  BY Constants DEF Tool, Inv, Typed, TypeOK
<1>1. told' \subseteq hot' /\ hot' \cap Commitments \subseteq stored'
  BY DEF KeepInv
<1>2. ASSUME NEW i \in Commits'
      PROVE  i \in Commits /\ queue'[i] = queue[i] /\ pc'[queue'[i].by] = "committing"
             /\ queue'[i].by \in CommitCalls
  <2>1. i \in 1..Len(queue') /\ queue'[i].kind = "commit" /\ i + 0 = i
    BY DEF Commits
  <2>2. i \in 1..Len(queue) /\ queue'[i] = queue[i]
    BY <2>1 DEF Follows
  <2>3. i \in Commits /\ queue[i].by \in CommitCalls
    BY <2>1, <2>2 DEF Commits, Inv, Typed, ItemInv
  <2> QED BY <2>2, <2>3 DEF Inv, CommitInv
<1>3. ASSUME NEW i \in Snapshots'
      PROVE  /\ hot' \cap Commitments \subseteq queue'[i].state
             /\ \A c \in queue'[i].state \cap Commitments :
                  \/ logged'[c] > 0
                  \/ queue'[i].kind = "commit" /\ c = CommitId[queue'[i].by]
  <2>1. CASE i \in Snapshots /\ queue'[i] = queue[i]
    BY <2>1 DEF KeepInv
  <2>2. CASE queue'[i].state = hot'
    BY <2>2 DEF Inv, CommitInv
  <2> QED BY <2>1, <2>2 DEF Fresh
<1>4. ASSUME NEW i \in Commits', NEW j \in Snapshots'
      PROVE  j <= i /\ CommitId[queue'[i].by] \in queue'[i].state
  <2>1. j \in Snapshots
    BY <1>2 DEF Fresh
  <2> QED BY <1>2, <2>1 DEF KeepInv
<1>5. ASSUME NEW t \in CommitCalls, pc'[t] = "committing"
      PROVE  /\ ack'[t] = "ok" => CommitId[t] \in stored'
             /\ ack'[t] # "wait" => Snapshots' = {}
  BY <1>5 DEF KeepInv, Fresh
<1>6. outcome' # NoOutcome =>
       /\ outcome' \subseteq Commitments /\ status' \notin Talkable
       /\ hot' \cap Commitments \subseteq outcome'
       /\ \A c \in outcome' : logged'[c] > 0
       /\ \A t \in CommitCalls : pc'[t] = "committing" => ack'[t] # "ok"
  BY DEF KeepInv
<1>7. /\ status' \in {"completing", "completed"} => outcome' # NoOutcome
      /\ \A c \in stored' \cap Commitments : logged'[c] > 0
  BY DEF KeepInv
<1> QED BY <1>1, <1>2, <1>3, <1>4, <1>5, <1>6, <1>7 DEF KeepInv

LEMMA ToolCalm ==
  ASSUME Typed, CommitInv, KeepInv, OnlyWriter, NEW t \in Tool \ CommitCalls,
         ToolCall(t) \/ ToolStep(t)
  PROVE  Typed' /\ Calm
<1>0. Typed' /\ Quiet
  BY ToolQuiet
<1> USE DEF Typed
<1> /\ t \in Task /\ t # Job /\ NoOne \notin Task /\ CommitCalls \subseteq Task
    /\ {} \in SUBSET Item /\ Tool \subseteq Task /\ CommitCalls \subseteq Tool /\ Asks = {}
  BY Constants DEF Tool, Task, Item, OnlyWriter
<1> /\ hot \in SUBSET Item /\ hot' \in SUBSET Item /\ pc[t] # "committing"
    /\ pc \in [Task -> ToolPc \cup JobPc]
  BY <1>0 DEF TypeOK, TaskInv
<1> DEFINE NoCommit == \A u \in CommitCalls : pc'[u] # "committing"
<1>1. CASE record_fact(t)
  <2>1. NoCommit
    BY <1>1 DEF record_fact, Acquire, CommitInv
  <2>2. Fresh
    BY <1>1, <2>1, NewSnapshot DEF record_fact, Submit, SubmitAndWait, Kind
  <2> QED BY <1>0, <1>1, <2>2 DEF record_fact, Calm, Acquire, Release, KeepInv
<1>2. CASE propose_candidate(t)
  <2>1. NoCommit
    BY <1>2 DEF propose_candidate, Acquire, CommitInv
  <2>2. Fresh
    BY <1>2, <2>1, NewSnapshot DEF propose_candidate, Submit, SubmitAndWait, Kind
  <2> QED BY <1>0, <1>2, <2>2 DEF propose_candidate, Calm, Acquire, Release, KeepInv
<1>3. CASE PolicyRaises(t)
  BY <1>0, <1>3, SameSnapshots DEF PolicyRaises, Calm, Release, Answered, KeepInv
<1>4. CASE finish_call(t)
  <2>1. NoCommit
    BY <1>4 DEF finish_call, Acquire, CommitInv
  <2>2. Fresh
    BY <1>4, <2>1, NewSnapshot DEF finish_call, Submit, SubmitAndWait, Kind
  <2> QED BY <1>0, <1>4, <2>2 DEF finish_call, Calm, Acquire, Release, KeepInv
<1>5. CASE cold_transfer(t)
  <2>1. NoCommit
    BY <1>5 DEF cold_transfer, Acquire, CommitInv
  <2>2. Fresh
    BY <1>5, <2>1, NewSnapshot DEF cold_transfer, Submit, SubmitAndWait, Kind
  <2> QED BY <1>0, <1>5, <2>2 DEF cold_transfer, Calm, Acquire, Release, KeepInv
<1>6. CASE Finished(t)
  BY <1>0, <1>6, SameSnapshots DEF Finished, Calm, Release, Answered, KeepInv
<1>7. CASE TransferRequested(t)
  BY <1>0, <1>7, SameSnapshots DEF TransferRequested, Calm, Release, Answered, KeepInv
<1>8. CASE TransferResult(t)
  <2>1. NoCommit
    BY <1>8 DEF TransferResult, Acquire, CommitInv
  <2>2. Fresh
    BY <1>8, <2>1, NewSnapshot DEF TransferResult, Submit, SubmitAndWait, Kind
  <2> QED BY <1>0, <1>8, <2>2 DEF TransferResult, Calm, Acquire, Release, KeepInv
<1>9. CASE TransferFailed(t)
  BY <1>0, <1>9, SameSnapshots DEF TransferFailed, Calm, Release, Answered, KeepInv
<1>10. CASE TransferSucceeded(t)
  <2>1. NoCommit
    BY <1>10 DEF TransferSucceeded, Acquire, CommitInv, TaskInv, KeepInv
  <2>2. Fresh
    BY <1>10, <2>1, NewSnapshot DEF TransferSucceeded, Submit, SubmitAndWait, Kind
  <2> QED BY <1>0, <1>10, <2>2 DEF TransferSucceeded, Calm, Acquire, Release, KeepInv
<1>11. CASE ToolError(t)
  BY <1>0, <1>11, SameSnapshots DEF ToolError, Calm, Release, Answered, KeepInv
<1>12. CASE Authorize(t) \/ Replay(t) \/ Committed(t)
  BY <1>12 DEF Authorize, Replay, Committed
<1>13. ~(request_user_input(t) \/ RequestInput(t) \/ PollResolved(t)
         \/ PollExpired(t) \/ ExpireInput(t) \/ Resume(t))
  BY DEF request_user_input, RequestInput, PollResolved, PollExpired, ExpireInput,
     Resume
<1> QED BY <1>1, <1>2, <1>3, <1>4, <1>5, <1>6, <1>7, <1>8, <1>9, <1>10, <1>11, <1>12,
           <1>13 DEF ToolCall, ToolStep

LEMMA JobCalm ==
  ASSUME Typed, CommitInv, KeepInv, OnlyWriter, ~Complete,
         CallEnds \/ WatchdogGivesUp \/ FinishAmd \/ JobFault \/ ShutDown
  PROVE  Typed' /\ Calm
<1>0. Typed' /\ Quiet
  BY JobQuiet
<1> USE DEF Typed
<1> /\ Job \in Task /\ Job \notin Tool /\ NoOne \notin Task /\ Tool \subseteq Task
    /\ CommitCalls \subseteq Tool /\ {} \in SUBSET Item /\ ~Ivr
    /\ hot \in SUBSET Item /\ pc \in [Task -> ToolPc \cup JobPc]
  BY Constants DEF Tool, Task, Item, OnlyWriter, TypeOK
<1>1. CASE CallEnds
  BY <1>0, <1>1, SameSnapshots DEF CallEnds, Calm, Release, Answered, KeepInv,
     Talkable, Terminal
<1>2. CASE WatchdogGivesUp
  BY <1>0, <1>2, SameSnapshots DEF WatchdogGivesUp, Calm, Release, Answered, KeepInv,
     Talkable, Terminal
<1>3. CASE JobFault
  BY <1>0, <1>3, SameSnapshots DEF JobFault, Calm, Release, Answered, KeepInv,
     Talkable, Terminal
<1>4. CASE FinishedAmd
  BY <1>0, <1>4, SameSnapshots DEF FinishedAmd, Calm, Release, Answered, KeepInv,
     Talkable, Terminal
<1>5. CASE Report
  <2>1. \A t \in CommitCalls : pc'[t] # "committing"
    BY <1>5 DEF Report, Acquire, CommitInv
  <2>2. Fresh
    BY <1>5, <2>1, NewSnapshot DEF Report, SubmitAndWait, Kind
  <2> QED BY <1>0, <1>5, <2>2 DEF Report, Calm, Acquire, Release, KeepInv
<1>6. CASE Reported
  <2>2. Fresh
    BY <1>6, NewSnapshot DEF Reported, SubmitAndWait, Kind
  <2> QED BY <1>0, <1>6, <2>2 DEF Reported, Calm, Acquire, Release, KeepInv
<1>7. CASE ReportRaises
  BY <1>0, <1>7, SameSnapshots DEF ReportRaises, Calm, Release, Answered, KeepInv,
     Talkable, Terminal
<1>8. CASE Unwind
  <2>2. Fresh
    BY <1>8, NewSnapshot DEF Unwind, SubmitAndWait, Kind
  <2> QED BY <1>0, <1>8, <2>2 DEF Unwind, Calm, Acquire, Release, KeepInv
<1>9. CASE Close
  BY <1>0, <1>9, SameSnapshots DEF Close, Calm, Release, Answered, KeepInv, Talkable,
     Terminal
<1>10. CASE Closed
  BY <1>0, <1>10, SameSnapshots DEF Closed, Calm, Release, Answered, KeepInv,
     Talkable, Terminal
<1>11. CASE Completed
  BY <1>0, <1>11, SameSnapshots DEF Completed, Calm, Release, Answered, KeepInv,
     Talkable, Terminal
<1>12. CASE Fail
  BY <1>0, <1>12, SameSnapshots DEF Fail, Calm, Release, Answered, KeepInv, Talkable,
     Terminal
<1>13. ~FinishAmd
  BY DEF FinishAmd
<1> QED BY <1>1, <1>2, <1>3, <1>4, <1>5, <1>6, <1>7, <1>8, <1>9, <1>10, <1>11, <1>12,
           <1>13 DEF ShutDown

LEMMA ApiCalm ==
  ASSUME Typed, KeepInv, OnlyWriter,
         Cancel \/ Event \/ Stop \/ UNCHANGED vars \/ \E a \in Asks : Respond(a)
  PROVE  Typed' /\ Calm
<1>0. Typed' /\ Quiet
  BY ApiQuiet
<1> {} \in SUBSET Item
  OBVIOUS
<1>1. CASE Cancel
  BY <1>0, <1>1, SameSnapshots DEF Cancel, Calm, KeepInv, Talkable, Terminal
<1>2. CASE Event
  <2>1. Fresh
    BY <1>2, NewSnapshot DEF Event, Submit, Kind
  <2> QED BY <1>0, <1>2, <2>1 DEF Event, Calm, KeepInv
<1>3. CASE Stop
  BY <1>0, <1>3, SameSnapshots DEF Stop, Calm, KeepInv
<1>4. CASE UNCHANGED vars
  BY <1>0, <1>4, SameSnapshots DEF vars, Calm, KeepInv
<1> QED BY <1>1, <1>2, <1>3, <1>4 DEF OnlyWriter

LEMMA CompleteKeep ==
  ASSUME Inv, ShutInv, KeepInv, Complete
  PROVE  KeepInv'
<1> USE DEF Inv, Typed
<1> /\ Job \in Task /\ Job \notin Tool /\ Tool \subseteq Task /\ CommitCalls \subseteq Tool
    /\ NoOne \notin Commitments /\ pc \in [Task -> ToolPc \cup JobPc]
  BY Constants DEF Tool, Task, TypeOK
<1>1. \A t \in CommitCalls : pc[t] # "committing"
  BY DEF Complete, ShutInv, Late, Last
<1>2. /\ \A t \in Tool : pc'[t] = pc[t]
      /\ UNCHANGED <<stored, logged, hot, lock, queue, ack, told>>
  BY DEF Complete
<1>3. \/ outcome' = outcome /\ status' = status
      \/ /\ outcome = NoOutcome /\ outcome' = stored \cap Commitments
         /\ outcome' # NoOutcome /\ status' = "completing"
  BY DEF Complete, KeepInv, NoOutcome, Talkable, Terminal
<1>4. outcome' # NoOutcome =>
       /\ outcome' \subseteq Commitments /\ status' \notin Talkable
       /\ hot' \cap Commitments \subseteq outcome'
       /\ \A c \in outcome' : logged'[c] > 0
  BY <1>2, <1>3 DEF KeepInv, Talkable
<1>5. Snapshots' = Snapshots /\ Commits' = Commits
  BY <1>2 DEF Snapshots, Commits
<1>6. \A i \in Commits : queue[i].by \in CommitCalls
  BY DEF Commits, ItemInv
<1> QED BY <1>1, <1>2, <1>3, <1>4, <1>5, <1>6 DEF KeepInv

LEMMA AuthorizeKeep ==
  ASSUME Inv, KeepInv, NEW t \in CommitCalls, Authorize(t)
  PROVE  KeepInv'
<1> USE DEF Inv, Typed
<1> /\ t \in Tool /\ t \in Task /\ CommitId[t] \in Commitments /\ CommitId[t] \in Item
    /\ CommitCalls \subseteq Task /\ NoOne \notin Task /\ Tool \subseteq Task
    /\ pc \in [Task -> ToolPc \cup JobPc] /\ MaxTurns \in Nat
  BY Constants DEF Tool, Task, Item, TypeOK
<1>1. TypeOK /\ hot \cup {CommitId[t]} \in SUBSET Item /\ "commit" \in Kind
      /\ 0 \in 0..MaxTurns
  BY DEF TypeOK, Kind
<1>2. /\ pc'[t] = "committing" /\ \A u \in Task \ {t} : pc'[u] = pc[u]
      /\ ack'[t] = "wait"
  BY DEF Authorize, SubmitAndWait, TypeOK
<1>3. /\ Len(queue') = Len(queue) + 1 /\ Len(queue) \in Nat
      /\ queue'[Len(queue) + 1] =
           [kind |-> "commit", state |-> hot \cup {CommitId[t]}, by |-> t, n |-> 0]
      /\ \A i \in 1..Len(queue) : queue'[i] = queue[i]
  BY AuthorizePuts
<1>4. \A u \in CommitCalls : pc[u] # "committing"
  BY DEF CommitInv, Authorize, Acquire
<1>5. ASSUME NEW i \in Snapshots'
      PROVE  (i \in Snapshots /\ queue'[i] = queue[i]) \/ i = Len(queue) + 1
  BY <1>3 DEF Snapshots
<1>6. ASSUME NEW i \in Commits' PROVE i = Len(queue) + 1
  <2>1. i \in 1..Len(queue') /\ queue'[i].kind = "commit"
    BY DEF Commits
  <2>2. i \notin 1..Len(queue)
    <3> SUFFICES ASSUME i \in 1..Len(queue) PROVE FALSE
      OBVIOUS
    <3>1. i \in Commits /\ queue[i].by \in CommitCalls
      BY <1>3, <2>1 DEF Commits, ItemInv
    <3> QED BY <1>4, <3>1 DEF CommitInv
  <2> QED BY <1>3, <2>1, <2>2
<1>7. UNCHANGED <<stored, outcome, status, logged, hot, told>>
  BY DEF Authorize
<1>8. \A i \in Snapshots' :
        /\ hot' \cap Commitments \subseteq queue'[i].state
        /\ \A c \in queue'[i].state \cap Commitments :
             \/ logged'[c] > 0
             \/ queue'[i].kind = "commit" /\ c = CommitId[queue'[i].by]
  <2> SUFFICES ASSUME NEW i \in Snapshots'
               PROVE  /\ hot \cap Commitments \subseteq queue'[i].state
                      /\ \A c \in queue'[i].state \cap Commitments :
                           \/ logged[c] > 0
                           \/ queue'[i].kind = "commit" /\ c = CommitId[queue'[i].by]
    BY <1>7
  <2>1. CASE i \in Snapshots /\ queue'[i] = queue[i]
    BY <2>1 DEF KeepInv
  <2>2. CASE i = Len(queue) + 1
    BY <1>3, <2>2 DEF CommitInv
  <2> QED BY <1>5, <2>1, <2>2
<1>9. \A i \in Commits', j \in Snapshots' : j <= i /\ CommitId[queue'[i].by] \in queue'[i].state
  <2> SUFFICES ASSUME NEW i \in Commits', NEW j \in Snapshots'
               PROVE  j <= i /\ CommitId[queue'[i].by] \in queue'[i].state
    OBVIOUS
  <2>1. i = Len(queue) + 1 /\ j \in 1..Len(queue')
    BY <1>6 DEF Snapshots
  <2> QED BY <1>3, <2>1
<1>10. \A u \in CommitCalls : pc'[u] = "committing" => ack'[u] = "wait"
  BY <1>2, <1>4
<1>11. \A u \in Tool : pc'[u] = "transferred" => lock' = u
  BY <1>2 DEF KeepInv, Authorize, Acquire
<1> QED BY <1>7, <1>8, <1>9, <1>10, <1>11 DEF KeepInv

LEMMA ReplayKeep ==
  ASSUME Inv, KeepInv, NEW t \in CommitCalls, Replay(t) \/ Committed(t)
  PROVE  KeepInv'
<1> USE DEF Inv, Typed
<1> /\ t \in Tool /\ t \in Task /\ CommitId[t] \in Commitments
    /\ CommitCalls \subseteq Tool /\ Tool \subseteq Task
    /\ pc \in [Task -> ToolPc \cup JobPc]
  BY Constants DEF Tool, Task, TypeOK
<1>1. /\ UNCHANGED <<stored, outcome, status, logged, queue>>
      /\ pc'[t] = "done" /\ \A u \in Task \ {t} : pc'[u] = pc[u]
  BY DEF Replay, Committed
<1>2. Snapshots' = Snapshots /\ Commits' = Commits
  BY <1>1 DEF Snapshots, Commits
<1>3. \A i \in Commits : queue[i].by \in CommitCalls
  BY DEF Commits, ItemInv
<1>4. CASE Replay(t)
  <2>1. told' \subseteq hot /\ UNCHANGED <<hot, lock, ack>>
    BY <1>4 DEF Replay, Tells, KeepInv
  <2> QED BY <1>1, <1>2, <2>1 DEF KeepInv
<1>5. CASE Committed(t)
  <2>1. hot' = hot \cup {CommitId[t]} /\ told' \subseteq hot'
    BY <1>5 DEF Committed, Tells, KeepInv
  <2>2. pc[t] = "committing" /\ ack[t] = "ok" /\ lock = t
    BY <1>5 DEF Committed, Answered, CommitInv
  <2>3. \A u \in CommitCalls : pc'[u] # "committing"
    BY <1>1, <2>2 DEF CommitInv
  <2>4. Snapshots = {} /\ CommitId[t] \in stored /\ outcome = NoOutcome
    BY <2>2 DEF KeepInv
  <2>5. Commits = {}
    BY <2>4 DEF Commits, Snapshots
  <2>6. \A u \in Tool : pc'[u] # "transferred"
    BY <1>1, <2>2 DEF KeepInv
  <2> QED BY <1>1, <1>2, <2>1, <2>3, <2>4, <2>5, <2>6 DEF KeepInv
<1> QED BY <1>4, <1>5

LEMMA CommitErrorKeep ==
  ASSUME Inv, KeepInv, NEW t \in CommitCalls, ToolError(t) \/ PolicyRaises(t)
  PROVE  KeepInv'
<1> USE DEF Inv, Typed
<1> /\ t \in Tool /\ t \in Task /\ CommitCalls \subseteq Tool /\ Tool \subseteq Task
    /\ pc \in [Task -> ToolPc \cup JobPc] /\ NoOne \notin Task
  BY Constants DEF Tool, Task, TypeOK
<1>1. /\ UNCHANGED <<stored, outcome, status, logged, queue, hot, told>>
      /\ pc'[t] \in {"done", "error"} /\ \A u \in Task \ {t} : pc'[u] = pc[u]
      /\ \A u \in Task \ {t} : ack'[u] = ack[u] /\ (lock = u => lock' = u)
  BY DEF ToolError, PolicyRaises, Answered, Release, TypeOK
<1>2. Snapshots' = Snapshots /\ Commits' = Commits
  BY <1>1 DEF Snapshots, Commits
<1> QED BY <1>1, <1>2 DEF KeepInv

LEMMA SayKeep ==
  ASSUME Inv, KeepInv, Say
  PROVE  KeepInv'
<1> USE DEF Inv, Typed
<1>1. /\ TypeOK /\ NoOne \in Task \cup {NoOne} /\ {} \in SUBSET Item /\ "turn" \in Kind
      /\ said + 1 \in 0..MaxTurns
  BY Constants DEF Kind, Say, TypeOK
<1>2. /\ Len(queue') = Len(queue) + 1 /\ Len(queue) \in Nat
      /\ queue'[Len(queue) + 1] = [kind |-> "turn", state |-> {}, by |-> NoOne, n |-> said + 1]
      /\ \A i \in 1..Len(queue) : queue'[i] = queue[i]
  <2>1. Len(queue) \in Nat
    BY LenProperties DEF TypeOK
  <2>2. Put("turn", {}, NoOne, said + 1)
    BY DEF Say
  <2> QED BY <1>1, <2>1, <2>2, PutLast
<1>3. ASSUME NEW i \in 1..Len(queue'), queue'[i].kind # "turn"
      PROVE  i \in 1..Len(queue) /\ queue'[i] = queue[i]
  BY <1>2, <1>3
<1>4. /\ \A i \in Snapshots' : i \in Snapshots /\ queue'[i] = queue[i]
      /\ \A i \in Commits' : i \in Commits /\ queue'[i] = queue[i]
  BY <1>3 DEF Snapshots, Commits
<1>5. UNCHANGED <<stored, outcome, status, logged, hot, told, pc, ack, lock>>
  BY DEF Say
<1> QED BY <1>4, <1>5 DEF KeepInv

LEMMA WriterKeep ==
  ASSUME Inv, Inv', KeepInv, NEW item \in Heads, queue' = Tail(queue), said' = said,
         NEW answer \in {"ok", "error"}, Answer(item, answer),
         UNCHANGED <<hot, lock, pc, told>>,
         \/ answer = "error" /\ UNCHANGED <<status, stored, outcome, logged>>
         \/ Land(item) /\ status \in Expected(item.kind)
  PROVE  KeepInv'
<1> USE DEF Inv, Typed
<1> /\ CommitCalls \subseteq Task /\ CommitCalls \subseteq Tool
    /\ \A t \in CommitCalls : CommitId[t] \in Commitments
    /\ NoOne \notin Commitments /\ logged \in [Commitments -> Nat]
  BY Constants DEF Tool, Task, TypeOK
<1>1. /\ item = queue[1] /\ Len(queue) \in Nat /\ Len(queue) >= 1
      /\ Len(queue') = Len(queue) - 1
      /\ \A i \in 1..Len(queue') : queue'[i] = queue[i + 1]
      /\ \A t \in Task : ack'[t] = IF t = item.by THEN answer ELSE ack[t]
  BY Taken
<1>2. \A i \in Snapshots' : i + 1 \in Snapshots /\ queue'[i] = queue[i + 1] /\ i >= 1 /\ i \in Nat
  BY <1>1 DEF Snapshots
<1>3. \A i \in Commits' : i + 1 \in Commits /\ queue'[i] = queue[i + 1] /\ i >= 1 /\ i \in Nat
  BY <1>1 DEF Commits
<1>4. item.kind = "commit" <=> item.by \in CommitCalls
  BY <1>1 DEF ItemInv
<1>5. item.kind = "commit" => /\ 1 \in Commits /\ 1 \in Snapshots
                              /\ pc[item.by] = "committing" /\ Snapshots' = {}
                              /\ CommitId[item.by] \in item.state
                              /\ \A t \in CommitCalls : pc[t] = "committing" => t = item.by
  <2> SUFFICES ASSUME item.kind = "commit"
               PROVE  /\ 1 \in Commits /\ 1 \in Snapshots
                      /\ pc[item.by] = "committing" /\ Snapshots' = {}
                      /\ CommitId[item.by] \in item.state
                      /\ \A t \in CommitCalls : pc[t] = "committing" => t = item.by
    OBVIOUS
  <2>1. 1 \in Commits /\ 1 \in Snapshots
    BY <1>1 DEF Commits, Snapshots
  <2>2. Snapshots' = {}
    <3> SUFFICES ASSUME NEW i \in Snapshots' PROVE FALSE
      OBVIOUS
    <3>1. i + 1 \in Snapshots /\ i \in Nat /\ i >= 1
      BY <1>2
    <3>2. i + 1 <= 1
      BY <2>1, <3>1 DEF KeepInv
    <3> QED BY <3>1, <3>2
  <2>3. CommitId[item.by] \in item.state
    BY <1>1, <2>1 DEF KeepInv
  <2>4. pc[item.by] = "committing"
        /\ \A t \in CommitCalls : pc[t] = "committing" => t = item.by
    BY <1>1, <1>4, <2>1 DEF CommitInv
  <2> QED BY <2>1, <2>2, <2>3, <2>4
<1>6. item.kind # "commit" => \A t \in CommitCalls : ack'[t] = ack[t]
  BY <1>1, <1>4
<1>7. \A c \in Commitments : logged[c] > 0 => logged'[c] > 0
  <2>1. CASE logged' = logged
    BY <2>1
  <2>2. CASE Land(item)
    BY <2>2 DEF Land
  <2> QED BY <2>1, <2>2
<1>8. \A i \in Snapshots' :
        /\ hot' \cap Commitments \subseteq queue'[i].state
        /\ \A c \in queue'[i].state \cap Commitments :
             \/ logged'[c] > 0
             \/ queue'[i].kind = "commit" /\ c = CommitId[queue'[i].by]
  <2> SUFFICES ASSUME NEW i \in Snapshots'
               PROVE  /\ hot \cap Commitments \subseteq queue'[i].state
                      /\ \A c \in queue'[i].state \cap Commitments :
                           \/ logged'[c] > 0
                           \/ queue'[i].kind = "commit" /\ c = CommitId[queue'[i].by]
    OBVIOUS
  <2>1. i + 1 \in Snapshots /\ queue'[i] = queue[i + 1]
    BY <1>2
  <2>2. /\ hot \cap Commitments \subseteq queue[i + 1].state
        /\ \A c \in queue[i + 1].state \cap Commitments :
             \/ logged[c] > 0
             \/ queue[i + 1].kind = "commit" /\ c = CommitId[queue[i + 1].by]
    BY <2>1 DEF KeepInv
  <2> QED BY <1>7, <2>1, <2>2
<1>9. \A i \in Commits', j \in Snapshots' : j <= i /\ CommitId[queue'[i].by] \in queue'[i].state
  <2> SUFFICES ASSUME NEW i \in Commits', NEW j \in Snapshots'
               PROVE  j <= i /\ CommitId[queue'[i].by] \in queue'[i].state
    OBVIOUS
  <2>1. /\ i \in Nat /\ j \in Nat /\ queue'[i] = queue[i + 1]
        /\ i + 1 \in Commits /\ j + 1 \in Snapshots
    BY <1>2, <1>3
  <2>2. j + 1 <= i + 1 /\ CommitId[queue[i + 1].by] \in queue[i + 1].state
    BY <2>1 DEF KeepInv
  <2>3. j <= i
    BY <2>1, <2>2
  <2>4. CommitId[queue'[i].by] \in queue'[i].state
    BY <2>1, <2>2
  <2> QED BY <2>3, <2>4
<1>10. \A t \in Tool : pc'[t] = "transferred" => lock' = t
  BY DEF KeepInv
<1>11. Snapshots = {} => Snapshots' = {}
  BY <1>2
<1>12. CASE answer = "error" /\ UNCHANGED <<status, stored, outcome, logged>>
  <2>1. \A t \in CommitCalls : pc'[t] = "committing" =>
          /\ ack'[t] = "ok" => CommitId[t] \in stored' /\ ack[t] = "ok"
          /\ ack'[t] # "wait" => Snapshots' = {}
    BY <1>1, <1>4, <1>5, <1>6, <1>11, <1>12 DEF KeepInv
  <2> QED BY <1>8, <1>9, <1>10, <1>12, <2>1 DEF KeepInv
<1>13. CASE /\ Land(item) /\ status \in Expected(item.kind)
            /\ item.kind \in {"turn", "event", "barrier"}
  <2>1. UNCHANGED <<status, stored, outcome>>
    BY <1>13 DEF Land
  <2>2. \A t \in CommitCalls : pc'[t] = "committing" =>
          /\ ack'[t] = "ok" => CommitId[t] \in stored' /\ ack[t] = "ok"
          /\ ack'[t] # "wait" => Snapshots' = {}
    BY <1>6, <1>11, <1>13, <2>1 DEF KeepInv
  <2> QED BY <1>7, <1>8, <1>9, <1>10, <2>1, <2>2 DEF KeepInv
<1>14. CASE /\ Land(item) /\ status \in Expected(item.kind)
            /\ item.kind \notin {"turn", "event", "barrier"}
  <2>1. 1 \in Snapshots /\ stored' = item.state
    BY <1>1, <1>14 DEF Snapshots, Land
  <2>2. item.kind = "commit" => logged'[CommitId[item.by]] > 0
    BY <1>4, <1>14 DEF Land
  <2>3. hot' \cap Commitments \subseteq stored'
        /\ \A c \in stored' \cap Commitments : logged'[c] > 0
    BY <1>1, <1>7, <2>1, <2>2 DEF KeepInv
  <2>4. \A t \in CommitCalls : pc'[t] = "committing" =>
          /\ ack'[t] = "ok" => CommitId[t] \in stored' /\ item.kind = "commit"
          /\ ack'[t] # "wait" => Snapshots' = {}
    BY <1>5, <1>6, <2>1 DEF KeepInv
  <2>5. CASE item.kind = "finish"
    <3>1. outcome' = item.state \cap Commitments /\ status' = "completing"
      BY <1>14, <2>5 DEF Land
    <3>2. \A c \in outcome' : logged'[c] > 0
      BY <2>1, <2>3, <3>1
    <3>3. outcome' # NoOutcome
      BY <3>1 DEF NoOutcome
    <3> QED BY <1>8, <1>9, <1>10, <2>1, <2>3, <2>4, <2>5, <3>1, <3>2, <3>3
               DEF KeepInv, Talkable
  <2>6. CASE item.kind # "finish"
    <3>1. UNCHANGED <<outcome, status>>
      BY <1>14, <2>6 DEF Land
    <3>2. item.kind = "commit" => outcome = NoOutcome
      BY <1>14 DEF KeepInv, Expected
    <3> QED BY <1>7, <1>8, <1>9, <1>10, <2>1, <2>3, <2>4, <3>1, <3>2 DEF KeepInv
  <2> QED BY <2>5, <2>6
<1> QED BY <1>12, <1>13, <1>14


-----------------------------------------------------------------------------
(* Theorems.                                                               *)

LEMMA InitInv == Init => Inv
<1> SUFFICES ASSUME Init PROVE Inv
  OBVIOUS
<1>1. Typed
  BY InitTyped
<1>2. Commits = {} /\ Turns = {}
  BY DEF Init, Commits, Turns
<1>3. CommitInv
  BY <1>2, Constants DEF CommitInv, Init, Task, Tool
<1>4. TurnInv
  BY <1>2 DEF TurnInv, Init
<1> QED BY <1>1, <1>3, <1>4 DEF Inv

LEMMA NextInv == Inv /\ [Next]_vars => Inv'
<1> SUFFICES ASSUME Inv, [Next]_vars PROVE Inv'
  OBVIOUS
<1>1. ASSUME NEW t \in Tool, ToolCall(t) \/ ToolStep(t) PROVE Inv'
  BY <1>1, ToolSteps
<1>2. CASE Cancel \/ Event \/ Stop \/ UNCHANGED vars \/ \E a \in Asks : Respond(a)
  BY <1>2, ApiQuiet, QuietStep DEF Inv
<1>3. CASE CallEnds \/ WatchdogGivesUp \/ FinishAmd \/ JobFault \/ ShutDown
  BY <1>3, JobQuiet, QuietStep DEF Inv
<1>4. CASE Say
  BY <1>4, SayStep
<1>5. CASE Skip \/ Write \/ Refuse \/ Fault
  BY <1>5, WriterSteps
<1>6. CASE Over
  BY <1>2, <1>6 DEF Over
<1> QED BY <1>1, <1>2, <1>3, <1>4, <1>5, <1>6 DEF Next, Writer

LEMMA Invariance == Spec => []Inv
BY InitInv, NextInv, PTL DEF Spec

LEMMA ShutInvariance == Spec => []ShutInv
<1>1. Init => ShutInv
  BY DEF Init, ShutInv, Late, Last, Terminal, Task
<1>2. Inv /\ ShutInv /\ [Next]_vars => ShutInv'
  <2> SUFFICES ASSUME Inv, ShutInv, [Next]_vars PROVE ShutInv'
    OBVIOUS
  <2>1. Typed
    BY DEF Inv
  <2>2. ASSUME NEW t \in Tool, ToolCall(t) \/ ToolStep(t) PROVE ShutInv'
    BY <2>1, <2>2, ToolShut
  <2>3. CASE Cancel \/ Say \/ Event \/ UNCHANGED vars \/ \E a \in Asks : Respond(a)
    BY <2>1, <2>3, ApiShut
  <2>4. CASE CallEnds \/ WatchdogGivesUp \/ FinishAmd \/ JobFault \/ ShutDown
    BY <2>1, <2>4, JobShut
  <2>5. CASE Writer
    BY <2>1, <2>5, WriterShut
  <2>6. CASE Over
    BY <2>3, <2>6 DEF Over
  <2> QED BY <2>2, <2>3, <2>4, <2>5, <2>6 DEF Next
<1> QED BY <1>1, <1>2, Invariance, PTL DEF Spec

LEMMA WriterKeeps ==
  ASSUME Inv, Inv', KeepInv, Skip \/ Write \/ Refuse \/ Fault
  PROVE  KeepInv'
<1>1. CASE Skip
  BY <1>1, WriterKeep DEF Skip
<1>2. CASE Write
  BY <1>2, WriterKeep DEF Write
<1>3. CASE Refuse
  BY <1>3, WriterKeep DEF Refuse
<1>4. CASE Fault
  BY <1>4, WriterKeep DEF Fault
<1> QED BY <1>1, <1>2, <1>3, <1>4

\* One step of Next under OnlyWriter: calm, or one of those listed.
LEMMA StepKinds ==
  ASSUME OnlyWriter, Inv, KeepInv, [Next]_vars
  PROVE  \/ Typed' /\ Calm
         \/ \E t \in CommitCalls : \/ Authorize(t) \/ Replay(t) \/ Committed(t)
                                   \/ ToolError(t) \/ PolicyRaises(t)
         \/ Say \/ Complete \/ Skip \/ Write \/ Refuse \/ Fault
<1> Typed /\ CommitInv
  BY DEF Inv
<1>1. ASSUME NEW t \in Tool, ToolCall(t) \/ ToolStep(t)
      PROVE  \/ Typed' /\ Calm
             \/ t \in CommitCalls /\ \/ Authorize(t) \/ Replay(t) \/ Committed(t)
                                     \/ ToolError(t) \/ PolicyRaises(t)
  <2>1. CASE t \notin CommitCalls
    BY <1>1, <2>1, ToolCalm
  <2>2. CASE t \in CommitCalls
    BY <1>1, <2>2, CommitSteps
  <2> QED BY <2>1, <2>2
<1>2. CASE Cancel \/ Event \/ Stop \/ UNCHANGED vars \/ \E a \in Asks : Respond(a)
  BY <1>2, ApiCalm
<1>3. CASE ~Complete /\ (CallEnds \/ WatchdogGivesUp \/ FinishAmd \/ JobFault \/ ShutDown)
  BY <1>3, JobCalm
<1>4. CASE Over
  BY <1>2, <1>4 DEF Over
<1> QED BY <1>1, <1>2, <1>3, <1>4 DEF Next, Writer

LEMMA KeepInvariance == OnlyWriter => (Spec => []KeepInv)
<1> SUFFICES ASSUME OnlyWriter PROVE Spec => []KeepInv
  OBVIOUS
<1>1. Init => KeepInv
  <2> SUFFICES ASSUME Init PROVE KeepInv
    OBVIOUS
  <2>1. Commits = {} /\ Snapshots = {} /\ outcome = NoOutcome /\ status = "active"
    BY DEF Init, Commits, Snapshots
  <2>2. \A t \in Tool : pc[t] = "idle"
    BY Constants DEF Init, Task
  <2>3. CommitCalls \subseteq Tool
    BY DEF Tool
  <2> QED BY <2>1, <2>2, <2>3 DEF Init, KeepInv
<1>2. Inv /\ Inv' /\ ShutInv /\ KeepInv /\ [Next]_vars => KeepInv'
  <2> SUFFICES ASSUME Inv, Inv', ShutInv, KeepInv, [Next]_vars PROVE KeepInv'
    OBVIOUS
  <2>1. CASE Typed' /\ Calm
    BY <2>1, CalmStep
  <2>2. ASSUME NEW t \in CommitCalls, Authorize(t) PROVE KeepInv'
    BY <2>2, AuthorizeKeep
  <2>3. ASSUME NEW t \in CommitCalls, Replay(t) \/ Committed(t) PROVE KeepInv'
    BY <2>3, ReplayKeep
  <2>4. ASSUME NEW t \in CommitCalls, ToolError(t) \/ PolicyRaises(t) PROVE KeepInv'
    BY <2>4, CommitErrorKeep
  <2>5. CASE Say \/ Complete
    BY <2>5, SayKeep, CompleteKeep
  <2>6. CASE Skip \/ Write \/ Refuse \/ Fault
    BY <2>6, WriterKeeps
  <2> QED BY <2>1, <2>2, <2>3, <2>4, <2>5, <2>6, StepKinds
<1> QED BY <1>1, <1>2, Invariance, ShutInvariance, PTL DEF Spec

\* Every variable keeps its type, whatever the tools, the API, the writer and the
\* job do to the context of a call.
THEOREM Typing == Spec => []TypeOK
<1>1. Inv => TypeOK
  BY DEF Inv, Typed
<1> QED BY <1>1, Invariance, PTL

\* The model is told that it may make a commitment only after PostgreSQL has
\* recorded it, whatever fails before.
THEOREM Durable == Spec => []ToldIsDurable
<1>1. Inv => ToldIsDurable
  BY DEF Inv, CommitInv, ToldIsDurable
<1> QED BY <1>1, Invariance, PTL

\* No commitment is recorded twice, however many tool calls ask for it at once
\* or again.
THEOREM Once == Spec => []LoggedOnce
<1>1. Inv => LoggedOnce
  BY DEF Inv, CommitInv, LoggedOnce
<1> QED BY <1>1, Invariance, PTL

\* The transcript is at all times a prefix of what was said.
THEOREM Prefix == Spec => []TranscriptPrefix
<1>1. Inv => TranscriptPrefix
  BY DEF Inv, TurnInv, TranscriptPrefix
<1> QED BY <1>1, Invariance, PTL

\* The end of a call is recorded once, unless it was cancelled: events are written
\* before the job ends the call.
THEOREM Ended == Spec => []EndedOnce
<1>1. Inv /\ ShutInv => EndedOnce
  BY DEF Inv, Typed, TypeOK, ShutInv, EndedOnce, Terminal
<1> QED BY <1>1, Invariance, ShutInvariance, PTL

\* A completed call holds every commitment the model was told it may make, provided
\* that nobody writes the state but the writer (OnlyWriter): no answer to a question
\* and no IVR timeout does.
THEOREM Kept == OnlyWriter => (Spec => []CompletedKeepsTold)
<1> SUFFICES ASSUME OnlyWriter PROVE Spec => []CompletedKeepsTold
  OBVIOUS
<1>1. Inv /\ KeepInv => CompletedKeepsTold
  <2> SUFFICES ASSUME Inv, KeepInv PROVE CompletedKeepsTold
    OBVIOUS
  <2>1. told \subseteq hot \cap Commitments
    BY DEF KeepInv, Inv, Typed, TypeOK
  <2> QED BY <2>1 DEF KeepInv, CompletedKeepsTold
<1> QED BY <1>1, Invariance, KeepInvariance, PTL

-----------------------------------------------------------------------------
(* The ledger.                                                             *)

Recorded == {c \in Commitments : logged[c] > 0}
KeptNow  == IF status = "completed" THEN outcome ELSE NoOutcome

\* A step of the ledger, with its variables replaced.
LEMMA LedgerNext ==
  ASSUME \/ UNCHANGED <<Recorded, told, KeptNow>>
         \/ /\ KeptNow = NoOutcome /\ UNCHANGED <<Recorded, told>>
            /\ KeptNow' \subseteq Recorded /\ told \subseteq KeptNow'
         \/ \E c \in Commitments :
              \/ /\ c \notin Recorded /\ Recorded' = Recorded \cup {c}
                 /\ UNCHANGED <<told, KeptNow>>
              \/ /\ c \in Recorded /\ KeptNow = NoOutcome /\ told' = told \cup {c}
                 /\ UNCHANGED <<Recorded, KeptNow>>
  PROVE  [Ledger!Next]_(Ledger!ledger)
BY DEF Ledger!Next, Ledger!ledger, Ledger!Complete, Ledger!Record, Ledger!Tell,
   Recorded, KeptNow

LEMMA CalmLedger ==
  ASSUME Inv, KeepInv, Calm
  PROVE  [Ledger!Next]_(Ledger!ledger)
<1> USE DEF Calm, Quiet
<1>1. Recorded' = Recorded /\ told' = told
  BY DEF Recorded
<1>2. CASE status' = "completed" /\ status = "completing"
  <2>1. outcome # NoOutcome /\ told \subseteq hot \cap Commitments
    BY <1>2 DEF KeepInv, Inv, Typed, TypeOK
  <2>2. outcome \subseteq Recorded /\ told \subseteq outcome
    BY <2>1 DEF KeepInv, Recorded
  <2> QED BY <1>1, <1>2, <2>2, LedgerNext DEF KeptNow
<1>3. CASE status' = status \/ (status # "completed" /\ status' # "completed")
  <2>1. KeptNow' = KeptNow
    BY <1>3 DEF KeptNow
  <2> QED BY <1>1, <2>1, LedgerNext
<1> QED BY <1>2, <1>3

LEMMA ReplayLedger ==
  ASSUME Inv, ShutInv, NEW t \in CommitCalls, Replay(t) \/ Committed(t)
  PROVE  [Ledger!Next]_(Ledger!ledger)
<1> CommitId[t] \in Commitments /\ t \in Tool
  BY Constants DEF Tool
<1>1. UNCHANGED <<Recorded, KeptNow>>
  BY DEF Replay, Committed, Recorded, KeptNow
<1>2. CommitId[t] \in Recorded
  BY DEF Replay, Committed, Answered, Inv, CommitInv, Recorded
<1>3. pc[Job] # "over"
  BY DEF Replay, Committed, Callable, ShutInv, Late, Last
<1>4. KeptNow = NoOutcome
  BY <1>3 DEF ShutInv, KeptNow
<1>5. told' = told \/ told' = told \cup {CommitId[t]}
  BY DEF Replay, Committed, Tells
<1> QED BY <1>1, <1>2, <1>4, <1>5, LedgerNext

LEMMA WriterLedger ==
  ASSUME Inv, Inv', Skip \/ Write \/ Refuse \/ Fault
  PROVE  [Ledger!Next]_(Ledger!ledger)
<1>1. told' = told
  BY DEF Skip, Write, Refuse, Fault
<1>2. PICK item \in Heads :
        \/ UNCHANGED <<status, outcome, logged>>
        \/ Land(item) /\ status \in Expected(item.kind)
  BY DEF Skip, Write, Refuse, Fault
<1>3. item.kind = "commit" => item.by \in CommitCalls
  <2>1. queue \in Seq(ItemType) /\ queue # <<>> /\ item = Head(queue)
    BY DEF Inv, Typed, TypeOK, Heads
  <2>2. item = queue[1] /\ 1 \in 1..Len(queue)
    BY <2>1, HeadTailProperties, EmptySeq, LenProperties
  <2> QED BY <2>2 DEF Inv, Typed, ItemInv
<1>4. CASE UNCHANGED <<status, outcome, logged>>
  BY <1>1, <1>4, LedgerNext DEF Recorded, KeptNow
<1>5. CASE Land(item) /\ status \in Expected(item.kind)
  <2>1. KeptNow' = KeptNow
    BY <1>5 DEF Land, Expected, Talkable, KeptNow
  <2>2. CASE item.kind # "commit"
    BY <1>1, <1>5, <2>1, <2>2, LedgerNext DEF Land, Recorded
  <2>3. CASE item.kind = "commit"
    <3> DEFINE c == CommitId[item.by]
    <3>1. c \in Commitments /\ logged \in [Commitments -> Nat]
      BY <1>3, <2>3, Constants DEF Inv, Typed, TypeOK
    <3>2. /\ logged'[c] = logged[c] + 1
          /\ \A d \in Commitments \ {c} : logged'[d] = logged[d]
      BY <1>5, <2>3, <3>1 DEF Land
    <3>3. logged'[c] <= 1
      BY <3>1 DEF Inv, CommitInv
    <3> HIDE DEF c
    <3>4. c \notin Recorded /\ Recorded' = Recorded \cup {c}
      BY <3>1, <3>2, <3>3 DEF Recorded
    <3> QED BY <1>1, <2>1, <3>1, <3>4, LedgerNext
  <2> QED BY <2>2, <2>3
<1> QED BY <1>2, <1>4, <1>5

\* The queue, the writer, the lock and the shut-down implement the ledger, under
\* the condition of Kept.
THEOREM Implements == OnlyWriter => (Spec => LedgerSpec)
<1> SUFFICES ASSUME OnlyWriter PROVE Spec => LedgerSpec
  OBVIOUS
<1>1. Init => Ledger!Init
  BY DEF Init, Ledger!Init
<1>2. Inv /\ Inv' /\ ShutInv /\ KeepInv /\ [Next]_vars => [Ledger!Next]_(Ledger!ledger)
  <2> SUFFICES ASSUME Inv, Inv', ShutInv, KeepInv, [Next]_vars
               PROVE  [Ledger!Next]_(Ledger!ledger)
    OBVIOUS
  <2>1. CASE Typed' /\ Calm
    BY <2>1, CalmLedger
  <2>2. ASSUME NEW t \in CommitCalls, Replay(t) \/ Committed(t)
        PROVE  [Ledger!Next]_(Ledger!ledger)
    BY <2>2, ReplayLedger
  <2>3. ASSUME NEW t \in CommitCalls, Authorize(t) \/ ToolError(t) \/ PolicyRaises(t)
        PROVE  [Ledger!Next]_(Ledger!ledger)
    BY <2>3, LedgerNext DEF Authorize, ToolError, PolicyRaises, Recorded, KeptNow
  <2>4. CASE Say
    BY <2>4, LedgerNext DEF Say, Recorded, KeptNow
  <2>5. CASE Complete
    BY <2>5, LedgerNext DEF Complete, Recorded, KeptNow, Talkable, Terminal
  <2>6. CASE Skip \/ Write \/ Refuse \/ Fault
    BY <2>6, WriterLedger
  <2> QED BY <2>1, <2>2, <2>3, <2>4, <2>5, <2>6, StepKinds
<1> QED BY <1>1, <1>2, Invariance, ShutInvariance, KeepInvariance, PTL DEF Spec,
           LedgerSpec, Ledger!Spec

=============================================================================
