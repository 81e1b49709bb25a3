------------------------- MODULE VoiceSessionProofs -------------------------
(***************************************************************************)
(* Questions and the watchdog, for any number of questions, answers and    *)
(* turns: what the model is told agrees with the rows, a call that waits   *)
(* for its client has somebody who waits, and the watchdog speaks into     *)
(* silence that is owed an answer only.                                    *)
(***************************************************************************)
EXTENDS VoiceSession, FiniteSetTheorems, TLAPS

Asking == {"waiting", "late", "expire", "expire_only", "reset"}

\* Types, as far as the steps depend on them.
InputTypes ==
  /\ call \in {"active", "input_required", "ended"}
  /\ row \in [Ask -> {"none", "pending", "resolved", "expired"}]
  /\ DOMAIN given = Ask /\ DOMAIN told = Ask
  /\ ask \in [Ask -> {"idle", "request", "inserted", "done"} \cup Asking]
  /\ api \in [Client -> [pc : {"idle", "resolve", "update", "lost", "done"}, to : Ask]]

\* A question that goes on has told nothing; its row is pending from the insert
\* on, holds an answer once it is resolved, and is not pending after the expiry.
QuestionInv ==
  \A a \in Ask :
    /\ ask[a] # "done" => told[a] = Nothing
    /\ ask[a] \in {"idle", "request"} => row[a] = "none"
    /\ ask[a] = "inserted" => row[a] = "pending"
    /\ ask[a] = "reset" => row[a] # "pending"
    /\ row[a] = "resolved" => given[a] \in Value

\* Nobody answers a question before its call waits for the answer.
AnswerInv ==
  \A r \in Client : api[r].pc \in {"resolve", "update"} =>
    ask[api[r].to] \notin {"idle", "request", "inserted"}

InputInv == InputTypes /\ QuestionInv /\ AnswerInv /\ ToldIsGiven /\ TimeoutIsFinal

\* The question that made the call wait is pending or expires just now, or its
\* answer is about to make the call ACTIVE; or a statement of either has failed.
WaitInv ==
  call = "input_required" =>
    \/ \E a \in Ask : \/ ask[a] \in {"waiting", "late", "expire"} /\ row[a] = "pending"
                      \/ ask[a] = "reset" \/ told[a] = "failed"
    \/ \E r \in Client : api[r].pc \in {"update", "lost"}
    \/ ~alive

\* Every tool call that runs is a question that goes on, and is counted.
ToolInv ==
  /\ running \subseteq {a \in ToolAsk : ask[a] \notin {"idle", "done"}}
  /\ IsFiniteSet(running) /\ depth = Cardinality(running)
  /\ ~alive => running = {}

\* The watch goes on only as long as the turn is owed an answer, and past the
\* reply only in silence.
WatchInv ==
  /\ watch \in {"none", "sleeping", "waiting"} /\ owed \in {"no", "turn", "seen", "asked"}
  /\ watch = "sleeping" => owed \in {"turn", "seen"}
  /\ watch = "waiting" => /\ owed = "asked" /\ user # "speaking" /\ agent # "speaking"
                          /\ running = {}

Inv == InputInv /\ WaitInv /\ ToolInv /\ WatchInv

LEMMA InitInv == Init => Inv
<1> SUFFICES ASSUME Init PROVE Inv
  OBVIOUS
<1> PICK load \in Loads : InputInit(load.asks, load.clients)
  BY DEF Init
<1>1. InputTypes
  BY DEF InputInit, InputTypes, Asking, Ask
<1>2. QuestionInv /\ AnswerInv
  BY DEF InputInit, QuestionInv, AnswerInv
<1>3. ToldIsGiven /\ TimeoutIsFinal
  BY InputConstants DEF InputInit, ToldIsGiven, TimeoutIsFinal, NoAnswer, Nothing
<1>4. WaitInv
  BY DEF InputInit, WaitInv
<1>5. ToolInv /\ WatchInv
  BY FS_EmptySet DEF Init, WatchdogInit, ToolInv, WatchInv
<1> QED BY <1>1, <1>2, <1>3, <1>4, <1>5 DEF Inv, InputInv

-----------------------------------------------------------------------------
(* The questions: each step of a question, a client or the end of the      *)
(* call keeps what concerns the rows.                                      *)

USE DEF Goto, Return, Nothing

LEMMA BeginInput ==
  ASSUME InputInv, NEW a \in Ask, Begin(a)
  PROVE  InputInv'
<1> USE DEF Begin, InputInv
<1>1. InputTypes' /\ QuestionInv' /\ AnswerInv'
  BY DEF InputTypes, QuestionInv, AnswerInv, Asking
<1>2. ToldIsGiven' /\ TimeoutIsFinal'
  BY DEF ToldIsGiven, TimeoutIsFinal, NoAnswer
<1> QED BY <1>1, <1>2

LEMMA ProceedInput ==
  ASSUME InputInv, NEW a \in Ask, Proceed(a)
  PROVE  InputInv'
<1> USE DEF InputInv, InputTypes
<1>1. CASE Insert(a)
  BY <1>1, InputConstants DEF Insert, QuestionInv, AnswerInv, Asking, ToldIsGiven, TimeoutIsFinal, NoAnswer
<1>2. CASE Require(a)
  BY <1>2, InputConstants DEF Require, QuestionInv, AnswerInv, Asking, ToldIsGiven, TimeoutIsFinal, NoAnswer
<1>3. CASE PollResolved(a)
  <2>1. Result(a) \in Value => Result(a) = given[a]
    BY InputConstants DEF Result
  <2>2. InputTypes' /\ QuestionInv' /\ AnswerInv'
    BY <1>3 DEF PollResolved, QuestionInv, AnswerInv, Asking
  <2>3. ToldIsGiven'
    BY <1>3, <2>1 DEF PollResolved, ToldIsGiven
  <2>4. TimeoutIsFinal'
    BY <1>3 DEF PollResolved, TimeoutIsFinal, NoAnswer
  <2> QED BY <2>2, <2>3, <2>4
<1>4. CASE PollExpired(a)
  BY <1>4 DEF PollExpired, QuestionInv, AnswerInv, Asking, ToldIsGiven, TimeoutIsFinal, NoAnswer
<1>5. CASE ExpireRead(a)
  BY <1>5 DEF ExpireRead, QuestionInv, AnswerInv, Asking, ToldIsGiven, TimeoutIsFinal, NoAnswer
<1>6. CASE ExpireRow(a)
  <2>1. InputTypes' /\ QuestionInv' /\ AnswerInv'
    BY <1>6 DEF ExpireRow, QuestionInv, AnswerInv, Asking
  <2>2. ToldIsGiven'
    BY <1>6, InputConstants DEF ExpireRow, QuestionInv, AnswerInv, ToldIsGiven, NoAnswer
  <2>3. TimeoutIsFinal'
    BY <1>6 DEF ExpireRow, TimeoutIsFinal, NoAnswer
  <2> QED BY <2>1, <2>2, <2>3
<1>7. CASE ExpireUpdate(a)
  <2>1. InputTypes' /\ QuestionInv' /\ AnswerInv'
    BY <1>7 DEF ExpireUpdate, QuestionInv, AnswerInv, Asking
  <2>2. ToldIsGiven'
    BY <1>7, InputConstants DEF ExpireUpdate, ToldIsGiven, NoAnswer
  <2>3. TimeoutIsFinal'
    BY <1>7 DEF ExpireUpdate, QuestionInv, AnswerInv, TimeoutIsFinal, NoAnswer
  <2> QED BY <2>1, <2>2, <2>3
<1> QED BY <1>1, <1>2, <1>3, <1>4, <1>5, <1>6, <1>7 DEF Proceed

\* A statement that fails leaves the rows as they are, or as it should.
LEMMA FailInput ==
  ASSUME InputInv, NEW a \in Ask, Fails(a)
  PROVE  InputInv'
<1> USE DEF InputInv, InputTypes
<1>1. CASE RequestFails(a)
  <2>1. InputTypes' /\ QuestionInv' /\ AnswerInv'
    BY <1>1 DEF RequestFails, QuestionInv, AnswerInv, Asking
  <2>2. ToldIsGiven' /\ TimeoutIsFinal'
    BY <1>1, InputConstants DEF RequestFails, QuestionInv, ToldIsGiven, TimeoutIsFinal, NoAnswer
  <2> QED BY <2>1, <2>2
<1>2. CASE RequireFails(a)
  BY <1>2, InputConstants DEF RequireFails, QuestionInv, AnswerInv, Asking, ToldIsGiven, TimeoutIsFinal, NoAnswer
<1>3. CASE WaitFails(a)
  <2> USE DEF WaitFails, Waiting
  <2>1. InputTypes' /\ QuestionInv' /\ AnswerInv'
    BY <1>3 DEF QuestionInv, AnswerInv, Asking
  <2>2. ToldIsGiven'
    BY <1>3, InputConstants DEF ToldIsGiven
  <2>3. TimeoutIsFinal'
    BY <1>3 DEF TimeoutIsFinal, NoAnswer
  <2> QED BY <2>1, <2>2, <2>3
<1> QED BY <1>1, <1>2, <1>3 DEF Fails

LEMMA GoneInput ==
  ASSUME InputInv, PollGone
  PROVE  InputInv'
<1> USE DEF InputInv, InputTypes, PollGone
<1> Amd \in Ask
  BY DEF Ask
<1>1. InputTypes' /\ QuestionInv' /\ AnswerInv'
  BY DEF QuestionInv, AnswerInv, Asking
<1>2. ToldIsGiven'
  BY InputConstants DEF ToldIsGiven
<1>3. TimeoutIsFinal'
  BY DEF TimeoutIsFinal, NoAnswer
<1> QED BY <1>1, <1>2, <1>3

LEMMA CancelInput ==
  ASSUME InputInv, CancelTools
  PROVE  InputInv'
<1> USE DEF InputInv, InputTypes, CancelTools, Ask
<1>1. InputTypes' /\ QuestionInv' /\ AnswerInv'
  BY DEF QuestionInv, AnswerInv, Asking
<1>2. ToldIsGiven'
  BY InputConstants DEF ToldIsGiven
<1>3. TimeoutIsFinal'
  BY InputConstants DEF TimeoutIsFinal, NoAnswer
<1> QED BY <1>1, <1>2, <1>3

LEMMA RespondInput ==
  ASSUME InputInv, NEW r \in Client, Respond(r)
  PROVE  InputInv'
<1> USE DEF InputInv, InputTypes
<1>1. CASE RespondRead(r)
  BY <1>1 DEF RespondRead, Announced, QuestionInv, AnswerInv, ToldIsGiven, TimeoutIsFinal, NoAnswer
<1>2. CASE RespondResolve(r)
  <2>1. InputTypes'
    BY <1>2 DEF RespondResolve
  <2>2. QuestionInv' /\ AnswerInv'
    BY <1>2 DEF RespondResolve, QuestionInv, AnswerInv
  <2>3. ToldIsGiven'
    BY <1>2 DEF RespondResolve, ToldIsGiven
  <2>4. TimeoutIsFinal'
    BY <1>2 DEF RespondResolve, TimeoutIsFinal, NoAnswer
  <2> QED BY <2>1, <2>2, <2>3, <2>4
<1>3. CASE RespondUpdate(r)
  BY <1>3 DEF RespondUpdate, QuestionInv, AnswerInv, ToldIsGiven, TimeoutIsFinal, NoAnswer
<1>4. CASE RespondFails(r)
  BY <1>4 DEF RespondFails, QuestionInv, AnswerInv, ToldIsGiven, TimeoutIsFinal, NoAnswer
<1> QED BY <1>1, <1>2, <1>3, <1>4 DEF Respond, Answer

LEMMA SameInput ==
  ASSUME InputInv, EndCall \/ UNCHANGED input
  PROVE  InputInv'
<1>1. UNCHANGED <<row, given, ask, told, api>> /\ call' \in {"ended", call}
  BY DEF EndCall, input
<1>2. InputTypes' /\ QuestionInv' /\ AnswerInv'
  BY <1>1 DEF InputInv, InputTypes, QuestionInv, AnswerInv
<1>3. ToldIsGiven' /\ TimeoutIsFinal'
  BY <1>1 DEF InputInv, ToldIsGiven, TimeoutIsFinal, NoAnswer
<1> QED BY <1>2, <1>3 DEF InputInv

-----------------------------------------------------------------------------
(* Who waits for the client.                                               *)

LEMMA ProceedWait ==
  ASSUME InputInv, WaitInv, NEW a \in Ask, Proceed(a), alive' = alive
  PROVE  WaitInv'
<1> USE DEF InputInv, InputTypes, WaitInv
<1>1. CASE Insert(a)
  BY <1>1 DEF Insert
<1>2. CASE Require(a)
  <2>1. row[a] = "pending" \/ row[a] # "pending"
    OBVIOUS
  <2> QED BY <1>2, <2>1 DEF Require, QuestionInv
<1>3. CASE PollResolved(a)
  BY <1>3 DEF PollResolved, QuestionInv
<1>4. CASE PollExpired(a)
  BY <1>4 DEF PollExpired
<1>5. CASE ExpireRead(a)
  BY <1>5 DEF ExpireRead
<1>6. CASE ExpireRow(a)
  BY <1>6 DEF ExpireRow, QuestionInv
<1>7. CASE ExpireUpdate(a)
  BY <1>7 DEF ExpireUpdate, QuestionInv
<1> QED BY <1>1, <1>2, <1>3, <1>4, <1>5, <1>6, <1>7 DEF Proceed

\* A question that fails makes the exception of WaitInv true.
LEMMA FailWait ==
  ASSUME InputInv, WaitInv, NEW a \in Ask, Fails(a), alive' = alive
  PROVE  WaitInv'
<1> USE DEF InputInv, InputTypes, WaitInv
<1>1. CASE RequestFails(a)
  BY <1>1 DEF RequestFails, QuestionInv
<1>2. CASE RequireFails(a)
  BY <1>2 DEF RequireFails
<1>3. CASE WaitFails(a)
  BY <1>3 DEF WaitFails
<1> QED BY <1>1, <1>2, <1>3 DEF Fails

LEMMA RespondWait ==
  ASSUME InputInv, WaitInv, NEW r \in Client, Respond(r), alive' = alive
  PROVE  WaitInv'
<1> USE DEF InputInv, InputTypes, WaitInv
<1>1. CASE RespondRead(r)
  BY <1>1 DEF RespondRead
<1>2. CASE RespondResolve(r)
  BY <1>2 DEF RespondResolve
<1>3. CASE RespondUpdate(r)
  BY <1>3 DEF RespondUpdate
<1>4. CASE RespondFails(r)
  BY <1>4 DEF RespondFails
<1> QED BY <1>1, <1>2, <1>3, <1>4 DEF Respond, Answer

\* A question that begins or reads an answer does not wait; a session that is
\* closed, and a call that has ended, wait for nobody.
LEMMA OtherWait ==
  ASSUME InputInv, WaitInv,
         \/ ~alive'
         \/ /\ alive' = alive
            /\ EndCall \/ UNCHANGED input \/ PollGone \/ \E a \in Ask : Begin(a)
  PROVE  WaitInv'
<1> USE DEF InputInv, InputTypes, WaitInv
<1>1. CASE ~alive'
  BY <1>1
<1>2. CASE alive' = alive /\ (EndCall \/ UNCHANGED input)
  BY <1>2 DEF EndCall, input
<1>3. CASE alive' = alive /\ PollGone
  BY <1>3 DEF PollGone, QuestionInv, Ask
<1>4. ASSUME alive' = alive, NEW a \in Ask, Begin(a) PROVE WaitInv'
  BY <1>4 DEF Begin
<1> QED BY <1>1, <1>2, <1>3, <1>4

-----------------------------------------------------------------------------
(* The watchdog and the tool calls it counts.                              *)

\* The states that LiveKit reports, and the timers.
LEMMA TalkWatch ==
  ASSUME ToolInv, WatchInv, Conversation \/ Timer \/ Timeout, UNCHANGED ask
  PROVE  ToolInv' /\ WatchInv'
<1>1. UNCHANGED <<running, depth, alive>>
  BY DEF Conversation, UserState, Transcript, AgentState, Timer, Timeout
<1>2. ToolInv'
  BY <1>1 DEF ToolInv
<1> USE DEF WatchInv, Stirred
<1>3. ASSUME NEW s, UserState(s) PROVE WatchInv'
  BY <1>3 DEF UserState
<1>4. CASE Transcript
  BY <1>2, <1>4 DEF Transcript
<1>5. ASSUME NEW s, AgentState(s) PROVE WatchInv'
  BY <1>5 DEF AgentState
<1>6. CASE Timer
  <2>1. MayTrigger => agent # "speaking" /\ user # "speaking" /\ running = {}
    <3>1. depth = 0 => running = {}
      BY FS_EmptySet DEF ToolInv
    <3> QED BY <3>1 DEF MayTrigger
  <2> QED BY <1>2, <1>6, <2>1 DEF Timer, AskModel, SayPhrase, GiveUp
<1>7. CASE Timeout
  BY <1>2, <1>7 DEF Timeout, SayPhrase, GiveUp
<1> QED BY <1>2, <1>3, <1>4, <1>5, <1>6, <1>7 DEF Conversation

\* A tool call begins.
LEMMA StartWatch ==
  ASSUME InputInv, ToolInv, WatchInv, NEW a \in ToolAsk, alive, Begin(a), ToolStarted(a)
  PROVE  ToolInv' /\ WatchInv'
<1> a \in Ask
  BY DEF Ask
<1>1. a \notin running
  BY DEF Begin, ToolInv
<1>2. IsFiniteSet(running') /\ Cardinality(running') = Cardinality(running) + 1
  BY <1>1, FS_AddElement DEF ToolInv, ToolStarted
<1>3. ToolInv'
  BY <1>2 DEF ToolInv, ToolStarted, Begin, InputInv, InputTypes
<1>4. WatchInv'
  BY DEF WatchInv, ToolStarted
<1> QED BY <1>3, <1>4

\* A question takes a step, and may end its tool call with it.
LEMMA AskWatch ==
  ASSUME InputInv, ToolInv, WatchInv, NEW a \in Ask, Asks(a)
  PROVE  ToolInv' /\ WatchInv'
<1>1. \A b \in Ask \ {a} : ask'[b] = ask[b]
  BY DEF Asks, Proceed, Insert, Require, PollResolved, PollExpired, ExpireRead, ExpireRow,
         ExpireUpdate, Fails, RequestFails, RequireFails, WaitFails, InputInv, InputTypes
<1>2. ask'[a] # "idle"
  BY DEF Asks, Proceed, Insert, Require, PollResolved, PollExpired, ExpireRead, ExpireRow,
         ExpireUpdate, Fails, RequestFails, RequireFails, WaitFails, InputInv, InputTypes
<1>3. CASE a \in running /\ ask'[a] = "done" /\ ToolEnded(a)
  <2>1. running' = running \ {a}
    BY <1>3 DEF ToolEnded
  <2>2. IsFiniteSet(running') /\ Cardinality(running') = Cardinality(running) - 1
    BY <1>3, <2>1, FS_RemoveElement DEF ToolInv
  <2>3. Cardinality(running) \in Nat /\ Cardinality(running) # 0
    BY <1>3, FS_CardinalityType, FS_EmptySet DEF ToolInv
  <2>4. depth' = Cardinality(running')
    BY <1>3, <2>2, <2>3 DEF ToolInv, ToolEnded
  <2>5. ToolInv'
    BY <1>1, <1>3, <2>1, <2>2, <2>4 DEF ToolInv, ToolEnded, Ask
  <2>6. WatchInv'
    BY <1>3, <2>1 DEF WatchInv, ToolEnded, Stirred
  <2> QED BY <2>5, <2>6
<1>4. CASE ~(a \in running /\ ask'[a] = "done") /\ UNCHANGED voice
  <2>1. ToolInv'
    BY <1>1, <1>2, <1>4 DEF ToolInv, voice, said, Ask
  <2>2. WatchInv'
    BY <1>4 DEF WatchInv, voice
  <2> QED BY <2>1, <2>2
<1> QED BY <1>3, <1>4 DEF Asks

\* The session closes, or has closed, and its tool calls are cancelled or over.
LEMMA CloseWatch ==
  ASSUME ToolInv, WatchInv, SessionCloses \/ (~alive /\ UNCHANGED voice)
  PROVE  ToolInv' /\ WatchInv' /\ ~alive'
<1>1. CASE SessionCloses
  BY <1>1, FS_EmptySet DEF SessionCloses, ToolInv, WatchInv, Stirred
<1>2. CASE ~alive /\ UNCHANGED voice
  BY <1>2, FS_EmptySet DEF voice, ToolInv, WatchInv
<1> QED BY <1>1, <1>2

\* Everything else leaves the tool calls alone and the watch, or ends it.
LEMMA QuietWatch ==
  ASSUME ToolInv, WatchInv, FinishExecuted \/ WatchdogCloses \/ UNCHANGED voice,
         \A a \in ToolAsk : ask'[a] = ask[a]
  PROVE  ToolInv' /\ WatchInv'
<1>1. UNCHANGED <<user, agent, running, depth, alive>>
  BY DEF FinishExecuted, WatchdogCloses, voice
<1>2. ToolInv'
  BY <1>1 DEF ToolInv
<1>3. WatchInv'
  BY <1>1 DEF WatchInv, FinishExecuted, WatchdogCloses, voice
<1> QED BY <1>2, <1>3

-----------------------------------------------------------------------------
(* All steps together.                                                     *)

LEMMA NextInv == Inv /\ [Next]_vars => Inv'
<1> SUFFICES ASSUME Inv, [Next]_vars PROVE Inv'
  OBVIOUS
<1> USE DEF Inv
<1>1. ASSUME Conversation \/ Timer \/ Timeout, UNCHANGED <<input, ends>> PROVE Inv'
  <2>1. UNCHANGED input /\ UNCHANGED ask /\ alive' = alive
    BY <1>1 DEF input, Conversation, UserState, Transcript, AgentState, Timer, Timeout
  <2>2. InputInv' /\ WaitInv'
    BY <2>1, SameInput, OtherWait
  <2> QED BY <1>1, <2>1, <2>2, TalkWatch
<1>2. ASSUME NEW a \in ToolAsk, CallsTool(a) PROVE Inv'
  <2>1. a \in Ask /\ alive /\ Begin(a) /\ ToolStarted(a) /\ alive' = alive
    BY <1>2 DEF CallsTool, ToolStarted, Ask
  <2>2. InputInv' /\ WaitInv'
    BY <2>1, BeginInput, OtherWait
  <2> QED BY <2>1, <2>2, StartWatch
<1>3. CASE AsksAmd
  <2>1. Amd \in Ask /\ Begin(Amd) /\ UNCHANGED voice /\ alive' = alive
    BY <1>3 DEF AsksAmd, Ask, voice
  <2>2. \A a \in ToolAsk : ask'[a] = ask[a]
    BY <2>1, InputConstants DEF Begin, InputInv, InputTypes, Ask
  <2>3. InputInv' /\ WaitInv'
    BY <2>1, BeginInput, OtherWait
  <2> QED BY <2>1, <2>2, <2>3, QuietWatch
<1>4. CASE AmdGone
  <2>1. PollGone /\ UNCHANGED voice /\ alive' = alive
    BY <1>4 DEF AmdGone, voice
  <2>2. \A a \in ToolAsk : ask'[a] = ask[a]
    BY <2>1, InputConstants DEF PollGone, InputInv, InputTypes, Ask
  <2>3. InputInv' /\ WaitInv'
    BY <2>1, GoneInput, OtherWait
  <2> QED BY <2>1, <2>2, <2>3, QuietWatch
<1>5. ASSUME NEW a \in Ask, Asks(a) PROVE Inv'
  <2>1. (Proceed(a) \/ Fails(a)) /\ alive' = alive
    BY <1>5 DEF Asks, ToolEnded, voice
  <2>2. InputInv' /\ WaitInv'
    BY <2>1, ProceedInput, FailInput, ProceedWait, FailWait
  <2> QED BY <1>5, <2>2, AskWatch
<1>6. ASSUME NEW r \in Client, Respond(r), UNCHANGED <<voice, ends>> PROVE Inv'
  <2>1. UNCHANGED voice /\ UNCHANGED ask /\ alive' = alive
    BY <1>6 DEF Respond, Answer, RespondRead, RespondResolve, RespondUpdate, RespondFails, voice
  <2>2. InputInv' /\ WaitInv'
    BY <1>6, <2>1, RespondInput, RespondWait
  <2> QED BY <2>1, <2>2, QuietWatch
<1>7. ASSUME EndCall \/ UNCHANGED input, FinishExecuted \/ WatchdogCloses \/ UNCHANGED voice
      PROVE  Inv'
  <2>1. UNCHANGED ask /\ alive' = alive
    BY <1>7 DEF EndCall, input, FinishExecuted, WatchdogCloses, voice
  <2>2. InputInv' /\ WaitInv'
    BY <1>7, <2>1, SameInput, OtherWait
  <2> QED BY <1>7, <2>1, <2>2, QuietWatch
<1>8. ASSUME SessionCloses \/ (~alive /\ UNCHANGED voice), CancelTools \/ (running = {} /\ UNCHANGED input)
      PROVE  Inv'
  <2>1. ToolInv' /\ WatchInv' /\ ~alive'
    BY <1>8, CloseWatch
  <2>2. InputInv'
    BY <1>8, CancelInput, SameInput
  <2> QED BY <2>1, <2>2 DEF WaitInv
<1>9. CASE Job
  <2>1. CASE StartTalk
    BY <1>7, <2>1 DEF StartTalk
  <2>2. CASE EndTalk \/ Farewell
    BY <1>7, <2>2 DEF EndTalk, Farewell
  <2>3. CASE CloseSession
    <3>1. SessionCloses \/ (~alive /\ UNCHANGED voice)
      BY <2>3 DEF CloseSession
    <3>2. CancelTools \/ (running = {} /\ UNCHANGED input)
      BY <2>3 DEF CloseSession, ToolInv
    <3> QED BY <1>8, <3>1, <3>2
  <2>4. CASE CloseObserver
    BY <1>7, <2>4 DEF CloseObserver
  <2> QED BY <1>9, <2>1, <2>2, <2>3, <2>4 DEF Job
<1>10. CASE FinishCall \/ HangUp \/ Cancel
  BY <1>7, <1>10 DEF FinishCall, HangUp, Cancel
<1>11. CASE SessionLost
  BY <1>8, <1>11 DEF SessionLost
<1>12. CASE UNCHANGED vars
  BY <1>7, <1>12 DEF vars
<1> QED BY <1>1, <1>2, <1>3, <1>4, <1>5, <1>6, <1>9, <1>10, <1>11, <1>12 DEF Next, Watchdog, Ended

LEMMA Always == Spec => []Inv
<1> QED BY InitInv, NextInv, PTL DEF Spec

\* What the model is told is the answer that stands in the row of its question,
\* however respond, the poll, the timeout and a hang-up interleave.
THEOREM Told == Spec => []ToldIsGiven
<1>1. Inv => ToldIsGiven
  BY DEF Inv, InputInv
<1> QED BY <1>1, Always, PTL

\* A question the model believes to be unanswered can no longer be answered.
THEOREM Timeouts == Spec => []TimeoutIsFinal
<1>1. Inv => TimeoutIsFinal
  BY DEF Inv, InputInv
<1> QED BY <1>1, Always, PTL

\* A call in INPUT_REQUIRED has a question that goes on, or an answer on its way,
\* however they interleave, unless a statement of one of them has failed.
THEOREM Waits == Spec => []SomebodyAsks
<1>1. Inv => SomebodyAsks
  BY DEF Inv, WaitInv, SomebodyAsks, Waiting
<1> QED BY <1>1, Always, PTL

\* The watchdog speaks in its two timers only.
LEMMA OnlyTimers == [Next]_vars /\ ~Timer /\ ~Timeout => UNCHANGED said
<1> QED BY DEF Next, Watchdog, Conversation, UserState, Transcript, AgentState, CallsTool,
      ToolStarted, AsksAmd, AmdGone, Asks, ToolEnded, Respond, FinishCall, FinishExecuted,
      HangUp, SessionLost, SessionCloses, Cancel, Job, StartTalk, EndTalk, Farewell,
      CloseSession, CloseObserver, WatchdogCloses, Ended, vars, voice, said

\* The phrase comes two seconds after the last look at the states, and still
\* never while somebody speaks or a tool call runs: each of these ends the watch.
THEOREM Silence == Spec => NeverTalksOver
<1> DEFINE Into == said' # said => user # "speaking" /\ agent # "speaking" /\ running = {}
<1>1. Inv /\ [Next]_vars => Into
  <2> SUFFICES ASSUME Inv, Timer \/ Timeout PROVE Into
    BY OnlyTimers
  <2>1. depth = 0 => running = {}
    BY FS_EmptySet DEF Inv, ToolInv
  <2>2. CASE Timer
    BY <2>1, <2>2 DEF Timer, MayTrigger
  <2>3. CASE Timeout
    BY <2>3 DEF Timeout, Inv, WatchInv
  <2> QED BY <2>2, <2>3
<1>2. [Next]_vars /\ Into => [Into]_voice
  OBVIOUS
<1>3. Inv /\ [Next]_vars => [Into]_voice
  BY <1>1, <1>2
<1> QED BY <1>3, Always, PTL DEF Spec, NeverTalksOver

\* One reply for a turn nobody has answered; a phrase only while that turn or the
\* reply has not been heard, once and never with a reply, also when generate_reply
\* or say fails in an open session.
THEOREM Owed == Spec => OnlyWhenOwed
<1> DEFINE Due == /\ replies' # replies => owed \in {"turn", "seen"} /\ replies' = replies + 1
                  /\ phrases' # phrases => /\ owed # "no" /\ phrases' = phrases + 1
                                          /\ owed' = "no" /\ replies' = replies
<1>1. Inv /\ [Next]_vars => Due
  <2> SUFFICES ASSUME Inv, Timer \/ Timeout PROVE Due
    BY OnlyTimers DEF said
  <2>1. CASE Timer
    BY <2>1 DEF Timer, AskModel, SayPhrase, GiveUp, said, Inv, WatchInv
  <2>2. CASE Timeout
    BY <2>2 DEF Timeout, SayPhrase, GiveUp, said, Inv, WatchInv
  <2> QED BY <2>1, <2>2
<1>2. Inv /\ [Next]_vars => [Due]_voice
  BY <1>1
<1> QED BY <1>2, Always, PTL DEF Spec, OnlyWhenOwed

-----------------------------------------------------------------------------
(* Types.                                                                  *)

SpokenTypes ==
  /\ user \in {"listening", "speaking", "away"}
  /\ agent \in {"quiet", "thinking", "speaking"}
  /\ {alive, unrecoverable} \subseteq BOOLEAN
  /\ turns \in 0..MaxTurns /\ replies \in Nat /\ phrases \in Nat

Answers == Value \cup {Nothing, "hangup", "timeout", "refused", "error", "failed", "cancelled"}

HeardTypes == given \in [Ask -> Value \cup {Nothing}] /\ told \in [Ask -> Answers]

EndTypes ==
  /\ {finished, disconnected} \subseteq BOOLEAN
  /\ job \in {"amd", "talking", "farewell", "closing", "giving_up", "failing",
              "closed_session", "hung", "closed"}

\* A step of the watchdog, or one that leaves it alone.
LEMMA SpokenStep ==
  ASSUME SpokenTypes,
         \/ Conversation \/ Timer \/ Timeout \/ SessionCloses \/ FinishExecuted
         \/ WatchdogCloses \/ UNCHANGED voice
         \/ \E a \in Ask : ToolStarted(a) \/ ToolEnded(a)
  PROVE  SpokenTypes'
<1> USE DEF SpokenTypes, said
<1>1. CASE Conversation
  BY <1>1, WatchdogConstants DEF Conversation, UserState, Transcript, AgentState
<1>2. CASE Timer \/ Timeout
  <2>1. UNCHANGED <<user, agent, alive, turns>> /\ unrecoverable' \in {unrecoverable, TRUE}
    BY <1>2 DEF Timer, Timeout, AskModel, SayPhrase, GiveUp
  <2>2. replies' \in {replies, replies + 1} /\ phrases' \in {phrases, phrases + 1}
    BY <1>2 DEF Timer, Timeout, AskModel, SayPhrase, GiveUp
  <2>3. replies' \in Nat /\ phrases' \in Nat
    BY <2>2
  <2>4. unrecoverable' \in BOOLEAN
    BY <2>1
  <2> QED BY <2>1, <2>3, <2>4
<1>3. CASE SessionCloses \/ FinishExecuted \/ WatchdogCloses \/ UNCHANGED voice
  BY <1>3 DEF SessionCloses, FinishExecuted, WatchdogCloses, voice
<1>4. ASSUME NEW a \in Ask, ToolStarted(a) \/ ToolEnded(a) PROVE SpokenTypes'
  BY <1>4 DEF ToolStarted, ToolEnded
<1> QED BY <1>1, <1>2, <1>3, <1>4

\* A step of the questions, or one that leaves them alone: what is read out of a
\* resolved row is an answer.
LEMMA HeardStep ==
  ASSUME InputInv, HeardTypes,
         \/ PollGone \/ CancelTools \/ EndCall \/ UNCHANGED input
         \/ \E a \in Ask : Begin(a) \/ Proceed(a) \/ Fails(a)
         \/ \E r \in Client : Respond(r)
  PROVE  HeardTypes'
<1> USE DEF HeardTypes, Answers
<1>1. CASE PollGone \/ CancelTools \/ EndCall \/ UNCHANGED input
  BY <1>1 DEF PollGone, CancelTools, EndCall, input
<1>2. ASSUME NEW a \in Ask, Begin(a) PROVE HeardTypes'
  BY <1>2 DEF Begin
<1>3. ASSUME NEW a \in Ask, Proceed(a) PROVE HeardTypes'
  <2>1. PollResolved(a) => Result(a) \in Answers
    BY DEF PollResolved, Result, InputInv, QuestionInv
  <2>2. NoAnswer(a) \in Answers
    BY DEF NoAnswer
  <2> QED BY <1>3, <2>1, <2>2 DEF Proceed, Insert, Require, PollResolved, PollExpired,
             ExpireRead, ExpireRow, ExpireUpdate
<1>4. ASSUME NEW r \in Client, Respond(r) PROVE HeardTypes'
  BY <1>4 DEF Respond, Answer, RespondRead, RespondResolve, RespondUpdate, RespondFails
<1>5. ASSUME NEW a \in Ask, Fails(a) PROVE HeardTypes'
  BY <1>5 DEF Fails, RequestFails, RequireFails, WaitFails
<1> QED BY <1>1, <1>2, <1>3, <1>4, <1>5

\* Every step is a step of the watchdog, or leaves it alone, and likewise of the
\* questions.
LEMMA StepParts ==
  ASSUME [Next]_vars
  PROVE  /\ \/ Conversation \/ Timer \/ Timeout \/ SessionCloses \/ FinishExecuted
            \/ WatchdogCloses \/ UNCHANGED voice
            \/ \E a \in Ask : ToolStarted(a) \/ ToolEnded(a)
         /\ \/ PollGone \/ CancelTools \/ EndCall \/ UNCHANGED input
            \/ \E a \in Ask : Begin(a) \/ Proceed(a) \/ Fails(a)
            \/ \E r \in Client : Respond(r)
<1> ToolAsk \subseteq Ask /\ Amd \in Ask
  BY DEF Ask
<1>1. CASE UNCHANGED vars \/ Job \/ Ended
  BY <1>1 DEF vars, Ended, Job, StartTalk, EndTalk, Farewell, CloseSession, CloseObserver
<1>2. CASE Watchdog \/ (Conversation /\ UNCHANGED <<input, ends>>)
  BY <1>2 DEF Watchdog
<1>3. CASE AsksAmd \/ AmdGone \/ FinishCall \/ HangUp \/ SessionLost \/ Cancel
  BY <1>3 DEF AsksAmd, AmdGone, FinishCall, HangUp, SessionLost, Cancel
<1>4. CASE \/ \E a \in ToolAsk : CallsTool(a)
           \/ \E a \in Ask : Asks(a)
           \/ \E r \in Client : Respond(r) /\ UNCHANGED <<voice, ends>>
  BY <1>4 DEF CallsTool, Asks
<1> QED BY <1>1, <1>2, <1>3, <1>4 DEF Next

\* Every variable keeps its type, and the watchdog counts just the tool calls that
\* run, also when their session is lost.
THEOREM Typing == Spec => []TypeOK
<1> DEFINE Types == SpokenTypes /\ HeardTypes /\ EndTypes
<1>1. Init => Types
  <2> SUFFICES ASSUME Init PROVE Types
    OBVIOUS
  <2>1. SpokenTypes
    BY DEF Init, WatchdogInit, SpokenTypes
  <2>2. HeardTypes
    BY DEF Init, InputInit, HeardTypes, Answers
  <2>3. EndTypes
    BY DEF Init, EndTypes
  <2> QED BY <2>1, <2>2, <2>3
<1>2. Inv /\ Types /\ [Next]_vars => Types'
  <2> SUFFICES ASSUME Inv, Types, [Next]_vars PROVE Types'
    OBVIOUS
  <2>1. SpokenTypes'
    BY StepParts, SpokenStep
  <2>2. HeardTypes'
    BY StepParts, HeardStep DEF Inv
  <2>3. EndTypes'
    BY DEF EndTypes, Next, vars, ends, Watchdog, CallsTool, AsksAmd, AmdGone, Asks,
       FinishCall, HangUp, SessionLost, Cancel, Job, StartTalk, EndTalk, Farewell,
       CloseSession, CloseObserver, Ended
  <2> QED BY <2>1, <2>2, <2>3
<1>3. Inv /\ Types => TypeOK
  <2> SUFFICES ASSUME Inv, Types PROVE TypeOK
    OBVIOUS
  <2>1. running \subseteq ToolAsk /\ depth = Cardinality(running)
    BY DEF Inv, ToolInv
  <2>2. /\ watch \in {"none", "sleeping", "waiting"}
        /\ owed \in {"no", "turn", "seen", "asked"}
    BY DEF Inv, WatchInv
  <2>3. /\ call \in {"active", "input_required", "ended"}
        /\ row \in [Ask -> {"none", "pending", "resolved", "expired"}]
        /\ ask \in [Ask -> {"idle", "request", "inserted", "done"} \cup Asking]
        /\ api \in [Client -> [pc : {"idle", "resolve", "update", "lost", "done"}, to : Ask]]
    BY DEF Inv, InputInv, InputTypes
  <2> QED BY <2>1, <2>2, <2>3 DEF TypeOK, SpokenTypes, HeardTypes, EndTypes, Answers, Asking
<1> QED BY <1>1, <1>2, <1>3, Always, PTL DEF Spec

=============================================================================
