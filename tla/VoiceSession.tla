---------------------------- MODULE VoiceSession ----------------------------
(***************************************************************************)
(* The talking part of a job: the conversation under the watchdog, the     *)
(* questions to the client, which are tool calls of the model, and the     *)
(* ends of the call the job waits for.                                     *)
(***************************************************************************)
EXTENDS VoiceWatchdog, HumanInput

CONSTANT Loads  \* bound: what comes together: questions, answers, earlier turns

VARIABLES
  job,           \* progress of handle_call
  finished,      \* finish_event
  disconnected   \* the callee has left, or the room is gone

vars == <<voice, input, job, finished, disconnected>>

Init ==
  /\ WatchdogInit
  /\ \E load \in Loads :
       /\ InputInit(load.asks, load.clients) /\ turns = load.turns
       /\ job = IF Amd \in load.asks THEN "amd" ELSE "talking"
  /\ finished = FALSE /\ disconnected = FALSE

ends == <<job, finished, disconnected>>

-----------------------------------------------------------------------------

\* The model calls request_user_input.
CallsTool(a) ==
  /\ alive /\ job \in {"amd", "talking", "farewell"} /\ a \in ToolAsk
  /\ Begin(a) /\ ToolStarted(a)
  /\ UNCHANGED ends

\* The job asks what to do with the answering machine; this is no tool call.
AsksAmd == Begin(Amd) /\ UNCHANGED <<voice, ends>>

\* A question takes its next step; with the last one the tool call ends.
Asks(a) ==
  /\ Proceed(a) \/ Fails(a)
  /\ \/ a \in running /\ ask'[a] = "done" /\ ToolEnded(a)
     \/ ~(a \in running /\ ask'[a] = "done") /\ UNCHANGED voice
  /\ UNCHANGED ends

AmdGone == disconnected /\ PollGone /\ UNCHANGED <<voice, ends>>

\* _start_initial_voice_action: hang up, by completing the call, or talk on.  An
\* error fails the job: of the question, of the completion, or of a session that
\* does not speak.
StartTalk ==
  /\ job = "amd" /\ ask[Amd] = "done"
  /\ \/ /\ told[Amd] = "hangup" /\ call # "ended"
        /\ EndCall /\ finished' = TRUE /\ job' = "talking"
     \/ /\ told[Amd] = "continue" /\ alive
        /\ job' = "talking" /\ UNCHANGED <<input, finished>>
     \/ job' = "failing" /\ UNCHANGED <<input, finished>>
  /\ UNCHANGED <<voice, disconnected>>

\* The model has called finish_call: the call is COMPLETING.
FinishCall ==
  /\ alive /\ job \in {"amd", "talking"} /\ call # "ended"
  /\ finished' = TRUE
  /\ EndCall /\ FinishExecuted
  /\ UNCHANGED <<job, disconnected>>

HangUp ==
  /\ ~disconnected /\ disconnected' = TRUE
  /\ UNCHANGED <<voice, input, job, finished>>

\* LiveKit closes the session after an error; the job does not listen to that.
SessionLost ==
  /\ job \in {"amd", "talking", "farewell"}
  /\ SessionCloses /\ CancelTools
  /\ UNCHANGED ends

\* cancel_call; the job goes on until it notices.
Cancel == call # "ended" /\ EndCall /\ UNCHANGED <<voice, ends>>

\* _wait_for_call_end: any of the events that are set.
EndTalk ==
  /\ job = "talking"
  /\ \/ disconnected /\ job' = "closing"
     \/ finished /\ job' = "farewell"
     \/ unrecoverable /\ job' = "giving_up"
  /\ UNCHANGED <<voice, input, finished, disconnected>>

\* The farewell, at most 15 s of wait_for_idle, and the hang-up.
Farewell ==
  /\ job = "farewell" /\ job' = "closing"
  /\ disconnected' = TRUE
  /\ UNCHANGED <<voice, input, finished>>

\* Mutant of CloseSession: it waits until no question is pending.
CloseSession_Waits ==
  /\ \/ /\ job = "closing" /\ alive /\ SessionCloses
        /\ (\A a \in Ask : row[a] # "pending") /\ UNCHANGED input
        /\ job' = "closed_session"
     \/ /\ job \in {"giving_up", "failing"} /\ alive /\ SessionCloses /\ CancelTools
        /\ job' = "closed_session"
     \/ /\ ~alive /\ UNCHANGED <<voice, input>>
        /\ \/ job \in {"closing", "giving_up", "failing"} /\ job' = "closed_session"
           \/ job \in {"closing", "giving_up"} /\ job' = "hung"
  /\ UNCHANGED <<finished, disconnected>>

\* _close_voice_session, with the tool calls that run waited for or cancelled, or
\* aclose() after an error.  The former waits for "close", without a time limit:
\* a session that was lost before has emitted it, and need not do so again.
CloseSession ==
  /\ \/ /\ job = "closing" /\ alive /\ SessionCloses
        /\ running = {} /\ UNCHANGED input
        /\ job' = "closed_session"
     \/ /\ job \in {"giving_up", "failing"} /\ alive /\ SessionCloses /\ CancelTools
        /\ job' = "closed_session"
     \/ /\ ~alive /\ UNCHANGED <<voice, input>>
        /\ \/ job \in {"closing", "giving_up", "failing"} /\ job' = "closed_session"
           \/ job \in {"closing", "giving_up"} /\ job' = "hung"
  /\ UNCHANGED <<finished, disconnected>>

\* observer.close(); then the row is completed or failed.
CloseObserver ==
  /\ job = "closed_session" /\ job' = "closed"
  /\ WatchdogCloses /\ EndCall
  /\ UNCHANGED <<finished, disconnected>>

Ended == job \in {"closed", "hung"} /\ UNCHANGED vars

-----------------------------------------------------------------------------

Watchdog == (Timer \/ Timeout) /\ UNCHANGED <<input, ends>>

Job == StartTalk \/ EndTalk \/ Farewell \/ CloseSession \/ CloseObserver

Next ==
  \/ Conversation /\ UNCHANGED <<input, ends>>
  \/ Watchdog
  \/ \E a \in ToolAsk : CallsTool(a)
  \/ AsksAmd \/ AmdGone
  \/ \E a \in Ask : Asks(a)
  \/ \E r \in Client : Respond(r) /\ UNCHANGED <<voice, ends>>
  \/ FinishCall \/ HangUp \/ SessionLost \/ Cancel \/ Job \/ Ended

Spec == Init /\ [][Next]_vars

\* Timers fire, polls go on and the job runs; what user, model and clients do
\* is up to them, and nothing has to fail.
FairSpec ==
  /\ Spec
  /\ WF_vars(Watchdog) /\ WF_vars(Job) /\ WF_vars(AsksAmd)
  /\ \A a \in Ask : WF_vars(Proceed(a) /\ Asks(a))
  /\ \A r \in Client : WF_vars(Answer(r) /\ UNCHANGED <<voice, ends>>)

-----------------------------------------------------------------------------
(* Properties.                                                             *)

\* The type of every variable; the watchdog counts the tool calls that run.
TypeOK ==
  /\ user \in {"listening", "speaking", "away"}
  /\ agent \in {"quiet", "thinking", "speaking"}
  /\ running \subseteq ToolAsk /\ depth = Cardinality(running)
  /\ watch \in {"none", "sleeping", "waiting"} /\ owed \in {"no", "turn", "seen", "asked"}
  /\ {alive, unrecoverable, finished, disconnected} \subseteq BOOLEAN
  /\ turns \in 0..MaxTurns /\ replies \in Nat /\ phrases \in Nat
  /\ call \in {"active", "input_required", "ended"}
  /\ row \in [Ask -> {"none", "pending", "resolved", "expired"}]
  /\ given \in [Ask -> Value \cup {Nothing}]
  /\ ask \in [Ask -> {"idle", "request", "inserted", "waiting", "late", "expire",
                      "expire_only", "reset", "done"}]
  /\ told \in [Ask -> Value \cup {Nothing, "hangup", "timeout", "refused", "error", "failed",
                                     "cancelled"}]
  /\ api \in [Client -> [pc : {"idle", "resolve", "update", "lost", "done"}, to : Ask]]
  /\ job \in {"amd", "talking", "farewell", "closing", "giving_up", "failing",
              "closed_session", "hung", "closed"}

\* A call that waits for its client has a question that waits for the answer,
\* or an answer that is on its way: it is stuck in INPUT_REQUIRED only when a
\* statement of a question or of an answer has failed.
SomebodyAsks ==
  call = "input_required" =>
    \/ \E a \in Ask : Waiting(a) \/ told[a] = "failed"
    \/ \E r \in Client : api[r].pc \in {"update", "lost"}
    \/ ~alive

\* The job ends once the callee has left, the call is finished or the watchdog
\* has given it up, whatever the model still waits for; it hangs only when it
\* closes a session that was lost before.
VoiceJobEnds ==
  disconnected \/ finished \/ unrecoverable
    ~> job = "closed" \/ (job = "hung" /\ ~alive)

=============================================================================
