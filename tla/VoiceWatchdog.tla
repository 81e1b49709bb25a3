--------------------------- MODULE VoiceWatchdog ---------------------------
(***************************************************************************)
(* The watchdog of a voice session: a turn of the user that is followed by *)
(* silence makes it ask the model for a reply, then say a phrase, then     *)
(* give the call up.  Its handlers run one at a time in the event loop of  *)
(* the job; the states of user and agent are those LiveKit reports.        *)
(***************************************************************************)
EXTENDS Naturals, FiniteSets

CONSTANT MaxTurns  \* bound: committed turns of the user

ASSUME WatchdogConstants == MaxTurns \in Nat

VARIABLES
  user,           \* user_state of the AgentSession
  agent,          \* its agent_state; quiet: idle or listening
  running,        \* the tool calls of the model that run
  depth,          \* _tool_depth
  watch,          \* _watch_task: asleep, waiting for the model, or none
  alive,          \* is the session open?
  unrecoverable,  \* was on_unrecoverable called?
  turns,          \* committed turns of the user
  replies,        \* replies the watchdog has asked the model for
  phrases,        \* scripted phrases it has said
  owed            \* "turn": nothing has happened since the last turn; "seen":
                  \* something, but no answer; "asked": but the watchdog's reply

voice == <<user, agent, running, depth, watch, alive, unrecoverable, turns,
           replies, phrases, owed>>

said == <<replies, phrases>>

WatchdogInit ==
  /\ user = "listening" /\ agent = "quiet"
  /\ running = {} /\ depth = 0
  /\ watch = "none" /\ alive = TRUE /\ unrecoverable = FALSE
  /\ turns \in 0..MaxTurns /\ replies = 0 /\ phrases = 0 /\ owed = "no"

Stirred == IF owed = "turn" THEN "seen" ELSE owed

\* Mutant of UserState: speech does not cancel the watch.
UserState_KeepsWatch(s) ==
  /\ alive /\ s # user
  /\ user' = s
  /\ owed' = IF s = "speaking" THEN "no" ELSE Stirred
  /\ UNCHANGED <<agent, running, depth, watch, alive, unrecoverable, turns, said>>

\* user_state_changed
UserState(s) ==
  /\ alive /\ s # user
  /\ user' = s
  /\ watch' = IF s = "speaking" THEN "none" ELSE watch
  /\ owed' = IF s = "speaking" THEN "no" ELSE Stirred
  /\ UNCHANGED <<agent, running, depth, alive, unrecoverable, turns, said>>

\* user_transcript_final: while the user speaks on, nothing is armed.
Transcript ==
  /\ alive /\ turns < MaxTurns
  /\ turns' = turns + 1
  /\ \/ user # "speaking" /\ watch' = "sleeping" /\ owed' = "turn"
     \/ user = "speaking" /\ UNCHANGED <<watch, owed>>
  /\ UNCHANGED <<user, agent, running, depth, alive, unrecoverable, said>>

\* Mutant of AgentState: what the agent says does not end the watch.
AgentState_KeepsWatch(s) ==
  /\ alive /\ s # agent
  /\ agent' = s
  /\ owed' = IF s = "speaking" THEN "no" ELSE Stirred
  /\ UNCHANGED <<user, running, depth, watch, alive, unrecoverable, turns, said>>

\* agent_state_changed: the watch is cancelled before it sees _agent_spoke, so
\* call.watchdog_recovered is never recorded with model_reply.
AgentState(s) ==
  /\ alive /\ s # agent
  /\ agent' = s
  /\ watch' = IF s = "speaking" THEN "none" ELSE watch
  /\ owed' = IF s = "speaking" THEN "no" ELSE Stirred
  /\ UNCHANGED <<user, running, depth, alive, unrecoverable, turns, said>>

\* tool_execution_updated: tool_call_started ...
ToolStarted(t) ==
  /\ running' = running \cup {t}
  /\ depth' = depth + 1
  /\ watch' = "none"
  /\ owed' = IF owed = "no" THEN "no" ELSE "seen"
  /\ UNCHANGED <<user, agent, alive, unrecoverable, turns, said>>

\* Mutant of ToolEnded: a flag instead of a count.
ToolEnded_NoneLeft(t) ==
  /\ running' = running \ {t}
  /\ depth' = 0
  /\ owed' = Stirred
  /\ UNCHANGED <<user, agent, watch, alive, unrecoverable, turns, said>>

\* ... and tool_call_ended, which does not arm the watch again.
ToolEnded(t) ==
  /\ running' = running \ {t}
  /\ depth' = IF depth > 0 THEN depth - 1 ELSE 0
  /\ owed' = Stirred
  /\ UNCHANGED <<user, agent, watch, alive, unrecoverable, turns, said>>

\* finish_call has been executed: no reply of the model, and no watch.
FinishExecuted ==
  /\ watch' = "none" /\ owed' = "no"
  /\ UNCHANGED <<user, agent, running, depth, alive, unrecoverable, turns, said>>

MayTrigger == depth = 0 /\ user = "listening" /\ agent = "quiet"

\* generate_reply() accepts; the watch waits two seconds for speech.
AskModel ==
  /\ alive
  /\ replies' = replies + 1 /\ watch' = "waiting" /\ owed' = "asked"
  /\ UNCHANGED <<unrecoverable, phrases>>

\* say() accepts.
SayPhrase ==
  /\ alive
  /\ phrases' = phrases + 1 /\ watch' = "none" /\ owed' = "no"
  /\ UNCHANGED <<unrecoverable, replies>>

\* say() raises a RuntimeError: the session is closed, or has no TTS.
GiveUp == watch' = "none" /\ unrecoverable' = TRUE /\ owed' = "no" /\ UNCHANGED said

\* Mutant of Timer: the watch starts over after a reply.
Timer_StartsOver ==
  /\ watch = "sleeping"
  /\ \/ ~MayTrigger /\ watch' = "none" /\ UNCHANGED <<unrecoverable, said, owed>>
     \/ /\ MayTrigger /\ alive
        /\ replies' = replies + 1 /\ watch' = "sleeping" /\ owed' = "asked"
        /\ UNCHANGED <<unrecoverable, phrases>>
     \/ MayTrigger /\ (SayPhrase \/ GiveUp)
  /\ UNCHANGED <<user, agent, running, depth, alive, turns>>

\* silence_seconds are over: the watch ends if somebody is busy, for good.  Where
\* generate_reply() raises a RuntimeError, as it may in an open session, the
\* phrase follows at once.
Timer ==
  /\ watch = "sleeping"
  /\ \/ ~MayTrigger /\ watch' = "none" /\ UNCHANGED <<unrecoverable, said, owed>>
     \/ MayTrigger /\ (AskModel \/ SayPhrase \/ GiveUp)
  /\ UNCHANGED <<user, agent, running, depth, alive, turns>>

\* Mutant of Timeout: a session that does not speak is not reported.
Timeout_Silent ==
  /\ watch = "waiting"
  /\ \/ SayPhrase
     \/ watch' = "none" /\ UNCHANGED <<unrecoverable, said, owed>>
  /\ UNCHANGED <<user, agent, running, depth, alive, turns>>

\* The model has said nothing for two seconds.
Timeout ==
  /\ watch = "waiting"
  /\ SayPhrase \/ GiveUp
  /\ UNCHANGED <<user, agent, running, depth, alive, turns>>

\* The session closes; the tool calls that still run are cancelled, and end.
SessionCloses ==
  /\ alive /\ alive' = FALSE
  /\ running' = {} /\ depth' = 0
  /\ owed' = IF running = {} THEN owed ELSE Stirred
  /\ UNCHANGED <<user, agent, watch, unrecoverable, turns, said>>

\* close()
WatchdogCloses ==
  /\ watch' = "none" /\ owed' = "no"
  /\ UNCHANGED <<user, agent, running, depth, alive, unrecoverable, turns, said>>

\* What LiveKit reports of the two sides of the conversation.  Bound: not after
\* the last turn has been answered, when there is nothing left to watch.
Conversation ==
  /\ turns < MaxTurns \/ owed # "no"
  /\ \/ \E s \in {"listening", "speaking", "away"} : UserState(s)
     \/ Transcript
     \/ \E s \in {"quiet", "thinking", "speaking"} : AgentState(s)

-----------------------------------------------------------------------------

Quiet == user = "listening" /\ agent = "quiet" /\ running = {}

\* The watchdog never talks while the user or the agent speaks or a tool call
\* runs, though the phrase comes two seconds after the last look.
NeverTalksOver ==
  [][said' # said => user # "speaking" /\ agent # "speaking" /\ running = {}]_voice

\* It asks once for a reply to a turn that nobody has answered; the phrase, at most
\* one for a turn and never with a reply, comes only while that turn, or the
\* reply to it, has not been heard.
OnlyWhenOwed ==
  [][/\ replies' # replies => owed \in {"turn", "seen"} /\ replies' = replies + 1
     /\ phrases' # phrases => /\ owed # "no" /\ phrases' = phrases + 1
                             /\ owed' = "no" /\ replies' = replies]_voice

\* A turn that is followed by silence does not stay unanswered: a reply, then a
\* phrase, or the call is given up.
SilentTurnHandled == ~<>[](owed \in {"turn", "asked"} /\ Quiet)

=============================================================================
