--------------------------- MODULE MCVoiceSession ---------------------------
(***************************************************************************)
(* The instance of VoiceSession that TLC checks, and what the plan of the  *)
(* project says of silent sessions that the code does not keep.            *)
(***************************************************************************)
EXTENDS VoiceSession

\* Two parallel questions and late answers; a conversation with a question; an
\* answering machine.
SomeLoads ==
  {[asks |-> {"t1", "t2"}, clients |-> {"r1", "r2"}, turns |-> MaxTurns],
   [asks |-> {"t1", "t2"}, clients |-> {}, turns |-> MaxTurns - 1],
   [asks |-> {}, clients |-> {}, turns |-> 0],
   [asks |-> {"amd"}, clients |-> {"r1", "r2"}, turns |-> MaxTurns]}

Conversations == {[asks |-> {}, clients |-> {}, turns |-> 0]}

\* After a turn of the user, and with no tool call, no model turn and no speech
\* of anybody for the time of the watchdog, it recovers the session.
SilenceRecovered == ~<>[](owed # "no" /\ Quiet /\ alive /\ call # "ended")

=============================================================================
