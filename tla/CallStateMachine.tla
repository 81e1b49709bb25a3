-------------------------- MODULE CallStateMachine --------------------------
(***************************************************************************)
(* The lifecycle of calls as calls/state.py promises it: every call walks  *)
(* the graph _TRANSITIONS, one status write at a time, and the walk ends   *)
(* in one of three terminal statuses.  This is the abstract specification  *)
(* that the modules which write call records are shown to implement.       *)
(***************************************************************************)
CONSTANT Call        \* the identifiers of the calls, inbound and outbound

VARIABLE status      \* what the calls table says of each call

\* A call without a row in the calls table yet.
Absent == "absent"

CallStatus == {"created", "validating", "queued", "prewarming", "dialing",
               "ringing", "connected", "active", "input_required",
               "completing", "completed", "failed", "cancelled"}

Terminal == {"completed", "failed", "cancelled"}

NonTerminal == CallStatus \ Terminal

\* From every status that is not terminal a call may be cancelled or fail.
Abort == {"cancelled", "failed"}

Transitions ==
  [ s \in CallStatus |->
      CASE s = "created"        -> {"validating", "connected"} \cup Abort
        [] s = "validating"     -> {"queued"} \cup Abort
        [] s = "queued"         -> {"prewarming"} \cup Abort
        [] s = "prewarming"     -> {"dialing"} \cup Abort
        [] s = "dialing"        -> {"ringing", "connected"} \cup Abort
        [] s = "ringing"        -> {"connected"} \cup Abort
        [] s = "connected"      -> {"active"} \cup Abort
        [] s = "active"         -> {"input_required", "completing"} \cup Abort
        [] s = "input_required" -> {"active", "completing"} \cup Abort
        [] s = "completing"     -> {"completed"} \cup Abort
        [] OTHER                -> {} ]

-----------------------------------------------------------------------------

Init == status = [c \in Call |-> Absent]

\* The first write of a call inserts its row.
Create(c) ==
  /\ status[c] = Absent
  /\ status' = [status EXCEPT ![c] = "created"]

\* A later write follows an edge of the graph.
Move(c) ==
  /\ status[c] \in CallStatus
  /\ \E s \in Transitions[status[c]] : status' = [status EXCEPT ![c] = s]

Next == \E c \in Call : Create(c) \/ Move(c)

Spec == Init /\ [][Next]_status

=============================================================================
