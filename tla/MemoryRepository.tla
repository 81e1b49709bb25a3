-------------------------- MODULE MemoryRepository --------------------------
(***************************************************************************)
(* What a call repository promises, as the in-memory one does it: every    *)
(* operation takes effect at one instant, under one lock, and answers with *)
(* the call it left behind.  An operation may also fail without effect,    *)
(* and the answer of one that has taken effect may be lost.                *)
(***************************************************************************)
EXTENDS Sequences

CONSTANTS
  Request,   \* requests to create a call; each brings the id of a new call
  Session,   \* everybody who uses the repository, the requests included
  KeyOf,     \* [Request -> a set of keys]: principal and client_request_id
  NoKey      \* the key of a request without client_request_id

VARIABLES
  status,    \* the status of each call, or "absent"
  state,     \* who wrote its state last, and whose utterance it remembers
  events,    \* its event log
  turns,     \* its transcript
  answer     \* what each session was answered last: a call, or a word

store == <<status, state, events, turns>>

Absent  == "absent"
Refused == "refused"   \* InvalidStateTransitionError
Error   == "error"
Nothing == "nothing"

Calls == {c \in Request : status[c] # Absent}

\* _find_idempotent
Same(r) == {c \in Calls : KeyOf[r] # NoKey /\ KeyOf[c] = KeyOf[r]}

Statuses == {"created", "validating", "queued", "connected"}

\* The expected_statuses of what the service and the jobs ask for (a turn has
\* none), and the status it leads to.
Expected(kind) ==
  CASE kind \in {"validating", "inbound"} -> {"created"}
    [] kind = "queued" -> {"validating"}
    [] kind = "connected" -> {"queued"}
    [] kind = "save" -> {"connected"}
    [] kind = "turn" -> Statuses

\* Mutant of NewStatus: the event is taken for the status.
NewStatus_Event(kind, old) == kind

NewStatus(kind, old) ==
  CASE kind \in {"validating", "queued", "connected"} -> kind
    [] kind = "inbound" -> "connected"
    [] OTHER -> old

Blank == [by |-> Nothing, heard |-> Nothing]

Init ==
  /\ status = [c \in Request |-> Absent]
  /\ state = [c \in Request |-> Blank]
  /\ events = [c \in Request |-> <<>>]
  /\ turns = [c \in Request |-> <<>>]
  /\ answer = [s \in Session |-> Nothing]

Reply(s, a) == answer' = [answer EXCEPT ![s] = a]

\* create_call, of a call that is new ...
CreateNew(r) ==
  /\ status[r] = Absent /\ Same(r) = {}
  /\ status' = [status EXCEPT ![r] = "created"]
  /\ events' = [events EXCEPT ![r] = <<"created">>]
  /\ Reply(r, r)
  /\ UNCHANGED <<state, turns>>

\* ... or known already; also get_by_idempotency.
CreateKnown(r) == \E c \in Same(r) : Reply(r, c) /\ UNCHANGED store

\* update_call
update_call(s, c, kind) ==
  /\ c \in Calls /\ status[c] \in Expected(kind)
  /\ status' = [status EXCEPT ![c] = NewStatus(kind, @)]
  /\ state' = IF kind = "save" THEN [state EXCEPT ![c] = [by |-> s, heard |-> s]]
              ELSE state
  /\ events' = [events EXCEPT ![c] = Append(@, kind)]
  /\ Reply(s, c)
  /\ UNCHANGED turns

\* append_transcript_turn
append_transcript_turn(s, c) ==
  /\ c \in Calls
  /\ turns' = [turns EXCEPT ![c] = Append(@, s)]
  /\ state' = [state EXCEPT ![c].heard = s]
  /\ events' = [events EXCEPT ![c] = Append(@, "turn")]
  /\ Reply(s, c)
  /\ UNCHANGED status

\* The expected_statuses did not hold.
Refuse(s, c, kind) ==
  /\ c \in Calls /\ status[c] \notin Expected(kind)
  /\ Reply(s, Refused)
  /\ UNCHANGED store

Fail(s) == Reply(s, Error) /\ UNCHANGED store

Kind == {"validating", "inbound", "queued", "connected", "save"}

Next ==
  \/ \E r \in Request : CreateNew(r) \/ CreateKnown(r)
  \/ \E s \in Session, c \in Request :
       \/ append_transcript_turn(s, c)
       \/ \E kind \in Kind : update_call(s, c, kind) \/ Refuse(s, c, kind)
  \/ \E s \in Session : Fail(s)

Spec == Init /\ [][Next]_<<store, answer>>

=============================================================================
