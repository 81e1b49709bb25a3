----------------------------- MODULE HumanInput -----------------------------
(***************************************************************************)
(* Questions to the client: a tool call of the model, or the job after the *)
(* detection of an answering machine, inserts an input request, makes the  *)
(* call INPUT_REQUIRED and polls the row; clients answer through the API;  *)
(* after user_input_timeout_seconds the request expires.  Job and API only *)
(* share the rows.                                                         *)
(***************************************************************************)
EXTENDS Naturals

CONSTANTS
  ToolAsk,  \* calls of the tool request_user_input
  Amd,      \* the question about the answering machine
  Client,   \* requests of clients to answer
  Value     \* what they answer; "continue" is one of the options of Amd

ASSUME InputConstants ==
  /\ Amd \notin ToolAsk
  /\ Value \cap {"nothing", "hangup", "timeout", "refused", "error", "failed",
                "cancelled"} = {}

Ask == ToolAsk \cup {Amd}

VARIABLES
  call,   \* active, input_required, or ended: the statuses that matter here
  row,    \* status of each input request
  given,  \* its response
  ask,    \* progress of the question
  told,   \* what the model is told, or what the job does after the Amd question
  api     \* progress of respond, and the question it answers

input == <<call, row, given, ask, told, api>>

Nothing == "nothing"

InputInit(asks, clients) ==
  /\ call = "active"
  /\ row = [a \in Ask |-> "none"]
  /\ given = [a \in Ask |-> Nothing]
  /\ ask = [a \in Ask |-> IF a \in asks THEN "idle" ELSE "done"]
  /\ told = [a \in Ask |-> Nothing]
  /\ api = [r \in Client |->
              [pc |-> IF r \in clients THEN "idle" ELSE "done", to |-> Amd]]

Goto(a, pc) == ask' = [ask EXCEPT ![a] = pc]

Return(a, result) == Goto(a, "done") /\ told' = [told EXCEPT ![a] = result]

\* The question got no answer.
NoAnswer(a) == IF a = Amd THEN "hangup" ELSE "timeout"

Result(a) == IF a = Amd /\ given[a] # "continue" THEN "hangup" ELSE given[a]

\* The question polls its row, or expires it.
Waiting(a) == ask[a] \in {"waiting", "late", "expire", "expire_only", "reset"}

-----------------------------------------------------------------------------
(* CallService.request_input.                                              *)

Begin(a) ==
  /\ ask[a] = "idle" /\ Goto(a, "request")
  /\ UNCHANGED <<call, row, given, told, api>>

\* The tool holds the state lock from the insert to the update; the Amd
\* question does not.
Insert(a) ==
  /\ ask[a] = "request"
  /\ a # Amd => \A b \in ToolAsk : ask[b] # "inserted"
  /\ row' = [row EXCEPT ![a] = "pending"]
  /\ Goto(a, "inserted")
  /\ UNCHANGED <<call, given, told, api>>

\* The row stays pending if the call is not ACTIVE; nobody learns its id.
Require(a) ==
  /\ ask[a] = "inserted"
  /\ \/ call = "active" /\ call' = "input_required" /\ Goto(a, "waiting") /\ UNCHANGED told
     \/ call # "active" /\ Return(a, "refused") /\ UNCHANGED call
  /\ UNCHANGED <<row, given, api>>

-----------------------------------------------------------------------------
(* The poll, and CallService.expire_input.                                 *)

PollResolved(a) ==
  /\ ask[a] = "waiting" /\ row[a] = "resolved"
  /\ Return(a, Result(a))
  /\ UNCHANGED <<call, row, given, api>>

\* Mutant of PollExpired: the request is left as it is.
PollExpired_LeavesRow(a) ==
  /\ ask[a] = "waiting" /\ row[a] = "pending"
  /\ Return(a, NoAnswer(a))
  /\ UNCHANGED <<call, row, given, api>>

\* The poll finds the request pending and its time over.
PollExpired(a) ==
  /\ ask[a] = "waiting" /\ row[a] = "pending"
  /\ Goto(a, "late")
  /\ UNCHANGED <<call, row, given, told, api>>

\* The callee is gone: the Amd question reads its row a last time.
PollGone ==
  /\ ask[Amd] = "waiting"
  /\ \/ row[Amd] = "pending" /\ Goto(Amd, "late") /\ UNCHANGED told
     \/ row[Amd] # "pending" /\ Return(Amd, "hangup")
  /\ UNCHANGED <<call, row, given, api>>

\* The status that decides whether to make the call ACTIVE is read first.
ExpireRead(a) ==
  /\ ask[a] = "late"
  /\ Goto(a, IF call = "input_required" THEN "expire" ELSE "expire_only")
  /\ UNCHANGED <<call, row, given, told, api>>

\* Mutant of ExpireRow: the call stays as it is.
ExpireRow_Only(a) ==
  /\ ask[a] \in {"expire", "expire_only"}
  /\ row' = [row EXCEPT ![a] = IF @ = "pending" THEN "expired" ELSE @]
  /\ Return(a, NoAnswer(a))
  /\ UNCHANGED <<call, given, api>>

\* An answer that came in between wins, yet the caller ignores the result: the
\* model hears of a timeout.
ExpireRow(a) ==
  /\ ask[a] \in {"expire", "expire_only"}
  /\ row' = [row EXCEPT ![a] = IF @ = "pending" THEN "expired" ELSE @]
  /\ \/ ask[a] = "expire" /\ row[a] = "pending" /\ Goto(a, "reset") /\ UNCHANGED told
     \/ ~(ask[a] = "expire" /\ row[a] = "pending") /\ Return(a, NoAnswer(a))
  /\ UNCHANGED <<call, given, api>>

\* Mutant of ExpireUpdate: it is tried until the call is INPUT_REQUIRED.
ExpireUpdate_Retries(a) ==
  /\ ask[a] = "reset"
  /\ call = "input_required" /\ call' = "active" /\ Return(a, NoAnswer(a))
  /\ UNCHANGED <<row, given, api>>

\* InvalidStateTransitionError when an answer or the end has moved the call.
ExpireUpdate(a) ==
  /\ ask[a] = "reset"
  /\ \/ call = "input_required" /\ call' = "active" /\ Return(a, NoAnswer(a))
     \/ call # "input_required" /\ Return(a, "error") /\ UNCHANGED call
  /\ UNCHANGED <<row, given, api>>

-----------------------------------------------------------------------------
(* A statement of the question fails, committed or not: so does the tool   *)
(* call, or the job that asks about the machine.  Nobody takes the call    *)
(* out of INPUT_REQUIRED, except a client that still answers.              *)

\* The request is not made; a row that was inserted stays, its id is lost.
RequestFails(a) ==
  /\ \/ /\ ask[a] = "request"
        /\ a # Amd => \A b \in ToolAsk : ask[b] # "inserted"
        /\ \E s \in {"none", "pending"} : row' = [row EXCEPT ![a] = s]
     \/ ask[a] = "inserted" /\ UNCHANGED row
  /\ Return(a, "refused")
  /\ UNCHANGED <<call, given, api>>

\* The request is made, and the answer of the database is lost.
RequireFails(a) ==
  /\ ask[a] = "inserted" /\ call = "active"
  /\ call' = "input_required" /\ Return(a, "failed")
  /\ UNCHANGED <<row, given, api>>

\* The poll, or one of the three statements of the expiry.
WaitFails(a) ==
  /\ Waiting(a) /\ Return(a, "failed")
  /\ row' \in {row, IF ask[a] \in {"expire", "expire_only"} /\ row[a] = "pending"
                   THEN [row EXCEPT ![a] = "expired"] ELSE row}
  /\ call' \in {call, IF ask[a] = "reset" /\ call = "input_required" THEN "active" ELSE call}
  /\ UNCHANGED <<given, api>>

\* What the question does next.
Proceed(a) ==
  \/ Insert(a) \/ Require(a) \/ PollResolved(a) \/ PollExpired(a)
  \/ ExpireRead(a) \/ ExpireRow(a) \/ ExpireUpdate(a)

Fails(a) == RequestFails(a) \/ RequireFails(a) \/ WaitFails(a)

\* The tool calls are cancelled with their session, whatever they wait for.
CancelTools ==
  LET cut == {a \in ToolAsk : ask[a] \notin {"idle", "done"}}
  IN /\ ask' = [a \in Ask |-> IF a \in ToolAsk THEN "done" ELSE ask[a]]
     /\ told' = [a \in Ask |-> IF a \in cut THEN "cancelled" ELSE told[a]]
     /\ UNCHANGED <<call, row, given, api>>

-----------------------------------------------------------------------------
(* CallService.respond.                                                    *)

\* The id of a request is in the event call.input_required.
Announced(a) == row[a] # "none" /\ ask[a] # "inserted" /\ told[a] # "refused"

RespondRead(r) ==
  /\ api[r].pc = "idle"
  /\ \E a \in Ask :
       /\ Announced(a)
       /\ api' = [api EXCEPT ![r] =
                    [pc |-> IF row[a] = "pending" THEN "resolve" ELSE "done", to |-> a]]
  /\ UNCHANGED <<call, row, given, ask, told>>

\* Mutant of RespondResolve: UPDATE without AND status = 'pending'.
RespondResolve_Any(r) ==
  /\ api[r].pc = "resolve"
  /\ row' = [row EXCEPT ![api[r].to] = "resolved"]
  /\ \E v \in Value : given' = [given EXCEPT ![api[r].to] = v]
  /\ api' = [api EXCEPT ![r].pc = "update"]
  /\ UNCHANGED <<call, ask, told>>

\* Whether the request was still pending is not looked at.
RespondResolve(r) ==
  /\ api[r].pc = "resolve"
  /\ \/ /\ row[api[r].to] = "pending"
        /\ row' = [row EXCEPT ![api[r].to] = "resolved"]
        /\ \E v \in Value : given' = [given EXCEPT ![api[r].to] = v]
     \/ row[api[r].to] # "pending" /\ UNCHANGED <<row, given>>
  /\ api' = [api EXCEPT ![r].pc = "update"]
  /\ UNCHANGED <<call, ask, told>>

\* 200, or 409 when the call is not INPUT_REQUIRED (any more).
RespondUpdate(r) ==
  /\ api[r].pc = "update"
  /\ call' = IF call = "input_required" THEN "active" ELSE call
  /\ api' = [api EXCEPT ![r].pc = "done"]
  /\ UNCHANGED <<row, given, ask, told>>

\* A statement fails, or the API dies between the two: without an effect, or with
\* an answer that is on record and a call that stays as it is.
RespondFails(r) ==
  /\ \/ api[r].pc = "resolve" /\ api' = [api EXCEPT ![r].pc = "done"]
     \/ api[r].pc = "update" /\ api' = [api EXCEPT ![r].pc = "lost"]
  /\ UNCHANGED <<call, row, given, ask, told>>

Answer(r) == RespondResolve(r) \/ RespondUpdate(r)
Respond(r) == RespondRead(r) \/ Answer(r) \/ RespondFails(r)

\* The row is COMPLETING or terminal: cancel_call, or the end of the job.
EndCall ==
  /\ call' = "ended"
  /\ UNCHANGED <<row, given, ask, told, api>>

-----------------------------------------------------------------------------

\* What the model acts on is the one answer to its question: a second answer,
\* or one that comes after the timeout, changes nothing any more.
ToldIsGiven ==
  \A a \in Ask : told[a] \in Value => row[a] = "resolved" /\ given[a] = told[a]

\* When the model is told that nobody answered, nobody can any more.
TimeoutIsFinal ==
  \A a \in Ask : told[a] = NoAnswer(a) => row[a] # "pending"

\* Every question comes to an end, answered or not.
AskEnds == \A a \in Ask : ask[a] = "waiting" ~> ask[a] = "done"

=============================================================================
