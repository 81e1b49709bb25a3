--------------------------- MODULE MCCallService ---------------------------
(***************************************************************************)
(* The instances of CallService that TLC checks, and what the repository's *)
(* documents and comments say of calls that the code does not keep.        *)
(***************************************************************************)
EXTENDS CallService

\* Two requests compete for the slots; a third call asks, a fourth is inbound, and
\* these two are cancelled.
OneCall     == {1}
TwoCalls    == {1, 2}
ThirdCall   == {3}
Requests    == {1, 2, 3}
InboundCall == {4}
Cancelled   == {3, 4}
NoCalls     == {}

\* What comes together: the inbound call takes a slot beyond the limit (Meeting);
\* two calls with nothing that fails, or one with what may (Failing).
With(calls, n) == [calls |-> calls, faults |-> n]

Smoothly == {With(TwoCalls, 0)}
Alone    == {With(OneCall, 1)}
Meeting  == {With(TwoCalls, 1), With({1, 4}, 1)}
Failing  == {With(TwoCalls, 0), With(ThirdCall, 1), With(InboundCall, 2)}

\* After cancel_call has made a call CANCELLED no phone rings or talks for it.
CancelHangsUp ==
  \A c \in Call : status[c] = "cancelled" => leg[c] \notin {"dialing", "up"}

\* Every excess call gets a slot, or is given up, in the end.
QueuedCallsGetSlots ==
  \A c \in Outbound : status[c] = "queued" ~> status[c] # "queued"

=============================================================================
