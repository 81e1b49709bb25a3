---------------------------- MODULE PolicyEngine ----------------------------
(***************************************************************************)
(* The local policy that decides what the model may promise: the           *)
(* permissions of the call, and for appointments its constraints, which    *)
(* the code reads from German sentences ("fruehestens 15 Uhr", "nicht      *)
(* Dienstag").  A sentence is given here by what the code finds in it; a   *)
(* sentence in which it finds nothing constrains nothing.                  *)
(***************************************************************************)
EXTENDS Naturals, Sequences

CONSTANTS
  Midnight,  \* the times of a day are the numbers below; a sentence may say 24 or 99
  Weekday    \* the days of the week

\* What a sentence says: at most one earliest and one latest time, and the days
\* it excludes.
Constraint == [earliest : SUBSET Nat, latest : SUBSET Nat, notOn : SUBSET Weekday]

\* What a promise is about: does it cost, and the appointment, whose date may be
\* absent or malformed.  The time is that on the wall: its zone is ignored.
Payload == [cost : BOOLEAN, date : {"missing", "invalid", "valid"}, time : Nat, day : Weekday]

ASSUME PolicyConstants == Midnight \in Nat

Permissions == [may_commit : BOOLEAN, may_accept_costs : BOOLEAN]

-----------------------------------------------------------------------------

\* time(24, 0) raises a ValueError, which ends the tool call.
OutOfRange(times) == \E t \in times : t >= Midnight

\* What one constraint says of an appointment: the first reason found.
Verdict(c, p) ==
  IF OutOfRange(c.earliest) THEN "error"
  ELSE IF \E t \in c.earliest : p.time < t THEN "before_allowed_time"
  ELSE IF OutOfRange(c.latest) THEN "error"
  ELSE IF \E t \in c.latest : p.time > t THEN "after_allowed_time"
  ELSE IF p.day \in c.notOn THEN "weekday_not_allowed"
  ELSE "kept"

\* The constraint at which the loop over them ends early.
EndsAt(constraints, p, i) ==
  /\ Verdict(constraints[i], p) # "kept"
  /\ \A j \in 1..(i - 1) : Verdict(constraints[j], p) = "kept"

\* _check_appointment_constraints
Check(constraints, p) ==
  IF p.date = "missing" THEN "appointment_datetime_missing"
  ELSE IF p.date = "invalid" THEN "appointment_datetime_invalid"
  ELSE IF \E i \in 1..Len(constraints) : EndsAt(constraints, p, i)
  THEN Verdict(constraints[CHOOSE i \in 1..Len(constraints) : EndsAt(constraints, p, i)], p)
  ELSE "kept"

Appointments == {"book_appointment", "accept_appointment"}

\* The kinds of candidates and the actions the model may name: of others the
\* policy knows nothing.
Actions == Appointments \cup {"another_action"}

\* Mutant of authorize_commit: the constraints are checked for bookings only.
authorize_commit_BookOnly(permissions, constraints, action, p) ==
  IF ~permissions.may_commit THEN "commit_permission_missing"
  ELSE IF p.cost /\ ~permissions.may_accept_costs THEN "cost_not_authorized"
  ELSE IF action = "book_appointment" THEN Check(constraints, p)
  ELSE "kept"

\* The reason of the decision; "kept" stands for none: it is allowed.
authorize_commit(permissions, constraints, action, p) ==
  IF ~permissions.may_commit THEN "commit_permission_missing"
  ELSE IF p.cost /\ ~permissions.may_accept_costs THEN "cost_not_authorized"
  ELSE IF action \in Appointments THEN Check(constraints, p)
  ELSE "kept"

Allowed(permissions, constraints, action, p) ==
  authorize_commit(permissions, constraints, action, p) = "kept"

-----------------------------------------------------------------------------
(* What the policy should decide.                                          *)

\* What a constraint means.
Keeps(c, p) ==
  /\ \A t \in c.earliest : t < Midnight /\ t <= p.time
  /\ \A t \in c.latest : t < Midnight /\ p.time <= t
  /\ p.day \notin c.notOn

Meets(constraints, action, p) ==
  action \in Appointments =>
    /\ p.date = "valid"
    /\ \A i \in 1..Len(constraints) : Keeps(constraints[i], p)

\* A promise breaks nothing: whatever the order of the constraints, with both
\* ends of a period included, and never if a limit makes no sense.
Permitted(permissions, constraints, action, p) ==
  /\ permissions.may_commit
  /\ p.cost => permissions.may_accept_costs
  /\ Meets(constraints, action, p)

=============================================================================
