------------------------ MODULE MCActiveCallContext ------------------------
(***************************************************************************)
(* The instances of ActiveCallContext that TLC checks, with the decisions  *)
(* that the policy makes on what their tools ask.                          *)
(***************************************************************************)
EXTENDS CallPolicy

\* Two tool calls ask for the same commitment; a third asks for another one.
SameCommitment == [t \in CommitCalls |-> IF t = "c3" THEN "accept" ELSE "call"]
TwoCommitments == [t \in CommitCalls |-> IF t = "c3" THEN "accept" ELSE "book"]

\* From 1 to 2, and not on Tuesday; and a sentence that says "24 Uhr".
Sentence == [earliest |-> {}, latest |-> {}, notOn |-> {}]
Workdays == <<[Sentence EXCEPT !.earliest = {1}, !.latest = {2}],
              [Sentence EXCEPT !.notOn = {"tuesday"}]>>
Senseless == <<[Sentence EXCEPT !.latest = {Midnight}]>>

MayCommit == [may_commit |-> TRUE, may_accept_costs |-> FALSE]

\* What the commitments and candidates are about: appointments, the first at the
\* end of the time allowed, the second on an excluded day, and something else.
Proposals ==
  [c \in Commitments \cup Candidates |->
     CASE c = "book" -> "book_appointment" [] c = "accept" -> "accept_appointment"
       [] OTHER -> "another_action"]

Slots ==
  [c \in Commitments \cup Candidates |->
     [cost |-> FALSE, date |-> "valid", time |-> 2,
      day |-> IF c = "book" THEN "thursday" ELSE "tuesday"]]

=============================================================================
