------------------------- MODULE PolicyEngineProofs -------------------------
(***************************************************************************)
(* The policy decides as it should, for all constraints, payloads and      *)
(* times of the day; a call with less leave never may promise more.  And   *)
(* what the voice tools tell the model of a commitment is that decision,   *)
(* however its tool calls and the writer interleave.                       *)
(***************************************************************************)
EXTENDS CallPolicy, ActiveCallContextProofs, WellFoundedInduction, TLAPS

\* One constraint: its tests, in the order of the code, find nothing just if
\* the appointment keeps it.
LEMMA VerdictKept ==
  ASSUME NEW c \in Constraint, NEW p \in Payload
  PROVE  Verdict(c, p) = "kept" <=> Keeps(c, p)
<1> c.earliest \subseteq Nat /\ c.latest \subseteq Nat /\ p.time \in Nat
  BY DEF Constraint, Payload
<1> Midnight \in Nat
  BY PolicyConstants
<1>1. CASE OutOfRange(c.earliest) \/ OutOfRange(c.latest)
  BY <1>1 DEF Verdict, Keeps, OutOfRange
<1>2. CASE ~OutOfRange(c.earliest) /\ ~OutOfRange(c.latest)
  <2>1. \A t \in c.earliest \cup c.latest : t < Midnight
    BY <1>2 DEF OutOfRange
  <2>2. Keeps(c, p) <=> /\ ~\E t \in c.earliest : p.time < t
                        /\ ~\E t \in c.latest : p.time > t
                        /\ p.day \notin c.notOn
    BY <2>1 DEF Keeps
  <2> QED BY <1>2, <2>2 DEF Verdict
<1> QED BY <1>1, <1>2

\* A set of numbers that is not empty has a least one.
LEMMA LeastNumber ==
  ASSUME NEW T \in SUBSET Nat, T # {}
  PROVE  \E i \in T : \A j \in T : i <= j
<1> DEFINE Less == {x \in Nat \X Nat : x[1] < x[2]}
<1>1. IsWellFoundedOn(Less, Nat)
  BY NatLessThanWellFounded DEF OpToRel, IsWellFoundedOn
<1>2. PICK i \in T : \A j \in T : <<j, i>> \notin Less
  <2> HIDE DEF Less
  <2> QED BY <1>1, WFMin
<1>3. ASSUME NEW j \in T PROVE i <= j
  <2>1. <<j, i>> \in Nat \X Nat /\ <<j, i>>[1] = j /\ <<j, i>>[2] = i
    OBVIOUS
  <2>2. ~(j < i)
    BY <1>2, <2>1
  <2> QED BY <2>2
<1> QED BY <1>3

\* The loop ends early just if some constraint is broken.
LEMMA LoopEnds ==
  ASSUME NEW constraints \in Seq(Constraint), NEW p \in Payload
  PROVE  (\E i \in 1..Len(constraints) : EndsAt(constraints, p, i))
           <=> \E i \in 1..Len(constraints) : Verdict(constraints[i], p) # "kept"
<1> DEFINE Broken == {i \in 1..Len(constraints) : Verdict(constraints[i], p) # "kept"}
<1>1. ASSUME Broken # {}
      PROVE  \E i \in 1..Len(constraints) : EndsAt(constraints, p, i)
  <2>1. Broken \in SUBSET Nat
    OBVIOUS
  <2> HIDE DEF Broken
  <2>2. PICK i \in Broken : \A j \in Broken : i <= j
    BY <1>1, <2>1, LeastNumber
  <2> USE DEF Broken
  <2>3. \A j \in 1..(i - 1) : j \in 1..Len(constraints) /\ ~(i <= j)
    OBVIOUS
  <2>4. \A j \in 1..(i - 1) : Verdict(constraints[j], p) = "kept"
    BY <2>2, <2>3
  <2> QED BY <2>4 DEF EndsAt
<1> QED BY <1>1 DEF EndsAt

\* The check of an appointment finds no reason just if it keeps them all.
LEMMA CheckKept ==
  ASSUME NEW constraints \in Seq(Constraint), NEW p \in Payload
  PROVE  Check(constraints, p) = "kept" <=>
           p.date = "valid" /\ \A i \in 1..Len(constraints) : Keeps(constraints[i], p)
<1> DEFINE At == CHOOSE i \in 1..Len(constraints) : EndsAt(constraints, p, i)
<1>1. \A i \in 1..Len(constraints) : constraints[i] \in Constraint
  OBVIOUS
<1>2. \A i \in 1..Len(constraints) :
        Verdict(constraints[i], p) = "kept" <=> Keeps(constraints[i], p)
  BY <1>1, VerdictKept
<1>3. p.date \in {"missing", "invalid", "valid"}
  BY DEF Payload
<1>4. CASE p.date # "valid"
  BY <1>3, <1>4 DEF Check
<1>5. CASE p.date = "valid" /\ \E i \in 1..Len(constraints) : EndsAt(constraints, p, i)
  <2>1. At \in 1..Len(constraints) /\ EndsAt(constraints, p, At)
    BY <1>5
  <2>2. Verdict(constraints[At], p) # "kept"
    BY <2>1 DEF EndsAt
  <2>3. Check(constraints, p) = Verdict(constraints[At], p)
    BY <1>5 DEF Check
  <2> QED BY <1>2, <1>5, <2>1, <2>2, <2>3
<1>6. CASE p.date = "valid" /\ ~\E i \in 1..Len(constraints) : EndsAt(constraints, p, i)
  <2>1. \A i \in 1..Len(constraints) : Verdict(constraints[i], p) = "kept"
    BY <1>6, LoopEnds
  <2>2. Check(constraints, p) = "kept"
    BY <1>6 DEF Check
  <2> QED BY <1>2, <1>6, <2>1, <2>2
<1> QED BY <1>4, <1>5, <1>6

\* authorize_commit, whose loop ends at the first reason or error it finds, allows
\* a promise just if it breaks nothing, for any list of constraints.
THEOREM Decides ==
  ASSUME NEW permissions \in Permissions, NEW constraints \in Seq(Constraint),
         NEW action, NEW p \in Payload
  PROVE  Allowed(permissions, constraints, action, p)
           <=> Permitted(permissions, constraints, action, p)
<1> USE DEF Permitted
<1>1. CASE ~permissions.may_commit
  BY <1>1 DEF Allowed, authorize_commit
<1>2. CASE permissions.may_commit /\ p.cost /\ ~permissions.may_accept_costs
  BY <1>2 DEF Allowed, authorize_commit
<1>3. CASE permissions.may_commit /\ ~(p.cost /\ ~permissions.may_accept_costs)
  BY <1>3, CheckKept DEF Allowed, authorize_commit, Meets
<1> QED BY <1>1, <1>2, <1>3

\* A call with fewer permissions and further constraints never may promise what
\* it could not promise before: whoever restricts a call is not surprised.
THEOREM Restriction ==
  ASSUME NEW less \in Permissions, NEW more \in Permissions,
         less.may_commit => more.may_commit,
         less.may_accept_costs => more.may_accept_costs,
         NEW constraints \in Seq(Constraint), NEW further \in Seq(Constraint),
         NEW action, NEW p \in Payload,
         Allowed(less, constraints \o further, action, p)
  PROVE  Allowed(more, constraints, action, p)
<1>1. constraints \o further \in Seq(Constraint)
  OBVIOUS
<1>2. Meets(constraints \o further, action, p)
  BY <1>1, Decides DEF Permitted
<1>3. \A i \in 1..Len(constraints) :
        i \in 1..Len(constraints \o further) /\ (constraints \o further)[i] = constraints[i]
  OBVIOUS
<1>4. Meets(constraints, action, p)
  BY <1>2, <1>3 DEF Meets
<1> QED BY <1>1, <1>4, Decides DEF Permitted

-----------------------------------------------------------------------------
(* A call that is talked on.                                               *)

\* The model is told of commitments that the policy allows.
ToldAllowed == \A c \in told : c \in Commitments /\ Decision[c] = "kept"

\* Only two steps tell the model anything.
LEMMA WhoTells ==
  ASSUME Inv, [Next]_vars
  PROVE  told' = told \/ \E t \in CommitCalls : Tells(CommitId[t])
<1> Typed
  BY DEF Inv
<1>1. ASSUME NEW t \in Tool, ToolCall(t) \/ ToolStep(t)
      PROVE  told' = told \/ \E u \in CommitCalls : Tells(CommitId[u])
  <2>1. CASE t \notin CommitCalls
    BY <1>1, <2>1, ToolQuiet DEF Quiet
  <2>2. CASE t \in CommitCalls
    <3>1. \/ Authorize(t) \/ Replay(t) \/ Committed(t)
          \/ ToolError(t) \/ PolicyRaises(t)
      BY <1>1, <2>2, CommitSteps
    <3> QED BY <2>2, <3>1 DEF Authorize, Replay, Committed, ToolError, PolicyRaises
  <2> QED BY <2>1, <2>2
<1>2. CASE Cancel \/ Event \/ Stop \/ UNCHANGED vars \/ \E a \in Asks : Respond(a)
  BY <1>2, ApiQuiet DEF Quiet
<1>3. CASE CallEnds \/ WatchdogGivesUp \/ FinishAmd \/ JobFault \/ ShutDown
  BY <1>3, JobQuiet DEF Quiet
<1>4. CASE Say \/ Skip \/ Write \/ Refuse \/ Fault
  BY <1>4 DEF Say, Skip, Write, Refuse, Fault, tasks
<1>5. CASE Over
  BY <1>5 DEF Over, vars, tasks
<1> QED BY <1>1, <1>2, <1>3, <1>4, <1>5 DEF Next, Writer

\* Whatever the model is told it may promise, also by the replay of a commitment
\* that another tool call made, keeps the permissions and every constraint of the
\* call.
THEOREM Permits == Spec => []ToldIsPermitted
<1>1. Init => ToldAllowed
  BY DEF Init, ToldAllowed
<1>2. Inv /\ ToldAllowed /\ [Next]_vars => ToldAllowed'
  <2> SUFFICES ASSUME Inv, ToldAllowed, [Next]_vars PROVE ToldAllowed'
    OBVIOUS
  <2>1. CASE told' = told
    BY <2>1 DEF ToldAllowed
  <2>2. ASSUME NEW t \in CommitCalls, Tells(CommitId[t]) PROVE ToldAllowed'
    <3>1. CommitId[t] \in Commitments
      BY Constants
    <3> QED BY <2>2, <3>1 DEF Tells, ToldAllowed
  <2> QED BY <2>1, <2>2, WhoTells
<1>3. ToldAllowed => ToldIsPermitted
  <2> SUFFICES ASSUME ToldAllowed, NEW c \in told
               PROVE  Permitted(CallPermissions, CallConstraints, ActionOf[c], PayloadOf[c])
    BY DEF ToldIsPermitted
  <2>1. c \in Commitments \cup Candidates /\ Decision[c] = "kept"
    BY DEF ToldAllowed
  <2>2. PayloadOf[c] \in Payload
    BY <2>1, CallPolicyConstants
  <2>3. Allowed(CallPermissions, CallConstraints, ActionOf[c], PayloadOf[c])
    BY <2>1, DecidedByPolicy DEF PolicyDecision, Allowed
  <2> QED BY <2>2, <2>3, CallPolicyConstants, Decides
<1> QED BY <1>1, <1>2, <1>3, Invariance, PTL DEF Spec

=============================================================================
