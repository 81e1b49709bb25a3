----------------------------- MODULE CallPolicy -----------------------------
(***************************************************************************)
(* A call that is talked on together with the policy: what the tools of    *)
(* ActiveCallContext are told of a commitment is what PolicyEngine decides *)
(* of its action and payload, from the permissions and constraints of the  *)
(* call.  Neither changes while the call is talked on.                     *)
(***************************************************************************)
EXTENDS ActiveCallContext, PolicyEngine

CONSTANTS
  CallPermissions,  \* the permissions of the call
  CallConstraints,  \* its constraints
  ActionOf,         \* the action of each commitment, the kind of each candidate
  PayloadOf         \* and what it is about

\* What authorize_commit answers, which the model hears of.
PolicyDecision ==
  [c \in Commitments \cup Candidates |->
     authorize_commit(CallPermissions, CallConstraints, ActionOf[c], PayloadOf[c])]

ASSUME CallPolicyConstants ==
  /\ CallPermissions \in Permissions
  /\ CallConstraints \in Seq(Constraint)
  /\ DOMAIN ActionOf = Commitments \cup Candidates
  /\ PayloadOf \in [Commitments \cup Candidates -> Payload]

ASSUME DecidedByPolicy == Decision = PolicyDecision

\* The model is told that it may promise something only if that breaks neither
\* the permissions of the call nor one of its constraints, whichever of the
\* actions for appointments it names.
ToldIsPermitted ==
  \A c \in told : Permitted(CallPermissions, CallConstraints, ActionOf[c], PayloadOf[c])

=============================================================================
