-------------------------- MODULE CommitmentLedger --------------------------
(***************************************************************************)
(* What a call promises about the commitments its model asks for: each is  *)
(* recorded at most once, the model is told of a recorded one only, and a  *)
(* call that completes keeps what the model was told, and invents nothing. *)
(* ActiveCallContext implements it.                                        *)
(***************************************************************************)
CONSTANTS
  Commitments,  \* ids of commitments
  Open          \* what is kept while the call has not completed

VARIABLES
  recorded,  \* the commitments the durable event log holds
  told,      \* the commitments the model was told it may make
  kept       \* the commitments of the completed call, or Open

ledger == <<recorded, told, kept>>

Init == recorded = {} /\ told = {} /\ kept = Open

Record(c) ==
  /\ c \notin recorded
  /\ recorded' = recorded \cup {c}
  /\ UNCHANGED <<told, kept>>

Tell(c) ==
  /\ c \in recorded /\ kept = Open
  /\ told' = told \cup {c}
  /\ UNCHANGED <<recorded, kept>>

Complete ==
  /\ kept = Open
  /\ \E K \in SUBSET recorded : told \subseteq K /\ kept' = K
  /\ UNCHANGED <<recorded, told>>

Next == Complete \/ \E c \in Commitments : Record(c) \/ Tell(c)

Spec == Init /\ [][Next]_ledger

=============================================================================
