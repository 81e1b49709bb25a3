---------------------- MODULE PostgresRepositoryProofs ----------------------
(***************************************************************************)
(* The transactions of PostgreSQL implement the in-memory repository, an   *)
(* idempotency key names one call, and a client that pages through its     *)
(* calls misses none that stays in its place: for any requests, jobs,      *)
(* deaths and any order of their statements.                               *)
(***************************************************************************)
EXTENDS PostgresRepository, FiniteSetTheorems, TLAPS

Kinds == Memory!Kind \cup {"turn"}

\* Types, as far as the steps depend on them.
TypeInv ==
  /\ status \in [Request -> Memory!Statuses \cup {Memory!Absent}]
  /\ pc \in [Session -> {"idle", "insert", "inserted", "update", "locked", "done"}]
  /\ on \in [Session -> Session] /\ kind \in [Session -> Kinds]
  /\ DOMAIN answer = Session

\* Requests work on the calls they bring, which do not exist before they are
\* committed; everybody else works on calls that exist.
WorkInv ==
  \A s \in Session :
    /\ s \in Request => on[s] = s
    /\ s \in Request /\ pc[s] \in {"idle", "insert", "inserted"} => status[s] = Memory!Absent
    /\ s \notin Request => pc[s] \notin {"insert", "inserted"}
    /\ pc[s] \in {"update", "locked"} => on[s] \in Calls

\* An uncommitted row has a key that no committed and no other uncommitted row
\* has; a committed one has a key of its own.
KeyInv ==
  /\ \A r \in Request : pc[r] = "inserted" => Known(r) = {} /\ Conflicts(r) = {}
  /\ \A c, d \in Calls : KeyOf[c] = KeyOf[d] /\ KeyOf[c] # NoKey => c = d

\* Who holds a row holds it alone, and what was checked of it still holds.
LockInv ==
  \A s \in Session : pc[s] = "locked" =>
    /\ Allowed(s)
    /\ \A o \in Session \ {s} : pc[o] = "locked" => on[o] # on[s]

\* A request is answered with its own call or one that has its key.
AnswerInv ==
  \A r \in Request : answer[r] \in Request =>
    /\ answer[r] \in Calls
    /\ answer[r] = r \/ (KeyOf[r] # NoKey /\ KeyOf[answer[r]] = KeyOf[r])

Inv == TypeInv /\ WorkInv /\ KeyInv /\ LockInv /\ AnswerInv

\* The words of the repository.
USE DEF Calls, Memory!Calls, Error, Memory!Error, Memory!Refused, Memory!Nothing,
        Memory!Absent, Memory!Statuses

-----------------------------------------------------------------------------
(* Lemmas about the operators of the repository.                           *)

\* An update leads a call from a status it has to one it may have.
LEMMA NewStatusType ==
  ASSUME NEW k \in Kinds, NEW old \in Memory!Statuses
  PROVE  Memory!NewStatus(k, old) \in Memory!Statuses
BY DEF Kinds, Memory!Kind, Memory!NewStatus

LEMMA InitInv == Init => Inv
<1> SUFFICES ASSUME Init PROVE Inv
  OBVIOUS
<1> USE DEF Init, Memory!Init
<1>1. \A s \in Session : pc[s] \in {"idle", "done"}
  OBVIOUS
<1>2. \A s \in Session : kind[s] \in Kinds
  <2>1. ASSUME NEW s \in Request PROVE (CHOOSE k \in Does[s] : TRUE) \in Kinds
    BY Constants DEF Kinds, Memory!Kind
  <2> QED BY <2>1 DEF Kinds
<1>3. TypeInv
  <2>1. kind \in [Session -> Kinds]
    BY <1>2
  <2> QED BY <2>1, Constants DEF TypeInv
<1>4. Calls = {}
  OBVIOUS
<1>5. WorkInv
  BY <1>1, Constants DEF WorkInv
<1>6. KeyInv
  BY <1>1, <1>4, Constants DEF KeyInv
<1>7. LockInv
  BY <1>1 DEF LockInv
<1>8. AnswerInv
  BY Constants DEF AnswerInv
<1> QED BY <1>3, <1>5, <1>6, <1>7, <1>8 DEF Inv

-----------------------------------------------------------------------------
(* Each step keeps the invariant.                                          *)

LEMMA LookupInv ==
  ASSUME Inv, NEW r \in Request, Lookup(r)
  PROVE  Inv'
<1> USE DEF Inv, Lookup, Answer, Goto, Memory!Reply
<1>0. r \in Session
  BY Constants
<1>1. TypeInv'
  BY <1>0 DEF TypeInv
<1>2. WorkInv'
  BY <1>0, Constants DEF TypeInv, WorkInv
<1>3. \A s \in Session : pc'[s] \in {"inserted", "locked"} <=> pc[s] \in {"inserted", "locked"}
  BY <1>0 DEF TypeInv
<1>4. KeyInv'
  BY <1>0, <1>3, Constants DEF TypeInv, KeyInv, Known, Conflicts, Memory!Same
<1>5. LockInv'
  BY <1>0, <1>3 DEF TypeInv, LockInv, Allowed
<1>6. AnswerInv'
  BY <1>0, Constants DEF TypeInv, AnswerInv, Known, Memory!Same
<1> QED BY <1>1, <1>2, <1>4, <1>5, <1>6

LEMMA InsertInv ==
  ASSUME Inv, NEW r \in Request, Insert(r)
  PROVE  Inv'
<1> USE DEF Inv, Insert, Answer, Goto, Memory!Reply
<1>0. r \in Session
  BY Constants
<1>1. TypeInv'
  BY <1>0 DEF TypeInv, rows
<1>2. WorkInv'
  BY <1>0, Constants DEF TypeInv, WorkInv, rows
<1>3. KeyInv'
  <2>1. CASE Violates(r) /\ Answer(r, Error)
    BY <1>0, <2>1, Constants DEF TypeInv, KeyInv, Known, Conflicts, Memory!Same, rows
  <2>2. CASE ~Violates(r) /\ Goto(r, "inserted") /\ UNCHANGED answer
    BY <1>0, <2>2, Constants DEF TypeInv, KeyInv, Known, Conflicts, Violates, Memory!Same, rows
  <2> QED BY <2>1, <2>2
<1>4. LockInv'
  BY <1>0 DEF TypeInv, LockInv, Allowed, rows
<1>5. AnswerInv'
  BY <1>0, Constants DEF TypeInv, AnswerInv, rows
<1> QED BY <1>1, <1>2, <1>3, <1>4, <1>5

LEMMA CommitCreateInv ==
  ASSUME Inv, NEW r \in Request, CommitCreate(r)
  PROVE  Inv'
<1> USE DEF Inv, CommitCreate, Goto, Memory!Reply
<1>0. r \in Session
  BY Constants
<1>1. TypeInv'
  BY <1>0 DEF TypeInv
<1>2. Calls' = Calls \cup {r} /\ r \notin Calls
  BY <1>0 DEF TypeInv, WorkInv
<1>3. WorkInv'
  BY <1>0, <1>2, Constants DEF TypeInv, WorkInv
<1>4. KeyInv'
  BY <1>0, <1>2, Constants DEF TypeInv, KeyInv, Known, Conflicts, Memory!Same
<1>5. LockInv'
  <2>1. \A s \in Session : pc'[s] = "locked" <=> pc[s] = "locked"
    BY <1>0 DEF TypeInv
  <2>2. \A s \in Session : pc[s] = "locked" => on[s] # r
    BY <1>2 DEF WorkInv
  <2> QED BY <2>1, <2>2 DEF TypeInv, WorkInv, LockInv, Allowed
<1>6. AnswerInv'
  BY <1>0, <1>2, Constants DEF TypeInv, AnswerInv
<1> QED BY <1>1, <1>3, <1>4, <1>5, <1>6

LEMMA BeginInv ==
  ASSUME Inv, NEW s \in Session, Begin(s)
  PROVE  Inv'
<1> USE DEF Inv, Begin, Goto, rows
<1>1. TypeInv'
  <2>1. on' \in [Session -> Session]
    BY Constants DEF TypeInv
  <2>2. Does[s] \subseteq Kinds
    BY Constants DEF Kinds, Memory!Kind
  <2>3. kind' \in [Session -> Kinds]
    BY <2>2 DEF TypeInv
  <2> QED BY <2>1, <2>3 DEF TypeInv
<1>2. WorkInv'
  BY DEF TypeInv, WorkInv
<1>3. KeyInv'
  BY Constants DEF TypeInv, KeyInv, Known, Conflicts, Memory!Same
<1>4. LockInv'
  BY DEF TypeInv, LockInv, Allowed
<1>5. AnswerInv'
  BY DEF AnswerInv
<1> QED BY <1>1, <1>2, <1>3, <1>4, <1>5

LEMMA LockKeepsInv ==
  ASSUME Inv, NEW s \in Session, Lock(s)
  PROVE  Inv'
<1> USE DEF Inv, Lock, Answer, Goto, Memory!Reply, rows
<1>1. TypeInv'
  BY DEF TypeInv
<1>2. WorkInv'
  BY DEF TypeInv, WorkInv
<1>3. KeyInv'
  BY Constants DEF TypeInv, KeyInv, Known, Conflicts, Memory!Same
<1>4. LockInv'
  BY DEF TypeInv, LockInv, Allowed
<1>5. AnswerInv'
  BY Constants DEF TypeInv, AnswerInv
<1> QED BY <1>1, <1>2, <1>3, <1>4, <1>5

LEMMA CommitUpdateInv ==
  ASSUME Inv, NEW s \in Session, CommitUpdate(s)
  PROVE  Inv'
<1> DEFINE c == on[s]
<1> DEFINE new == Memory!NewStatus(kind[s], status[c])
<1>0. c \in Request /\ status[c] \in Memory!Statuses
  BY DEF CommitUpdate, Inv, WorkInv, TypeInv
<1>1. new \in Memory!Statuses
  BY <1>0, NewStatusType DEF Inv, TypeInv
<1>2. /\ pc[s] = "locked"
      /\ status' = [status EXCEPT ![c] = new]
      /\ answer' = [answer EXCEPT ![s] = c]
      /\ kind' = IF kind[s] = "validating" THEN [kind EXCEPT ![s] = "queued"] ELSE kind
      /\ pc' = [pc EXCEPT ![s] = IF kind[s] = "validating" THEN "update" ELSE "done"]
      /\ on' = on
  BY DEF CommitUpdate, Goto, Memory!Reply
<1> HIDE DEF new
<1> USE DEF Inv
<1>3. TypeInv'
  BY <1>0, <1>1, <1>2 DEF TypeInv, Kinds, Memory!Kind
<1>4. Calls' = Calls
  BY <1>0, <1>1, <1>2 DEF TypeInv
<1>5. WorkInv'
  BY <1>0, <1>1, <1>2, <1>4 DEF TypeInv, WorkInv
<1>6. KeyInv'
  BY <1>2, <1>4, Constants DEF TypeInv, KeyInv, Known, Conflicts, Memory!Same
<1>7. LockInv'
  <2>1. \A o \in Session : pc'[o] = "locked" => o # s /\ pc[o] = "locked"
    BY <1>2 DEF TypeInv
  <2>2. \A o \in Session \ {s} : pc[o] = "locked" => on[o] # c /\ kind'[o] = kind[o]
    BY <1>2 DEF TypeInv, LockInv
  <2>3. \A o \in Session \ {s} : pc[o] = "locked" => status'[on[o]] = status[on[o]]
    BY <1>2, <2>2 DEF TypeInv, WorkInv
  <2> QED BY <1>2, <2>1, <2>2, <2>3 DEF TypeInv, LockInv, Allowed
<1>8. AnswerInv'
  BY <1>0, <1>2, <1>4, Constants DEF TypeInv, WorkInv, AnswerInv
<1> QED BY <1>3, <1>5, <1>6, <1>7, <1>8

LEMMA CommitTurnInv ==
  ASSUME Inv, NEW s \in Session, CommitTurn(s)
  PROVE  Inv'
<1> USE DEF Inv, CommitTurn, Answer, Goto, Memory!Reply
<1>1. TypeInv'
  BY DEF TypeInv
<1>2. WorkInv'
  BY DEF TypeInv, WorkInv
<1>3. KeyInv'
  BY Constants DEF TypeInv, KeyInv, Known, Conflicts, Memory!Same
<1>4. LockInv'
  BY DEF TypeInv, LockInv, Allowed
<1>5. AnswerInv'
  BY Constants DEF TypeInv, WorkInv, AnswerInv
<1> QED BY <1>1, <1>2, <1>3, <1>4, <1>5

LEMMA DieInv ==
  ASSUME Inv, NEW s \in Session, Die(s)
  PROVE  Inv'
<1> USE DEF Inv, Die, Answer, Goto, Memory!Reply, rows
<1>1. TypeInv'
  BY DEF TypeInv
<1>2. WorkInv'
  BY DEF TypeInv, WorkInv
<1>3. KeyInv'
  BY Constants DEF TypeInv, KeyInv, Known, Conflicts, Memory!Same
<1>4. LockInv'
  BY DEF TypeInv, LockInv, Allowed
<1>5. AnswerInv'
  BY Constants DEF TypeInv, AnswerInv
<1> QED BY <1>1, <1>2, <1>3, <1>4, <1>5

\* Reading pages and the clock change no row and no session.
LEMMA ReadInv ==
  ASSUME Inv, UNCHANGED <<rows, sessions>>
  PROVE  Inv'
<1> USE DEF rows, sessions
<1>1. TypeInv' /\ WorkInv'
  BY DEF Inv, TypeInv, WorkInv
<1>2. KeyInv'
  BY DEF Inv, KeyInv, Known, Conflicts, Memory!Same
<1>3. LockInv' /\ AnswerInv'
  BY DEF Inv, LockInv, Allowed, AnswerInv
<1> QED BY <1>1, <1>2, <1>3 DEF Inv

LEMMA NextInv == Inv /\ [Next]_vars => Inv'
<1> SUFFICES ASSUME Inv, [Next]_vars PROVE Inv'
  OBVIOUS
<1>1. ASSUME NEW r \in Request, Create(r) PROVE Inv'
  BY <1>1, LookupInv, InsertInv, CommitCreateInv DEF Create
<1>2. ASSUME NEW s \in Session,
             Begin(s) \/ Lock(s) \/ CommitUpdate(s) \/ CommitTurn(s) \/ Die(s)
      PROVE  Inv'
  BY <1>2, BeginInv, LockKeepsInv, CommitUpdateInv, CommitTurnInv, DieInv
<1>3. CASE list_calls \/ Tick \/ Quiet \/ UNCHANGED vars
  BY <1>3, ReadInv DEF list_calls, Tick, Quiet, vars
<1> QED BY <1>1, <1>2, <1>3 DEF Next

LEMMA Always == Spec => []Inv
BY InitInv, NextInv, PTL DEF Spec

\* However requests race, are repeated or die, a key names one call, and the
\* client of a request is answered with that call.
THEOREM OneCall == Spec => []KeyNamesOneCall
<1>1. Inv => KeyNamesOneCall
  BY DEF Inv, KeyInv, AnswerInv, KeyNamesOneCall
<1> QED BY <1>1, Always, PTL

-----------------------------------------------------------------------------
(* The refinement.                                                         *)

\* Each step is one of the in-memory repository, or none.
LEMMA StepRefines ==
  Inv /\ [Next]_vars => [Memory!Next]_<<Memory!store, answer>>
<1> SUFFICES ASSUME Inv, [Next]_vars PROVE [Memory!Next]_<<Memory!store, answer>>
  OBVIOUS
<1> USE DEF Memory!store
<1>1. ASSUME NEW r \in Request, Create(r) PROVE [Memory!Next]_<<Memory!store, answer>>
  <2> r \in Session
    BY Constants
  <2>1. CASE Lookup(r)
    <3>1. \/ Memory!CreateKnown(r)
          \/ UNCHANGED <<Memory!store, answer>>
      BY <2>1 DEF Lookup, Known, Answer, Memory!CreateKnown
    <3> QED BY <3>1 DEF Memory!Next
  <2>2. CASE Insert(r)
    <3>1. \/ Memory!Fail(r)
          \/ UNCHANGED <<Memory!store, answer>>
      BY <2>2 DEF Insert, Answer, Memory!Fail, rows
    <3> QED BY <3>1 DEF Memory!Next
  <2>3. CASE CommitCreate(r)
    <3>1. status[r] = Memory!Absent /\ Memory!Same(r) = {}
      BY <2>3 DEF CommitCreate, Inv, WorkInv, KeyInv, Known
    <3>2. Memory!CreateNew(r)
      BY <2>3, <3>1 DEF CommitCreate, Memory!CreateNew
    <3> QED BY <3>2 DEF Memory!Next
  <2> QED BY <1>1, <2>1, <2>2, <2>3 DEF Create
<1>2. ASSUME NEW s \in Session, Begin(s) PROVE UNCHANGED <<Memory!store, answer>>
  BY <1>2 DEF Begin, rows
<1>3. ASSUME NEW s \in Session, Lock(s) PROVE [Memory!Next]_<<Memory!store, answer>>
  <2>1. on[s] \in Calls
    BY <1>3 DEF Lock, Inv, WorkInv
  <2>2. CASE Allowed(s)
    BY <1>3, <2>2 DEF Lock, rows
  <2>3. CASE ~Allowed(s)
    <3>1. kind[s] \in Memory!Kind
      BY <2>1, <2>3 DEF Allowed, Memory!Expected, Inv, TypeInv, Kinds
    <3>2. Memory!Refuse(s, on[s], kind[s])
      BY <1>3, <2>1, <2>3 DEF Lock, Allowed, Answer, Memory!Refuse, rows
    <3> QED BY <2>1, <3>1, <3>2 DEF Memory!Next
  <2> QED BY <2>2, <2>3
<1>4. ASSUME NEW s \in Session, CommitUpdate(s) PROVE Memory!Next
  <2>1. on[s] \in Calls /\ kind[s] \in Memory!Kind /\ Allowed(s)
    BY <1>4 DEF CommitUpdate, Inv, TypeInv, WorkInv, LockInv, Kinds
  <2>2. Memory!update_call(s, on[s], kind[s])
    BY <1>4, <2>1 DEF CommitUpdate, Allowed, Memory!update_call
  <2> QED BY <2>1, <2>2 DEF Memory!Next
<1>5. ASSUME NEW s \in Session, CommitTurn(s) PROVE Memory!Next
  <2>1. on[s] \in Calls
    BY <1>5 DEF CommitTurn, Inv, WorkInv
  <2>2. Memory!append_transcript_turn(s, on[s])
    BY <1>5, <2>1 DEF CommitTurn, Answer, Memory!append_transcript_turn
  <2> QED BY <2>1, <2>2 DEF Memory!Next
<1>6. ASSUME NEW s \in Session, Die(s) PROVE Memory!Next
  BY <1>6 DEF Die, Answer, rows, Memory!Fail, Memory!Next
<1>7. CASE list_calls \/ Tick \/ Quiet \/ UNCHANGED vars
  BY <1>7 DEF list_calls, Tick, Quiet, vars, rows, sessions
<1> QED BY <1>1, <1>2, <1>3, <1>4, <1>5, <1>6, <1>7 DEF Next

\* The statements of concurrent transactions, some of them rolled back, add up to
\* the operations of the in-memory repository, each at one instant.
THEOREM Refinement == Spec => RefinesMemory
<1>1. Init => Memory!Init
  BY DEF Init
<1> QED BY <1>1, Always, StepRefines, PTL DEF Spec, RefinesMemory, Memory!Spec

-----------------------------------------------------------------------------
(* The pages of list_calls.                                                *)

\* The types of what the pages depend on; only finitely many calls exist.
PageTypes ==
  /\ created \in [Request -> 0..MaxTime] /\ connected \in [Request -> 0..MaxTime]
  /\ answer \in [Session -> Request \cup {Memory!Nothing, Memory!Refused, Error}]
  /\ seen \subseteq Calls /\ twice \subseteq Request
  /\ now \in 1..MaxTime /\ deaths \in 0..MaxDeaths
  /\ IsFiniteSet(Calls)

\* What is stamped was stamped in the past; a call has been stamped before its
\* row is committed.
StampInv ==
  \A r \in Request :
    /\ r \in Calls \/ pc[r] \in {"insert", "inserted"} => created[r] # 0
    /\ created[r] <= now /\ connected[r] <= now

\* A position between two pages: the time and the id of a call.
Position == (Nat \ {0}) \X Nat

\* The calls of the first page's time are still there, and no older than then.
BaseInv ==
  /\ \A b \in base : \E c \in Calls, p \in Position :
       b = <<c, p>> /\ OwnerOf[c] = Principal /\ ~Older(Started(c), p)
  /\ cursor \in {Start, End} \cup Position

\* What was on a page is not beyond the cursor any more, and of the calls that
\* have kept their place the cursor has passed only what was on a page.
CursorInv ==
  /\ twice = {}
  /\ cursor = Start => seen = {} /\ base = {}
  /\ cursor \in Position => \A c \in seen : ~Older(Started(c), cursor)
  /\ \A b \in base : Started(b[1]) = b[2] =>
       \/ b[1] \in seen
       \/ cursor \in Position /\ Older(b[2], cursor)

PageInv == PageTypes /\ StampInv /\ BaseInv /\ CursorInv

\* Positions are ordered, strictly and totally; calls have different ones.
LEMMA OlderOrder ==
  ASSUME NEW a \in Nat \X Nat, NEW b \in Nat \X Nat
  PROVE  /\ ~(Older(a, b) /\ Older(b, a))
         /\ a # b => Older(a, b) \/ Older(b, a)
         /\ \A c \in Nat \X Nat : Older(a, b) /\ Older(b, c) => Older(a, c)
<1>1. a = <<a[1], a[2]>> /\ b = <<b[1], b[2]>>
  OBVIOUS
<1>2. a[1] \in Nat /\ a[2] \in Nat /\ b[1] \in Nat /\ b[2] \in Nat
  OBVIOUS
<1>3. ~(Older(a, b) /\ Older(b, a))
  BY <1>2 DEF Older
<1>4. a # b => Older(a, b) \/ Older(b, a)
  BY <1>1, <1>2 DEF Older
<1>5. ASSUME NEW c \in Nat \X Nat, Older(a, b), Older(b, c) PROVE Older(a, c)
  <2>1. c[1] \in Nat /\ c[2] \in Nat
    OBVIOUS
  <2> QED BY <1>2, <1>5, <2>1 DEF Older
<1> QED BY <1>3, <1>4, <1>5

LEMMA Places ==
  ASSUME PageTypes, StampInv
  PROVE  /\ Position \subseteq Nat \X Nat
         /\ Start \notin Position /\ End \notin Position /\ Start # End
         /\ \A c \in Calls : Started(c) \in Position
         /\ \A c, d \in Calls : Started(c) = Started(d) => c = d
<1>1. Position \subseteq Nat \X Nat
  BY DEF Position
<1>2. Start[1] = 0 /\ End[1] = 0 /\ Start[2] # End[2]
  BY DEF Start, End
<1>3. \A p \in Position : p[1] # 0
  BY DEF Position
<1>4. ASSUME NEW c \in Calls
      PROVE  Started(c) \in Position /\ Started(c)[2] = Rank[c]
  <2>1. c \in Request /\ created[c] \in Nat /\ connected[c] \in Nat /\ Rank[c] \in Nat
    BY Constants DEF PageTypes
  <2>2. created[c] # 0
    BY <2>1 DEF StampInv
  <2> QED BY <2>1, <2>2 DEF Started, Position
<1>5. \A c, d \in Calls : Started(c) = Started(d) => c = d
  BY <1>4, Constants
<1> QED BY <1>1, <1>2, <1>3, <1>4, <1>5

\* A finite set has a member that a strict order puts nothing before.
LEMMA Extreme ==
  ASSUME NEW P, IsFiniteSet(P), P # {}, NEW R,
         \A a \in P : <<a, a>> \notin R,
         \A a, b, c \in P : <<a, b>> \in R /\ <<b, c>> \in R => <<a, c>> \in R
  PROVE  \E a \in P : \A b \in P : <<b, a>> \notin R
<1> DEFINE Before(a) == {b \in P : <<b, a>> \in R}
           Sets == {Before(a) : a \in P}
<1>1. IsWellFoundedOn(StrictSubsetOrdering(P), FiniteSubsetsOf(P))
  BY FS_StrictSubsetOrderingWellFounded
<1>2. Sets \subseteq FiniteSubsetsOf(P) /\ Sets # {}
  <2>1. FiniteSubsetsOf(P) = SUBSET P
    BY FS_FiniteSubsetsOfFinite
  <2>2. \A B \in Sets : B \in SUBSET P
    OBVIOUS
  <2>3. \A a \in P : Before(a) \in Sets
    OBVIOUS
  <2> HIDE DEF Sets
  <2> QED BY <2>1, <2>2, <2>3
<1>3. PICK B \in Sets : \A C \in Sets : <<C, B>> \notin StrictSubsetOrdering(P)
  <2> HIDE DEF Sets
  <2> QED BY <1>1, <1>2, WFMin
<1>4. PICK a \in P : B = Before(a)
  BY <1>3
<1>5. ASSUME NEW b \in P, <<b, a>> \in R PROVE FALSE
  <2>1. Before(b) \subseteq B /\ b \in B /\ b \notin Before(b)
    BY <1>4, <1>5
  <2>2. <<Before(b), B>> \in StrictSubsetOrdering(P)
    BY <1>4, <2>1 DEF StrictSubsetOrdering
  <2> QED BY <1>3, <2>2
<1> QED BY <1>5

\* The newest n calls: whoever is left out is older than everybody on the page,
\* and the page is not empty unless there are no calls.
LEMMA NewestFirst ==
  ASSUME PageTypes, StampInv, NEW C \in SUBSET Calls, NEW n \in Nat \ {0}
  PROVE  /\ Newest(n, C) \subseteq C
         /\ \A c \in Newest(n, C), d \in C \ Newest(n, C) : Older(Started(d), Started(c))
         /\ C # {} => Newest(n, C) # {}
<1> DEFINE Newer(c) == {d \in C : Older(Started(c), Started(d))}
<1>1. IsFiniteSet(C)
  BY FS_Subset DEF PageTypes
<1>2. \A c \in C : Started(c) \in Nat \X Nat
  BY Places
<1>3. \A c, d \in C : Started(c) = Started(d) => c = d
  BY Places
<1>4. Newest(n, C) \subseteq C
  BY DEF Newest
<1>5. ASSUME NEW c \in Newest(n, C), NEW d \in C \ Newest(n, C)
      PROVE  Older(Started(d), Started(c))
  <2>1. IsFiniteSet(Newer(c)) /\ IsFiniteSet(Newer(d))
    BY <1>1, FS_Subset
  <2>2. Cardinality(Newer(c)) \in Nat /\ Cardinality(Newer(d)) \in Nat
    BY <2>1, FS_CardinalityType
  <2>3. Cardinality(Newer(c)) < n /\ ~(Cardinality(Newer(d)) < n) /\ c \in C /\ c # d
    BY <1>5 DEF Newest
  <2>4. ASSUME Older(Started(c), Started(d)) PROVE FALSE
    <3>1. Newer(d) \subseteq Newer(c)
      BY <1>2, <1>4, <2>4, OlderOrder
    <3>2. Cardinality(Newer(d)) <= Cardinality(Newer(c))
      BY <2>1, <3>1, FS_Subset
    <3> QED BY <2>2, <2>3, <3>2
  <2> QED BY <1>2, <1>3, <1>4, <2>3, <2>4, OlderOrder
<1>6. ASSUME C # {} PROVE Newest(n, C) # {}
  <2> DEFINE R == {x \in C \X C : Older(Started(x[2]), Started(x[1]))}
  <2>1. \A a, b \in C : <<a, b>> \in R <=> Older(Started(b), Started(a))
    OBVIOUS
  <2>2. \A a \in C : <<a, a>> \notin R
    BY <1>2, <2>1, OlderOrder
  <2>3. \A a, b, c \in C : <<a, b>> \in R /\ <<b, c>> \in R => <<a, c>> \in R
    BY <1>2, <2>1, OlderOrder
  <2> HIDE DEF R
  <2>4. PICK a \in C : \A b \in C : <<b, a>> \notin R
    BY <1>1, <1>6, <2>2, <2>3, Extreme
  <2>5. Newer(a) = {}
    BY <2>1, <2>4
  <2>6. Cardinality(Newer(a)) = 0
    BY <2>5, FS_EmptySet
  <2> QED BY <2>6 DEF Newest
<1> QED BY <1>4, <1>5, <1>6

\* The cursor after a page with more to come stands at the oldest call of the
\* page: nobody on the page is beyond it.
LEMMA CursorLast ==
  ASSUME PageTypes, StampInv, NEW page \in SUBSET Calls, NEW more, page # {}, more # {}
  PROVE  \E c \in page : /\ NextCursor(page, more) = Started(c)
                         /\ \A d \in page : ~Older(Started(d), Started(c))
<1>1. \A c \in page : Started(c) \in Nat \X Nat
  BY Places
<1> DEFINE R == {x \in page \X page : Older(Started(x[1]), Started(x[2]))}
<1>2. \A a, b \in page : <<a, b>> \in R <=> Older(Started(a), Started(b))
  OBVIOUS
<1>3. \A a \in page : <<a, a>> \notin R
  BY <1>1, <1>2, OlderOrder
<1>4. \A a, b, c \in page : <<a, b>> \in R /\ <<b, c>> \in R => <<a, c>> \in R
  BY <1>1, <1>2, OlderOrder
<1>5. IsFiniteSet(page)
  BY FS_Subset DEF PageTypes
<1> HIDE DEF R
<1>6. \E a \in page : \A b \in page : <<b, a>> \notin R
  BY <1>3, <1>4, <1>5, Extreme
<1>7. \E c \in page : \A d \in page : ~Older(Started(d), Started(c))
  BY <1>2, <1>6
<1> DEFINE last == CHOOSE c \in page : \A d \in page : ~Older(Started(d), Started(c))
<1>8. last \in page /\ \A d \in page : ~Older(Started(d), Started(last))
  BY <1>7
<1>9. NextCursor(page, more) = Started(last)
  BY DEF NextCursor
<1> QED BY <1>8, <1>9

-----------------------------------------------------------------------------
(* Each step keeps what the pages depend on.                               *)

LEMMA InitPages == Init => PageInv
<1> SUFFICES ASSUME Init PROVE PageInv
  OBVIOUS
<1> USE DEF Init, Memory!Init
<1>1. Calls = {}
  OBVIOUS
<1>2. PageTypes
  <2>1. IsFiniteSet(Calls) /\ seen \subseteq Calls
    BY <1>1, FS_EmptySet
  <2>2. now \in 1..MaxTime /\ deaths \in 0..MaxDeaths /\ 0 \in 0..MaxTime
    BY Constants
  <2>3. answer \in [Session -> Request \cup {Memory!Nothing, Memory!Refused, Error}]
    OBVIOUS
  <2> QED BY <2>1, <2>2, <2>3 DEF PageTypes
<1>3. StampInv
  BY <1>1, Constants DEF StampInv
<1>4. cursor \in {Start, End} /\ BaseInv
  BY DEF BaseInv
<1>5. Start \notin Position /\ End \notin Position
  BY DEF Start, End, Position
<1>6. CursorInv
  BY <1>4, <1>5 DEF CursorInv
<1> QED BY <1>2, <1>3, <1>4, <1>6 DEF PageInv

\* Between two pages calls may appear, and those that exist may become newer: a
\* call that has left its place does not come back to it.
LEMMA BetweenPages ==
  ASSUME PageInv, PageTypes', StampInv', UNCHANGED pages, Calls \subseteq Calls',
         \A c \in Calls : Started(c)' = Started(c) \/ Older(Started(c), Started(c)')
  PROVE  PageInv'
<1> USE DEF pages
<1>1. PageTypes /\ StampInv /\ BaseInv /\ CursorInv
  BY DEF PageInv
<1>2. /\ Position \subseteq Nat \X Nat
      /\ \A c \in Calls : Started(c) \in Nat \X Nat /\ Started(c)' \in Nat \X Nat
  <2>1. \A c \in Calls : Started(c) \in Nat \X Nat
    BY <1>1, Places
  <2>2. \A c \in Calls' : Started(c)' \in Nat \X Nat
    <3>1. \A c \in Calls' : /\ c \in Request /\ created'[c] \in Nat
                            /\ connected'[c] \in Nat /\ Rank[c] \in Nat
      BY Constants DEF PageTypes
    <3> QED BY <3>1 DEF Started
  <2> QED BY <2>1, <2>2, <1>1, Places
<1>3. ASSUME NEW c \in Calls, NEW p \in Position, Older(Started(c)', p)
      PROVE  Older(Started(c), p)
  BY <1>2, <1>3, OlderOrder
<1>4. BaseInv'
  <2>1. ASSUME NEW b \in base
        PROVE  \E c \in Calls', p \in Position :
                 b = <<c, p>> /\ OwnerOf[c] = Principal /\ ~Older(Started(c)', p)
    <3>1. PICK c \in Calls, p \in Position :
            b = <<c, p>> /\ OwnerOf[c] = Principal /\ ~Older(Started(c), p)
      BY <1>1 DEF BaseInv
    <3>2. ~Older(Started(c)', p)
      BY <1>3, <3>1
    <3> QED BY <3>1, <3>2
  <2> QED BY <1>1, <2>1 DEF BaseInv
<1>5. CursorInv'
  <2>1. ASSUME cursor \in Position, NEW c \in seen PROVE ~Older(Started(c)', cursor)
    BY <1>1, <1>3, <2>1 DEF CursorInv, PageTypes
  <2>2. ASSUME NEW b \in base, Started(b[1])' = b[2]
        PROVE  \/ b[1] \in seen
               \/ cursor \in Position /\ Older(b[2], cursor)
    <3>1. PICK c \in Calls, p \in Position : b = <<c, p>> /\ ~Older(Started(c), p)
      BY <1>1 DEF BaseInv
    <3>2. Started(c)' = p
      BY <2>2, <3>1
    <3>3. Started(c) = p
      BY <3>1, <3>2
    <3>4. Started(b[1]) = b[2]
      BY <3>1, <3>3
    <3> QED BY <1>1, <3>4 DEF CursorInv
  <2> QED BY <1>1, <2>1, <2>2 DEF CursorInv
<1> QED BY <1>4, <1>5 DEF PageInv

\* A step that stamps no call and adds none.
LEMMA SamePages ==
  ASSUME PageInv, UNCHANGED <<created, connected, pages, now>>, Calls' = Calls,
         answer' \in [Session -> Request \cup {Memory!Nothing, Memory!Refused, Error}],
         deaths' \in 0..MaxDeaths,
         \A r \in Request : pc'[r] \in {"insert", "inserted"} => pc[r] \in {"insert", "inserted"}
  PROVE  PageInv'
<1>1. PageTypes'
  BY DEF PageInv, PageTypes, pages
<1>2. StampInv'
  BY DEF PageInv, StampInv
<1>3. \A c \in Calls : Started(c)' = Started(c)
  BY DEF Started
<1> QED BY <1>1, <1>2, <1>3, BetweenPages

LEMMA LookupPages ==
  ASSUME Inv, PageInv, NEW r \in Request, Lookup(r)
  PROVE  PageInv'
<1>0. r \in Session /\ r \notin Calls
  BY Constants DEF Lookup, Inv, WorkInv
<1>1. CASE (\E c \in Known(r) : Answer(r, c)) /\ UNCHANGED created
  <2>1. answer' \in [Session -> Request \cup {Memory!Nothing, Memory!Refused, Error}]
    BY <1>0, <1>1 DEF Known, Memory!Same, Answer, Memory!Reply, PageInv, PageTypes
  <2>2. \A s \in Request : pc'[s] \in {"insert", "inserted"} => pc[s] \in {"insert", "inserted"}
    BY <1>0, <1>1, Constants DEF Answer, Goto, Inv, TypeInv
  <2>3. UNCHANGED <<created, connected, pages, now>> /\ Calls' = Calls /\ deaths' \in 0..MaxDeaths
    BY <1>1 DEF Lookup, PageInv, PageTypes
  <2> QED BY <2>1, <2>2, <2>3, SamePages
<1>2. CASE /\ created' = [created EXCEPT ![r] = now]
           /\ Goto(r, "insert") /\ UNCHANGED answer
  <2> USE DEF Lookup, PageInv, PageTypes
  <2>1. Calls' = Calls /\ UNCHANGED pages
    OBVIOUS
  <2>2. PageTypes'
    BY <1>2, <2>1 DEF pages
  <2>3. StampInv'
    BY <1>0, <1>2, <2>1, Constants DEF StampInv, Goto, Inv, TypeInv
  <2>4. \A c \in Calls : Started(c)' = Started(c)
    BY <1>0, <1>2 DEF Started
  <2> QED BY <2>1, <2>2, <2>3, <2>4, BetweenPages
<1> QED BY <1>1, <1>2 DEF Lookup

LEMMA CommitCreatePages ==
  ASSUME Inv, PageInv, NEW r \in Request, CommitCreate(r)
  PROVE  PageInv'
<1>0. r \in Session
  BY Constants
<1> USE DEF CommitCreate
<1>1. Calls' = Calls \cup {r}
  BY <1>0 DEF Inv, TypeInv
<1>2. IsFiniteSet(Calls')
  BY <1>1, FS_AddElement DEF PageInv, PageTypes
<1>3. PageTypes'
  BY <1>0, <1>1, <1>2 DEF PageInv, PageTypes, pages, Memory!Reply
<1>4. StampInv'
  BY <1>0, <1>1, Constants DEF PageInv, StampInv, Goto, Inv, TypeInv
<1>5. \A c \in Calls : Started(c)' = Started(c)
  BY DEF Started
<1> QED BY <1>1, <1>3, <1>4, <1>5, BetweenPages

LEMMA CommitUpdatePages ==
  ASSUME Inv, PageInv, NEW s \in Session, CommitUpdate(s)
  PROVE  PageInv'
<1> DEFINE c == on[s]
<1>0. c \in Calls /\ status[c] \in Memory!Statuses
  BY DEF CommitUpdate, Inv, WorkInv, TypeInv
<1>1. Memory!NewStatus(kind[s], status[c]) \in Memory!Statuses
  BY <1>0, NewStatusType DEF Inv, TypeInv
<1>2. Calls' = Calls
  BY <1>0, <1>1 DEF CommitUpdate, Inv, TypeInv
<1>3. /\ \/ connected' = connected
         \/ connected[c] = 0 /\ connected' = [connected EXCEPT ![c] = now]
      /\ UNCHANGED <<created, pages, now, deaths>>
      /\ answer' = [answer EXCEPT ![s] = c]
      /\ \A r \in Request : pc'[r] \in {"insert", "inserted"} => pc[r] \in {"insert", "inserted"}
  BY Constants DEF CommitUpdate, Memory!Reply, Goto, Inv, TypeInv
<1>4. PageTypes'
  <2>1. connected' \in [Request -> 0..MaxTime]
    BY <1>0, <1>3 DEF PageInv, PageTypes
  <2>2. answer' \in [Session -> Request \cup {Memory!Nothing, Memory!Refused, Error}]
    BY <1>0, <1>3 DEF PageInv, PageTypes
  <2> QED BY <1>2, <1>3, <2>1, <2>2 DEF PageInv, PageTypes, pages
<1>5. StampInv'
  BY <1>0, <1>2, <1>3 DEF PageInv, PageTypes, StampInv
<1>6. ASSUME NEW d \in Calls PROVE Started(d)' = Started(d) \/ Older(Started(d), Started(d)')
  <2>1. CASE connected'[d] = connected[d]
    BY <1>3, <2>1 DEF Started
  <2>2. CASE connected'[d] # connected[d]
    <3>1. connected[d] = 0 /\ connected'[d] = now
      BY <1>0, <1>3, <2>2 DEF PageInv, PageTypes
    <3>2. created[d] \in Nat /\ created[d] <= now /\ now \in Nat \ {0}
      BY DEF PageInv, PageTypes, StampInv
    <3>3. Started(d) = <<created[d], Rank[d]>> /\ Started(d)' = <<now, Rank[d]>>
      BY <3>1, <3>2, <1>3 DEF Started
    <3> QED BY <3>2, <3>3 DEF Older
  <2> QED BY <2>1, <2>2
<1> QED BY <1>2, <1>3, <1>4, <1>5, <1>6, BetweenPages

\* The other statements of a session.
LEMMA SessionPages ==
  ASSUME Inv, PageInv, NEW s \in Session,
         \/ s \in Request /\ Insert(s)
         \/ Begin(s) \/ Lock(s) \/ CommitTurn(s) \/ Die(s)
  PROVE  PageInv'
<1> USE DEF Inv, TypeInv
<1>1. UNCHANGED <<created, connected, pages, now, status>> /\ Calls' = Calls
  BY DEF Insert, Begin, Lock, CommitTurn, Die, rows
<1>2. deaths' \in 0..MaxDeaths
  BY Constants DEF PageInv, PageTypes, Insert, Begin, Lock, CommitTurn, Die
<1>3. answer' \in [Session -> Request \cup {Memory!Nothing, Memory!Refused, Error}]
  <2>1. pc[s] = "locked" => on[s] \in Request
    BY DEF WorkInv
  <2>2. \/ answer' = answer
        \/ answer' = [answer EXCEPT ![s] = Error]
        \/ answer' = [answer EXCEPT ![s] = Memory!Refused]
        \/ on[s] \in Request /\ answer' = [answer EXCEPT ![s] = on[s]]
    BY <2>1 DEF Insert, Begin, Lock, CommitTurn, Die, Answer, Memory!Reply
  <2> QED BY <2>2 DEF PageInv, PageTypes
<1>4. \A r \in Request : pc'[r] \in {"insert", "inserted"} => pc[r] \in {"insert", "inserted"}
  BY Constants DEF Insert, Begin, Lock, CommitTurn, Die, Answer, Goto
<1> QED BY <1>1, <1>2, <1>3, <1>4, SamePages

LEMMA ClockPages ==
  ASSUME PageInv, Tick
  PROVE  PageInv'
<1>1. now' \in 1..MaxTime /\ now' = now + 1 /\ UNCHANGED <<rows, sessions, pages, deaths>>
  BY Constants DEF Tick, PageInv, PageTypes
<1>2. PageTypes' /\ Calls' = Calls /\ UNCHANGED pages
  BY <1>1 DEF PageInv, PageTypes, rows, sessions, pages
<1>3. StampInv'
  BY <1>1, Constants DEF PageInv, PageTypes, StampInv, rows, sessions
<1>4. \A c \in Calls : Started(c)' = Started(c)
  BY <1>1 DEF Started, rows
<1> QED BY <1>2, <1>3, <1>4, BetweenPages

\* A page takes the newest of what is beyond the cursor: nothing of it was on a
\* page before, and what it leaves out is beyond the next cursor.
LEMMA ListPages ==
  ASSUME PageInv, list_calls
  PROVE  PageInv'
<1> DEFINE found == {c \in Calls : OwnerOf[c] = Principal /\ Beyond(c)}
           page == Newest(PageSize, found)
           more == found \ page
<1>0. /\ cursor # End
      /\ seen' = seen \cup page /\ twice' = twice \cup (seen \cap page)
      /\ cursor' = NextCursor(page, more)
      /\ base' = IF cursor = Start
                 THEN {<<c, Started(c)>> : c \in {d \in Calls : OwnerOf[d] = Principal}}
                 ELSE base
      /\ UNCHANGED <<rows, sessions, now, deaths>>
  BY DEF list_calls
<1>1. PageTypes /\ StampInv /\ BaseInv /\ CursorInv
  BY DEF PageInv
<1>2. /\ page \subseteq found
      /\ \A c \in page, d \in more : Older(Started(d), Started(c))
      /\ found # {} => page # {}
  BY <1>1, NewestFirst, Constants
<1>3. /\ Calls' = Calls /\ UNCHANGED <<created, connected, pc, answer>>
      /\ \A c \in Calls : Started(c)' = Started(c)
  BY <1>0 DEF rows, sessions, Started
<1>4. /\ Position \subseteq Nat \X Nat
      /\ Start \notin Position /\ End \notin Position /\ Start # End
      /\ \A c \in Calls : Started(c) \in Position
  BY <1>1, Places
<1>5. \A c \in found : cursor = Start \/ Older(Started(c), cursor)
  BY DEF Beyond
<1>6. seen \cap page = {}
  BY <1>0, <1>1, <1>2, <1>5 DEF BaseInv, CursorInv
<1>7. \/ more = {} /\ cursor' = End
      \/ more # {} /\ \E c \in page : /\ cursor' = Started(c)
                                     /\ \A d \in page : ~Older(Started(d), Started(c))
  <2>1. CASE more = {}
    BY <1>0, <2>1 DEF NextCursor
  <2>2. CASE more # {}
    <3>1. page # {} /\ page \subseteq Calls
      BY <1>2, <2>2
    <3> HIDE DEF page, more
    <3> QED BY <1>0, <1>1, <2>2, <3>1, CursorLast
  <2> QED BY <2>1, <2>2
<1> HIDE DEF page
<1>8. cursor' # Start
  BY <1>2, <1>4, <1>7
<1>9. PageTypes'
  BY <1>0, <1>1, <1>2, <1>3, <1>6 DEF PageTypes
<1>10. StampInv'
  BY <1>0, <1>1, <1>3 DEF StampInv
<1>11. \A b \in base' : \E c \in Calls, p \in Position :
         b = <<c, p>> /\ OwnerOf[c] = Principal /\ ~Older(Started(c), p)
  <2>1. CASE cursor = Start
    <3>1. \A c \in Calls : ~Older(Started(c), Started(c))
      BY <1>4, OlderOrder
    <3> QED BY <1>0, <1>4, <2>1, <3>1
  <2>2. CASE cursor # Start
    BY <1>0, <1>1, <2>2 DEF BaseInv
  <2> QED BY <2>1, <2>2
<1>12. BaseInv'
  <2>1. cursor' \in {Start, End} \cup Position
    BY <1>2, <1>4, <1>7
  <2> QED BY <1>3, <1>11, <2>1 DEF BaseInv
<1>13. ASSUME cursor' \in Position, NEW c \in seen' PROVE ~Older(Started(c), cursor')
  <2>1. PICK last \in page : /\ cursor' = Started(last)
                             /\ \A d \in page : ~Older(Started(d), Started(last))
    BY <1>4, <1>7, <1>13
  <2>2. CASE c \in page
    BY <2>1, <2>2
  <2>3. CASE c \in seen
    <3>1. cursor \in Position /\ ~Older(Started(c), cursor) /\ c \in Calls
      BY <1>0, <1>1, <2>3 DEF BaseInv, CursorInv, PageTypes
    <3>2. Older(Started(last), cursor) /\ last \in Calls
      BY <1>2, <1>4, <1>5, <2>1, <3>1
    <3>3. Started(c) \in Nat \X Nat /\ Started(last) \in Nat \X Nat /\ cursor \in Nat \X Nat
      BY <1>4, <3>1, <3>2
    <3> QED BY <2>1, <3>1, <3>2, <3>3, OlderOrder
  <2> QED BY <1>0, <1>13, <2>2, <2>3
<1>14. ASSUME NEW b \in base', Started(b[1]) = b[2]
       PROVE  \/ b[1] \in seen'
              \/ cursor' \in Position /\ Older(b[2], cursor')
  <2>1. PICK c \in Calls, p \in Position : b = <<c, p>> /\ OwnerOf[c] = Principal
    BY <1>11
  <2>2. Started(c) = p
    BY <1>14, <2>1
  <2>3. CASE c \in seen
    BY <1>0, <2>1, <2>3
  <2>4. CASE c \notin seen
    <3>1. c \in found
      <4>1. CASE cursor = Start
        BY <2>1, <4>1 DEF Beyond
      <4>2. CASE cursor # Start
        <5>1. b \in base
          BY <1>0, <4>2
        <5>2. Older(p, cursor)
          BY <1>1, <1>14, <2>1, <2>4, <5>1 DEF CursorInv
        <5> QED BY <2>1, <2>2, <5>2 DEF Beyond
      <4> QED BY <4>1, <4>2
    <3>2. CASE c \in page
      BY <1>0, <2>1, <3>2
    <3>3. CASE c \notin page
      <4>1. c \in more
        BY <3>1, <3>3
      <4>2. PICK last \in page : cursor' = Started(last)
        BY <1>7, <4>1
      <4>3. cursor' \in Position /\ Older(Started(c), cursor')
        BY <1>2, <1>4, <4>1, <4>2
      <4> QED BY <2>1, <2>2, <4>3
    <3> QED BY <3>2, <3>3
  <2> QED BY <2>3, <2>4
<1>15. CursorInv'
  <2>1. \A c \in seen' : c \in Calls /\ Started(c)' = Started(c)
    BY <1>0, <1>1, <1>2, <1>3 DEF PageTypes
  <2>2. \A b \in base' : Started(b[1])' = Started(b[1])
    BY <1>3, <1>11
  <2>3. twice' = {}
    BY <1>0, <1>1, <1>6 DEF CursorInv
  <2> QED BY <1>8, <1>13, <1>14, <2>1, <2>2, <2>3 DEF CursorInv
<1> QED BY <1>9, <1>10, <1>12, <1>15 DEF PageInv

LEMMA NextPages == Inv /\ PageInv /\ [Next]_vars => PageInv'
<1> SUFFICES ASSUME Inv, PageInv, [Next]_vars PROVE PageInv'
  OBVIOUS
<1>1. ASSUME NEW r \in Request, Create(r) PROVE PageInv'
  <2> r \in Session
    BY Constants
  <2> QED BY <1>1, LookupPages, SessionPages, CommitCreatePages DEF Create
<1>2. ASSUME NEW s \in Session,
             Begin(s) \/ Lock(s) \/ CommitUpdate(s) \/ CommitTurn(s) \/ Die(s)
      PROVE  PageInv'
  BY <1>2, SessionPages, CommitUpdatePages
<1>3. CASE Quiet \/ UNCHANGED vars
  <2>1. UNCHANGED <<created, connected, pages, now, deaths, answer, pc>> /\ Calls' = Calls
    BY <1>3 DEF Quiet, vars, rows, sessions
  <2> QED BY <2>1, SamePages DEF PageInv, PageTypes
<1> QED BY <1>1, <1>2, <1>3, ListPages, ClockPages DEF Next

LEMMA AlwaysPages == Spec => []PageInv
<1>1. Inv /\ PageInv /\ [Next]_vars => PageInv'
  BY NextPages
<1> QED BY <1>1, Always, InitPages, PTL DEF Spec

\* A client that follows next_cursor meets no call twice, and at the end has seen
\* every call of the first page's time that has not connected since, whatever was
\* created and whoever connected between two pages.
THEOREM Pages == Spec => []PagesComplete
<1>1. End \notin Position
  BY DEF End, Position
<1>2. PageInv => PagesComplete
  BY <1>1 DEF PageInv, CursorInv, PagesComplete
<1> QED BY <1>2, AlwaysPages, PTL

\* Every variable keeps its type.
THEOREM Typing == Spec => []TypeOK
<1>1. Inv /\ PageInv => TypeOK
  BY DEF Inv, TypeInv, PageInv, PageTypes, TypeOK
<1> QED BY <1>1, Always, AlwaysPages, PTL

=============================================================================
