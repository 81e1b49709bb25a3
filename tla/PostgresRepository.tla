------------------------- MODULE PostgresRepository -------------------------
(***************************************************************************)
(* The calls, events and transcripts in PostgreSQL, under concurrent API   *)
(* requests, worker jobs and a client that pages through its calls.  Every *)
(* operation is a READ COMMITTED transaction on a connection of its own;   *)
(* its steps are its statements, and what it has written is seen by others *)
(* once it commits.  A session may die between any two of them.            *)
(***************************************************************************)
EXTENDS Naturals, Sequences, FiniteSets

CONSTANTS
  Request,   \* requests to create a call; each brings the id of a new call
  Session,   \* everybody who uses the repository, the requests included
  Does,      \* [Session -> sets of kinds]: the first update of each session
  KeyOf,     \* [Request -> keys]: principal and client_request_id
  NoKey,     \* the key of a request without client_request_id
  OwnerOf,   \* [Request -> principals]
  Principal, \* the principal whose client pages through its calls
  Rank,      \* [Request -> Nat]: the order of the ids of the calls
  Client,    \* the client that pages
  Loads,     \* bound: the sets of sessions (and Client) that come together
  PageSize,  \* limit of a page
  MaxTime,   \* bound: the clock
  MaxDeaths  \* bound: sessions that die

ASSUME Constants ==
  /\ Request \subseteq Session
  /\ Rank \in [Request -> Nat] /\ \A c, d \in Request : Rank[c] = Rank[d] => c = d
  /\ Client \notin Session /\ Loads \subseteq SUBSET (Session \cup {Client})
  /\ {PageSize, MaxTime} \subseteq Nat \ {0} /\ MaxDeaths \in Nat
  /\ Does \in [Session -> SUBSET {"validating", "inbound", "queued", "connected", "save", "turn"}]
  /\ \A r \in Request : Does[r] \in {{"validating"}, {"inbound"}}
  /\ Request \cap {"nothing", "refused", "error"} = {}  \* the words of MemoryRepository

VARIABLES
  status, state, events, turns,  \* the committed rows: see MemoryRepository
  created, connected,  \* created_at and connected_at of each call; 0: NULL
  pc,        \* progress of each session
  on,        \* the call it works on
  kind,      \* the update it makes
  answer,    \* what it was answered last
  cursor,    \* next_cursor of the client: started_at and call, or Start, End
  base,      \* the calls at the first page, with their started_at
  seen,      \* the calls on the pages so far
  twice,     \* those that were on two of them
  now,       \* the clock
  deaths     \* sessions that have died

rows == <<status, state, events, turns, created, connected>>
sessions == <<pc, on, kind, answer>>
pages == <<cursor, base, seen, twice>>
vars == <<rows, sessions, pages, now, deaths>>

Memory == INSTANCE MemoryRepository WITH
  status <- status, state <- state, events <- events, turns <- turns,
  answer <- answer

Calls == Memory!Calls
Error == Memory!Error

Start == <<0, "start">>
End == <<0, "end">>

Init ==
  /\ Memory!Init
  /\ created = [c \in Request |-> 0] /\ connected = [c \in Request |-> 0]
  /\ \E load \in Loads :
       /\ pc = [s \in Session |-> IF s \in load THEN "idle" ELSE "done"]
       /\ cursor = IF Client \in load THEN Start ELSE End
  /\ on = [s \in Session |-> s]
  /\ kind = [s \in Session |-> IF s \in Request THEN CHOOSE k \in Does[s] : TRUE ELSE "turn"]
  /\ base = {} /\ seen = {} /\ twice = {}
  /\ now = 1 /\ deaths = 0

Goto(s, at) == pc' = [pc EXCEPT ![s] = at]

\* The session is answered and has nothing left to do.
Answer(s, a) == Memory!Reply(s, a) /\ Goto(s, "done")

-----------------------------------------------------------------------------
(* CallService.create_call, create_inbound_call and the transaction of     *)
(* their create_call.                                                      *)

\* Mutant of Known: of any principal.
Known_AnyPrincipal(r) == {c \in Calls : KeyOf[c] # NoKey /\ KeyOf[r] # NoKey}

\* The committed call with the key of the request.
Known(r) == Memory!Same(r)

\* get_by_idempotency, and the SELECT of the transaction, which asks the same
\* again; without a key nothing is asked.  The call is stamped before the latter.
Lookup(r) ==
  /\ pc[r] = "idle"
  /\ \/ /\ \E c \in Known(r) : Answer(r, c)
        /\ UNCHANGED created
     \/ /\ Known(r) = {}
        /\ created' = [created EXCEPT ![r] = now]
        /\ Goto(r, "insert") /\ UNCHANGED answer
  /\ UNCHANGED <<status, state, events, turns, connected, on, kind, pages, now, deaths>>

\* UNIQUE (principal_id, client_request_id): the sessions whose uncommitted row
\* makes an INSERT wait for the end of their transaction.
Conflicts(r) ==
  {s \in Request \ {r} : pc[s] = "inserted" /\ KeyOf[r] # NoKey /\ KeyOf[s] = KeyOf[r]}

\* Mutant of Violates: a table without the UNIQUE constraint.
Violates_Never(r) == FALSE

\* ... and the row that has been committed in the meantime makes it fail.
Violates(r) == Known(r) # {}

\* Mutant of Insert: it is tried again for as long as it fails.
Insert_TriesAgain(r) ==
  /\ pc[r] = "insert" /\ Conflicts(r) = {} /\ ~Violates(r)
  /\ Goto(r, "inserted") /\ UNCHANGED <<rows, on, kind, answer, pages, now, deaths>>

Insert(r) ==
  /\ pc[r] = "insert" /\ Conflicts(r) = {}
  /\ \/ Violates(r) /\ Answer(r, Error)
     \/ ~Violates(r) /\ Goto(r, "inserted") /\ UNCHANGED answer
  /\ UNCHANGED <<rows, on, kind, pages, now, deaths>>

\* With the event call.created; then the service moves the call on.
CommitCreate(r) ==
  /\ pc[r] = "inserted"
  /\ status' = [status EXCEPT ![r] = "created"]
  /\ events' = [events EXCEPT ![r] = <<"created">>]
  /\ Memory!Reply(r, r) /\ Goto(r, "update")
  /\ UNCHANGED <<state, turns, created, connected, on, kind, pages, now, deaths>>

-----------------------------------------------------------------------------
(* update_call and append_transcript_turn.                                 *)

\* A worker job turns to a call; what led it there is in CallService.tla.
Begin(s) ==
  /\ s \notin Request /\ pc[s] = "idle"
  /\ \E c \in Calls : on' = [on EXCEPT ![s] = c]
  /\ \E k \in Does[s] : kind' = [kind EXCEPT ![s] = k]
  /\ Goto(s, "update")
  /\ UNCHANGED <<rows, answer, pages, now, deaths>>

Allowed(s) == status[on[s]] \in Memory!Expected(kind[s])

\* Mutant of Lock: SELECT without FOR UPDATE.
Lock_Unlocked(s) ==
  /\ pc[s] = "update"
  /\ \/ Allowed(s) /\ Goto(s, "locked") /\ UNCHANGED answer
     \/ ~Allowed(s) /\ Answer(s, Memory!Refused)
  /\ UNCHANGED <<rows, on, kind, pages, now, deaths>>

\* SELECT ... FOR UPDATE waits for the row, and then the status is checked.
Lock(s) ==
  /\ pc[s] = "update"
  /\ \A o \in Session : pc[o] = "locked" => on[o] # on[s]
  /\ \/ Allowed(s) /\ Goto(s, "locked") /\ UNCHANGED answer
     \/ ~Allowed(s) /\ Answer(s, Memory!Refused)
  /\ UNCHANGED <<rows, on, kind, pages, now, deaths>>

\* The UPDATE, the event with its sequence, COMMIT; then the service queues a
\* call that it has validated.
CommitUpdate(s) ==
  /\ pc[s] = "locked" /\ kind[s] # "turn"
  /\ LET c == on[s]
         new == Memory!NewStatus(kind[s], status[c])
     IN /\ status' = [status EXCEPT ![c] = new]
        /\ state' = IF kind[s] = "save"
                    THEN [state EXCEPT ![c] = [by |-> s, heard |-> s]] ELSE state
        /\ events' = [events EXCEPT ![c] = Append(@, kind[s])]
        /\ connected' = IF new = "connected" /\ connected[c] = 0
                        THEN [connected EXCEPT ![c] = now] ELSE connected
        /\ Memory!Reply(s, c)
  /\ kind' = IF kind[s] = "validating" THEN [kind EXCEPT ![s] = "queued"] ELSE kind
  /\ Goto(s, IF kind[s] = "validating" THEN "update" ELSE "done")
  /\ UNCHANGED <<turns, created, on, pages, now, deaths>>

\* A turn of the callee: the turn, last_remote_utterance in the state of the
\* row (jsonb_set keeps what else is in it) and the event, in one transaction.
CommitTurn(s) ==
  /\ pc[s] = "locked" /\ kind[s] = "turn"
  /\ LET c == on[s]
     IN /\ turns' = [turns EXCEPT ![c] = Append(@, s)]
        /\ state' = [state EXCEPT ![c].heard = s]
        /\ events' = [events EXCEPT ![c] = Append(@, "turn")]
        /\ Answer(s, c)
  /\ UNCHANGED <<status, created, connected, on, kind, pages, now, deaths>>

\* The process or its connection dies: an open transaction is rolled back, a
\* committed one stays though its caller sees an error.
Die(s) ==
  /\ deaths < MaxDeaths /\ pc[s] \notin {"idle", "done"}
  /\ deaths' = deaths + 1
  /\ Answer(s, Error)
  /\ UNCHANGED <<rows, on, kind, pages, now>>

-----------------------------------------------------------------------------
(* CallService.list_calls, one page per request.                           *)

\* CallRecord.started_at, with the id: COALESCE(connected_at, created_at), id
Started(c) == <<IF connected[c] # 0 THEN connected[c] ELSE created[c], Rank[c]>>

Older(a, b) == a[1] < b[1] \/ (a[1] = b[1] /\ a[2] < b[2])

Beyond(c) == cursor = Start \/ Older(Started(c), cursor)

\* The newest n of a set of calls.
Newest(n, C) == {c \in C : Cardinality({d \in C : Older(Started(c), Started(d))}) < n}

\* Mutant of NextCursor: after the row that was only read to see if there is more.
NextCursor_LastRead(page, more) ==
  LET read == Newest(PageSize + 1, page \cup more)
  IN IF more = {} THEN End
     ELSE Started(CHOOSE c \in read : \A d \in read : ~Older(Started(d), Started(c)))

\* After the last row of the page, if a further one was read.
NextCursor(page, more) ==
  IF more = {} THEN End
  ELSE Started(CHOOSE c \in page : \A d \in page : ~Older(Started(d), Started(c)))

list_calls ==
  /\ cursor # End
  /\ LET found == {c \in Calls : OwnerOf[c] = Principal /\ Beyond(c)}
         page == Newest(PageSize, found)
     IN /\ seen' = seen \cup page
        /\ twice' = twice \cup (seen \cap page)
        /\ cursor' = NextCursor(page, found \ page)
  /\ base' = IF cursor = Start
             THEN {<<c, Started(c)>> : c \in {d \in Calls : OwnerOf[d] = Principal}}
             ELSE base
  /\ UNCHANGED <<rows, sessions, now, deaths>>

\* The time is told by the pages only.
Tick ==
  /\ now < MaxTime /\ cursor # End
  /\ now' = now + 1
  /\ UNCHANGED <<rows, sessions, pages, deaths>>

-----------------------------------------------------------------------------

Create(r) == Lookup(r) \/ Insert(r) \/ CommitCreate(r)

\* What a session that has begun does next.
Work(s) ==
  \/ s \in Request /\ (Insert(s) \/ CommitCreate(s))
  \/ Lock(s) \/ CommitUpdate(s) \/ CommitTurn(s)

\* Everybody was served and the client has all pages.
Quiet ==
  /\ \A s \in Session : pc[s] = "done" \/ (s \notin Request /\ Calls = {})
  /\ cursor = End
  /\ UNCHANGED vars

Next ==
  \/ \E r \in Request : Create(r)
  \/ \E s \in Session :
       Begin(s) \/ Lock(s) \/ CommitUpdate(s) \/ CommitTurn(s) \/ Die(s)
  \/ list_calls \/ Tick \/ Quiet

Spec == Init /\ [][Next]_vars

\* The database executes every statement that does not wait for a lock.
FairSpec == Spec /\ \A s \in Session : WF_vars(Work(s))

-----------------------------------------------------------------------------
(* Properties.                                                             *)

\* The type of every variable.
TypeOK ==
  /\ status \in [Request -> Memory!Statuses \cup {Memory!Absent}]
  /\ created \in [Request -> 0..MaxTime] /\ connected \in [Request -> 0..MaxTime]
  /\ pc \in [Session -> {"idle", "insert", "inserted", "update", "locked", "done"}]
  /\ on \in [Session -> Session] /\ answer \in [Session -> Request \cup
       {Memory!Nothing, Memory!Refused, Error}]
  /\ seen \subseteq Request /\ twice \subseteq Request
  /\ now \in 1..MaxTime /\ deaths \in 0..MaxDeaths

\* The statements of concurrent transactions, also of those that are rolled
\* back, add up to operations of the in-memory repository, each at one instant:
\* the tests that use that repository speak of this one.
RefinesMemory == Memory!Spec

\* A client that repeats a request, at any time, concurrently or after an error
\* or a crash, never gets a second call, nor one of somebody else.
KeyNamesOneCall ==
  /\ \A c, d \in Calls : KeyOf[c] = KeyOf[d] /\ KeyOf[c] # NoKey => c = d
  /\ \A r \in Request : answer[r] \in Request =>
       /\ answer[r] \in Calls
       /\ answer[r] = r \/ (KeyOf[r] # NoKey /\ KeyOf[answer[r]] = KeyOf[r])

\* A client that follows next_cursor meets no call twice, and at the end has seen
\* every call it had at the first page, though calls are created and connect (and
\* with that become newer) meanwhile; one that has connected since may be missed.
PagesComplete ==
  /\ twice = {}
  /\ cursor = End => \A b \in base : Started(b[1]) = b[2] => b[1] \in seen

\* No transaction waits forever for the row of a call or for a concurrent
\* INSERT, also when the one that holds it dies.
EverySessionServed == []<>(\A s \in Session : pc[s] \in {"idle", "done"})

=============================================================================
