----------------------------- MODULE UserReplica -----------------------------
(***************************************************************************)
(* The user replica pipeline.                                              *)
(*                                                                         *)
(*  user-service (domain/user/service.rs): create_user inserts a row and    *)
(*    then publishes UserCreated; update_user reads the row, patches it,   *)
(*    writes it back (UPDATE ... WHERE id, 0 rows = NotFound) and then     *)
(*    publishes UserUpdated with the row it wrote; delete_user deletes     *)
(*    (0 rows = NotFound) and then publishes UserDeleted.  A publish error *)
(*    is only logged.  Requests run concurrently with no locking.          *)
(*  broker: user_events is keyed by user id, so the events of one user are *)
(*    read in the order they were produced: one log is enough.            *)
(*  chat-service (outbound/events/user_consumer.rs): one loop applies each  *)
(*    event to user_replica: upsert for UserCreated/UserUpdated, delete    *)
(*    for UserDeleted; a handler error is logged and the event skipped.    *)
(*    A record's offset is stored when it is delivered and auto-committed  *)
(*    on a timer, handler finished or not; after a restart or rebalance    *)
(*    the loop resumes from the last committed offset                      *)
(*    (auto.offset.reset=earliest when there is none).                     *)
(*                                                                         *)
(* Only the username is replicated; email and password_hash are part of    *)
(* the written row but no replica column, so they are left out.  Database  *)
(* errors before a commit end a request with no effect and are left out;   *)
(* unique-name violations are kept because they depend on other users.     *)
(***************************************************************************)
EXTENDS Naturals, FiniteSets, Sequences, SequencesExt

CONSTANTS
    Users,          \* user ids UserId::new can mint
    Names,          \* raw usernames a client may send: sequences of characters
    MultiByte,      \* characters whose UTF-8 encoding takes two bytes
    Alnum,          \* characters char::is_alphanumeric holds of
    MinLength,      \* Username::MIN_LENGTH (3)
    MaxLength,      \* Username::MAX_LENGTH (32)
    Absent,         \* no row
    NoChange,       \* UpdateUserCommand with username None
    MaxReqs,        \* bound on HTTP requests to the user service
    MaxInFlight,    \* bound on requests in progress at once
    MaxRestarts,    \* bound on consumer restarts / rebalances
    Faults          \* which calls may fail: "publish" (producer send), "query" (replica)

Reqs == 1..MaxReqs

Rows == Names \cup {Absent}

VARIABLES
    users,      \* users table: username of each user id, or Absent
    ver,        \* number of commits to each user's row so far
    minted,     \* user ids already handed out by create_user
    req,        \* each request: op, user, argument, step, row written
    log,        \* user_events records, in produce order
    offset,     \* next record the replica consumer reads (the stored offset)
    inhand,     \* index of the record whose handler is running, 0 = none
    committed,  \* last auto-committed offset
    restarts,   \* restarts of the consumer so far
    replica,    \* user_replica table: username, or Absent
    lost,       \* history: an event was never published or never applied
    reordered   \* history: a user's events were produced out of commit order

vars == <<users, ver, minted, req, log, offset, inhand, committed, restarts,
          replica, lost, reordered>>

Idle == [op |-> "none", u |-> Absent, arg |-> NoChange, pc |-> "init",
         val |-> Absent, v |-> 0]

InFlight == {r \in Reqs : req[r].pc \notin {"init", "done"}}

\* Another user already holds the name (users_username_key).
NameTaken(u, n) == \E w \in Users \ {u} : users[w] = n

\* The request ends with an error and publishes nothing.
Fail(r) == req' = [req EXCEPT ![r].pc = "done"]

\* The request has committed row value val as version ver[u] + 1.
Commit(r, u, val) ==
    /\ users' = [users EXCEPT ![u] = val]
    /\ ver' = [ver EXCEPT ![u] = @ + 1]
    /\ req' = [req EXCEPT ![r].pc = "publish", ![r].val = val,
                          ![r].v = ver[u] + 1]

ConsumerVars == <<offset, inhand, committed, restarts, replica>>

\* String::len: the UTF-8 byte length, not the number of characters.
ByteLen(s) == FoldLeft(LAMBDA n, c : n + IF c \in MultiByte THEN 2 ELSE 1, 0, s)

\* Username::with_valid_length.
WithValidLength(s) == MinLength <= ByteLen(s) /\ ByteLen(s) <= MaxLength

\* Username::with_valid_chars: alphanumeric, '_' or '-'.
WithValidChars(s) == \A i \in DOMAIN s : s[i] \in Alnum \cup {"_", "-"}

\* Username::new: the length check, then the characters.
UsernameNew(s) == WithValidLength(s) /\ WithValidChars(s)

(***************************************************************************)
(* user-service requests.                                                  *)
(***************************************************************************)
\* A request may start while fewer than MaxInFlight are in progress.
CanStart(r) == req[r].pc = "init" /\ Cardinality(InFlight) < MaxInFlight

\* POST /users: try_into_command parses the username with Username::new
\* (422 and nothing else on failure), then create_user mints a fresh id.
StartCreate(r) ==
    /\ CanStart(r)
    /\ \E n \in Names :
          \/ /\ ~UsernameNew(n)
             /\ req' = [req EXCEPT ![r] = [Idle EXCEPT !.op = "create", !.arg = n,
                                             !.pc = "done"]]
             /\ UNCHANGED minted
          \/ \E u \in Users \ minted :
                /\ UsernameNew(n)
                /\ minted' = minted \cup {u}
                /\ req' = [req EXCEPT ![r] = [Idle EXCEPT !.op = "create", !.u = u,
                                                !.arg = n, !.pc = "insert"]]
    /\ UNCHANGED <<users, ver, log, lost, reordered>>
    /\ UNCHANGED ConsumerVars

\* PATCH /users/:id on an id that was handed out: try_into_command maps
\* Username::new over the optional username (None = NoChange) and a
\* refused one ends the request with 422.
StartUpdate(r) ==
    /\ CanStart(r)
    /\ \E u \in minted, a \in Names \cup {NoChange} :
          req' = [req EXCEPT ![r] = [Idle EXCEPT !.op = "update", !.u = u, !.arg = a,
                        !.pc = IF a = NoChange \/ UsernameNew(a) THEN "read" ELSE "done"]]
    /\ UNCHANGED <<users, ver, minted, log, lost, reordered>>
    /\ UNCHANGED ConsumerVars

\* DELETE /users/:id on an id that was handed out.
StartDelete(r) ==
    /\ CanStart(r)
    /\ \E u \in minted :
          req' = [req EXCEPT ![r] = [Idle EXCEPT !.op = "delete", !.u = u,
                                          !.pc = "delete"]]
    /\ UNCHANGED <<users, ver, minted, log, lost, reordered>>
    /\ UNCHANGED ConsumerVars

\* create_user: repository.create, INSERT; a taken name is
\* UsernameAlreadyExists.
Insert(r) ==
    LET u == req[r].u  n == req[r].arg IN
    /\ req[r].pc = "insert"
    /\ IF NameTaken(u, n) THEN Fail(r) /\ UNCHANGED <<users, ver>>
                          ELSE Commit(r, u, n)
    /\ UNCHANGED <<minted, log, lost, reordered>>
    /\ UNCHANGED ConsumerVars

\* update_user without the ok_or(NotFound) on the row it reads.
ReadNoNotFound(r) ==
    LET u == req[r].u IN
    /\ req[r].pc = "read"
    /\ req' = [req EXCEPT ![r].pc = "write",
                           ![r].val = IF req[r].arg = NoChange
                                      THEN users[u] ELSE req[r].arg]
    /\ UNCHANGED <<users, ver, minted, log, lost, reordered>>
    /\ UNCHANGED ConsumerVars

\* update_user: find_by_id (NotFound when absent), then the patch of the
\* row read: the new username, or the one read when the command has none.
Read(r) ==
    LET u == req[r].u IN
    /\ req[r].pc = "read"
    /\ IF users[u] = Absent
       THEN Fail(r)
       ELSE req' = [req EXCEPT ![r].pc = "write",
                               ![r].val = IF req[r].arg = NoChange
                                          THEN users[u] ELSE req[r].arg]
    /\ UNCHANGED <<users, ver, minted, log, lost, reordered>>
    /\ UNCHANGED ConsumerVars

\* repository.update: UPDATE users SET ... WHERE id; 0 rows is NotFound, a
\* taken name UsernameAlreadyExists.
Write(r) ==
    LET u == req[r].u IN
    /\ req[r].pc = "write"
    /\ IF users[u] = Absent \/ NameTaken(u, req[r].val)
       THEN Fail(r) /\ UNCHANGED <<users, ver>>
       ELSE Commit(r, u, req[r].val)
    /\ UNCHANGED <<minted, log, lost, reordered>>
    /\ UNCHANGED ConsumerVars

\* delete_user: repository.delete, DELETE ... WHERE id; 0 rows is NotFound.
Delete(r) ==
    LET u == req[r].u IN
    /\ req[r].pc = "delete"
    /\ IF users[u] = Absent
       THEN Fail(r) /\ UNCHANGED <<users, ver>>
       ELSE Commit(r, u, Absent)
    /\ UNCHANGED <<minted, log, lost, reordered>>
    /\ UNCHANGED ConsumerVars

\* publish_user_*: the record with the committed row, keyed by user id.
Publish(r) ==
    LET e == [op |-> req[r].op, u |-> req[r].u, val |-> req[r].val,
              v |-> req[r].v]
    IN
    /\ req[r].pc = "publish"
    /\ log' = Append(log, e)
    /\ reordered' = (reordered \/ \E k \in DOMAIN log : log[k].u = e.u
                                                       /\ log[k].v > e.v)
    /\ req' = [req EXCEPT ![r].pc = "done"]
    /\ UNCHANGED <<users, ver, minted, lost>>
    /\ UNCHANGED ConsumerVars

\* The producer returns an error (timeout, broker down): logged, and the
\* request still returns Ok.
PublishFails(r) ==
    /\ "publish" \in Faults
    /\ req[r].pc = "publish"
    /\ req' = [req EXCEPT ![r].pc = "done"]
    /\ lost' = TRUE
    /\ UNCHANGED <<users, ver, minted, log, reordered>>
    /\ UNCHANGED ConsumerVars

(***************************************************************************)
(* chat-service user events consumer.                                      *)
(***************************************************************************)
\* user_replica's UNIQUE username: another replica row holds the name.
ReplicaNameTaken(u, n) == \E w \in Users \ {u} : replica[w] = n

\* PostgresUserReplicaRepository::upsert: INSERT ... ON CONFLICT (id) DO
\* UPDATE SET username.  The conflict target is the id only, so a name
\* another row holds still fails the statement.
Upsert(u, n) == replica' = [replica EXCEPT ![u] = n]

\* PostgresUserReplicaRepository::delete: DELETE ... WHERE id; 0 rows is
\* only a warning.
DeleteRow(u) == replica' = [replica EXCEPT ![u] = Absent]

\* Mutant: the chat copy measures characters (chars().count()) while the
\* user-service copy keeps measuring bytes.
ChatUsernameNewCharCount(s) ==
    /\ MinLength <= Len(s) /\ Len(s) <= MaxLength
    /\ WithValidChars(s)

\* chat-service's own copy of Username::new (domain/user/models.rs), which
\* handle_user_created and handle_user_updated apply to the event's
\* username before the upsert.
ChatUsernameNew(s) ==
    /\ MinLength <= ByteLen(s) /\ ByteLen(s) <= MaxLength
    /\ WithValidChars(s)

\* The handler gets past its parsing: deletes carry no username.
Accepted(e) == IF e.op = "delete" THEN TRUE ELSE ChatUsernameNew(e.val)

\* The handler succeeds: it parses, and an upsert's name is not another
\* replica row's.
Handled(e) ==
    IF e.op = "delete" THEN TRUE
    ELSE ChatUsernameNew(e.val) /\ ~ReplicaNameTaken(e.u, e.val)

\* handle_user_created / handle_user_updated upsert the event's username
\* (the get of handle_user_updated only chooses created_at);
\* handle_user_deleted deletes, a missing row being only a warning.
ApplyEvent(e) ==
    IF e.op = "delete" THEN DeleteRow(e.u) ELSE Upsert(e.u, e.val)

\* message_stream.next() hands over the next record; librdkafka stores its
\* offset on delivery, so the next auto-commit covers it whether or not
\* its handler has finished.
Recv ==
    /\ inhand = 0
    /\ offset < Len(log)
    /\ inhand' = offset + 1
    /\ offset' = offset + 1
    /\ UNCHANGED <<users, ver, minted, req, log, committed, restarts, replica,
                   lost, reordered>>

\* process_message: the handler of the record in hand succeeds.
Apply ==
    /\ inhand /= 0
    /\ Handled(log[inhand])
    /\ ApplyEvent(log[inhand])
    /\ inhand' = 0
    /\ UNCHANGED <<users, ver, minted, req, log, offset, committed, restarts,
                   lost, reordered>>

\* The handler fails: a query error, chat-service's Username::new refusing
\* the name, or the upsert hitting the replica's unique username.  The
\* error is logged and the loop moves on.
HandlerFails ==
    /\ inhand /= 0
    /\ "query" \in Faults \/ ~Handled(log[inhand])
    /\ inhand' = 0
    /\ lost' = TRUE
    /\ UNCHANGED <<users, ver, minted, req, log, offset, committed, restarts,
                   replica, reordered>>

\* enable.auto.commit: the stored offset is committed periodically.
AutoCommit ==
    /\ committed /= offset
    /\ committed' = offset
    /\ UNCHANGED <<users, ver, minted, req, log, offset, inhand, restarts,
                   replica, lost, reordered>>

\* The record in hand is dropped by a restart and never read again: its
\* offset was already committed.
DropsInHand == inhand /= 0 /\ committed >= inhand

\* Restart with auto.offset.reset = latest when nothing was committed.
RestartLatest ==
    /\ restarts < MaxRestarts
    /\ offset' = IF committed = 0 THEN Len(log) ELSE committed
    /\ inhand' = 0
    /\ restarts' = restarts + 1
    /\ lost' = (lost \/ DropsInHand)
    /\ UNCHANGED <<users, ver, minted, req, log, committed, replica,
                   reordered>>

\* The process restarts or the group rebalances, possibly in the middle of
\* a handler: consumption resumes at the committed offset (0 = earliest
\* when nothing was committed).  Records read since the last commit are
\* read again; a record in hand whose offset was committed is skipped.
Restart ==
    /\ restarts < MaxRestarts
    /\ offset' = committed
    /\ inhand' = 0
    /\ restarts' = restarts + 1
    /\ lost' = (lost \/ DropsInHand)
    /\ UNCHANGED <<users, ver, minted, req, log, committed, replica,
                   reordered>>

Init ==
    /\ users = [u \in Users |-> Absent]
    /\ ver = [u \in Users |-> 0]
    /\ minted = {}
    /\ req = [r \in Reqs |-> Idle]
    /\ log = <<>>
    /\ offset = 0
    /\ inhand = 0
    /\ committed = 0
    /\ restarts = 0
    /\ replica = [u \in Users |-> Absent]
    /\ lost = FALSE
    /\ reordered = FALSE

Request(r) ==
    StartCreate(r) \/ StartUpdate(r) \/ StartDelete(r)
    \/ Insert(r) \/ Read(r) \/ Write(r) \/ Delete(r) \/ Publish(r) \/ PublishFails(r)

Consumer == Recv \/ Apply \/ HandlerFails \/ AutoCommit \/ Restart

Next == (\E r \in Reqs : Request(r)) \/ Consumer

(***************************************************************************)
(* Database and broker calls return, and the consumer loop keeps polling;  *)
(* clients need not send requests, and restarts need not happen.  Every    *)
(* step below is bounded in number (MaxReqs requests, and a log read at    *)
(* most MaxRestarts + 1 times), so weak fairness of their disjunction      *)
(* forces each of them to be taken while it stays enabled, as one WF per   *)
(* request and one for the consumer task would.                            *)
(***************************************************************************)
Progress ==
    \/ \E r \in Reqs : Insert(r) \/ Read(r) \/ Write(r) \/ Delete(r)
                        \/ Publish(r) \/ PublishFails(r)
    \/ Recv \/ Apply \/ HandlerFails

Fairness == WF_vars(Progress)

Spec == Init /\ [][Next]_vars /\ Fairness

(***************************************************************************)
(* Properties.                                                             *)
(***************************************************************************)
Event == [op : {"create", "update", "delete"}, u : Users, val : Rows,
          v : Nat]

TypeOK ==
    /\ users \in [Users -> Rows] /\ replica \in [Users -> Rows]
    /\ minted \subseteq Users
    /\ \A u \in Users : users[u] /= Absent => UsernameNew(users[u])
    /\ log \in Seq(Event)
    /\ offset \in 0..Len(log) /\ committed \in 0..Len(log)
    /\ inhand \in 0..offset
    \* a row that create or update writes or publishes carries a username
    /\ \A r \in Reqs : req[r].pc \in {"write", "publish"} /\ req[r].op /= "delete"
                          => req[r].val \in Names

Converged == replica = users

\* The two services keep separate copies of Username::new.  Every username
\* user-service stores (and so publishes) must pass chat-service's copy,
\* or handle_user_created / handle_user_updated refuse its event and the
\* replica silently stops following that user.
ReplicaAcceptsStored ==
    \A u \in Users : users[u] /= Absent => ChatUsernameNew(users[u])

\* Spec section 3: a username has 3 to 32 code points; every username the
\* users table holds passed Username::new on its way in.
UsernameCodePoints ==
    \A u \in Users : users[u] /= Absent => Len(users[u]) \in MinLength..MaxLength

\* The replica is eventually consistent (spec.md section 4.9): once the
\* requests and the events have all been handled, user_replica equals the
\* users table, whatever restarts and redeliveries happened.
EventuallyConsistent == <>[]Converged

\* The replica diverges for good only for two reasons: an event was lost
\* (publish error logged by the user service; handler error, including the
\* replica's unique username, logged and skipped by the consumer; or a
\* restart after the record's offset was auto-committed but before its
\* handler finished), or two requests on one user committed in one order
\* and published in the other.  Redelivery after a restart does no harm.
ConvergesUnlessLostOrReordered == <>[](Converged \/ lost \/ reordered)

=============================================================================
