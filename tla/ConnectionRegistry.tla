------------------------- MODULE ConnectionRegistry -------------------------
(***************************************************************************)
(* ConnectionRegistry of chat-service (inbound/websocket/registry.rs).     *)
(*                                                                         *)
(* Two maps, each behind its own tokio RwLock:                             *)
(*   connections          Uuid -> Connection   (modelled as the set of ids; *)
(*                        a Connection's channel is ChannelOf[id])          *)
(*   channel_connections  ChannelId -> Vec<Uuid>  (a function whose domain  *)
(*                        is the set of keys present in the HashMap)        *)
(* Every registry method is a short program of lock acquisitions, map      *)
(* updates and guard drops; a task executes one instruction per step, so   *)
(* the steps of different tasks interleave exactly where the code awaits   *)
(* a lock or drops a guard.  Session tasks (one per connection id) run     *)
(* add_connection and later remove_connection; the single fan-out          *)
(* consumer task runs get_channel_connection_count and, when the count is  *)
(* not zero, broadcast_to_channel (consumer.rs broadcast_message).         *)
(***************************************************************************)
EXTENDS Naturals, Sequences, SequencesExt

CONSTANTS
    Conns,          \* connection ids, one session task each
    Channels,       \* channel ids
    ChannelOf,      \* channel_id the connection was opened on
    Consumer,       \* the fan-out consumer task (a model value)
    MaxBroadcasts,  \* bound on broadcast frames
    NoTask          \* lock has no writer (a model value)

ASSUME ChannelOf \in [Conns -> Channels]
ASSUME MaxBroadcasts \in Nat
ASSUME Consumer \notin Conns /\ NoTask \notin Conns \cup {Consumer}

Tasks == Conns \cup {Consumer}
Locks == {"connections", "channel_connections"}

VARIABLES
    connections,    \* ids present in the connections HashMap
    index,          \* channel_connections HashMap
    writer,         \* writer[l]: task holding l's write guard, or NoTask
    readers,        \* readers[l]: tasks holding a read guard of l
    op,             \* registry method a task is executing, or "none"
    ip,             \* next instruction of that method
    target,         \* channel of the consumer's current event
    cnt,            \* the consumer's result of get_channel_connection_count
    session,        \* "new", "added" (add returned), "removed" (remove returned)
    outbox,         \* frames sent on each connection's mpsc sender
    sent            \* frames broadcast so far

vars == <<connections, index, writer, readers, op, ip, target, cnt, session,
          outbox, sent>>

(***************************************************************************)
(* Instructions and the four methods as programs.                         *)
(***************************************************************************)
Acq(l, m) == [kind |-> "acquire", lock |-> l, mode |-> m]
Rel(l)    == [kind |-> "release", lock |-> l, mode |-> "none"]
Do(k)     == [kind |-> k, lock |-> "none", mode |-> "none"]

\* add_connection if it kept the connections guard alive across the index
\* update (a guard bound with let instead of a statement temporary).
AddConnectionHeldGuard ==
    << Acq("connections", "write"), Do("insert"),
       Acq("channel_connections", "write"), Do("push"),
       Rel("channel_connections"), Rel("connections") >>

\* add_connection: each write guard is a temporary dropped at the end of
\* its statement, so the two maps are updated under separate locks.
AddConnection ==
    << Acq("connections", "write"), Do("insert"), Rel("connections"),
       Acq("channel_connections", "write"), Do("push"),
       Rel("channel_connections") >>

RemoveConnection ==
    << Acq("connections", "write"), Do("take"), Rel("connections"),
       Acq("channel_connections", "write"), Do("retain"),
       Rel("channel_connections") >>

\* broadcast_to_channel holds the index read guard while it acquires the
\* connections read guard, and sends while holding both.
BroadcastToChannel ==
    << Acq("channel_connections", "read"), Acq("connections", "read"),
       Do("send"), Rel("connections"), Rel("channel_connections") >>

GetChannelConnectionCount ==
    << Acq("channel_connections", "read"), Do("count"),
       Rel("channel_connections") >>

Program(o) ==
    CASE o = "add"       -> AddConnection
      [] o = "remove"    -> RemoveConnection
      [] o = "count"     -> GetChannelConnectionCount
      [] o = "broadcast" -> BroadcastToChannel

Cur(t) == Program(op[t])[ip[t]]

Busy(t) == op[t] /= "none"

\* Ids listed for channel ch in channel_connections.
Indexed(ch) == IF ch \in DOMAIN index THEN ToSet(index[ch]) ELSE {}

(***************************************************************************)
(* Moving to the next instruction; at the end of a method the task         *)
(* returns to its caller.  The consumer goes on from the count to the      *)
(* broadcast only when the count is not zero (consumer.rs 189-196).        *)
(***************************************************************************)
Advance(t) ==
    IF ip[t] < Len(Program(op[t]))
    THEN /\ ip' = [ip EXCEPT ![t] = @ + 1]
         /\ UNCHANGED <<op, session>>
    ELSE /\ ip' = [ip EXCEPT ![t] = 1]
         /\ op' = [op EXCEPT ![t] =
                     IF op[t] = "count" /\ cnt > 0 THEN "broadcast" ELSE "none"]
         /\ session' = CASE op[t] = "add"    -> [session EXCEPT ![t] = "added"]
                         [] op[t] = "remove" -> [session EXCEPT ![t] = "removed"]
                         [] OTHER            -> session

(***************************************************************************)
(* Lock steps.  A write guard needs the lock free; a read guard needs no   *)
(* writer.  Only the consumer ever reads, so tokio's queueing of readers   *)
(* behind a waiting writer never changes which task proceeds.              *)
(***************************************************************************)
Acquire(t) ==
    LET l == Cur(t).lock IN
    /\ Busy(t)
    /\ Cur(t).kind = "acquire"
    /\ writer[l] = NoTask
    /\ IF Cur(t).mode = "write"
       THEN /\ readers[l] = {}
            /\ writer' = [writer EXCEPT ![l] = t]
            /\ UNCHANGED readers
       ELSE /\ readers' = [readers EXCEPT ![l] = @ \cup {t}]
            /\ UNCHANGED writer
    /\ Advance(t)
    /\ UNCHANGED <<connections, index, target, cnt, outbox, sent>>

Release(t) ==
    LET l == Cur(t).lock IN
    /\ Busy(t)
    /\ Cur(t).kind = "release"
    /\ writer' = [writer EXCEPT ![l] = IF @ = t THEN NoTask ELSE @]
    /\ readers' = [readers EXCEPT ![l] = @ \ {t}]
    /\ Advance(t)
    /\ UNCHANGED <<connections, index, target, cnt, outbox, sent>>

(***************************************************************************)
(* Map updates.                                                            *)
(***************************************************************************)
\* connections.insert(connection_id, connection)
Insert(t) ==
    /\ Busy(t)
    /\ Cur(t).kind = "insert"
    /\ connections' = connections \cup {t}
    /\ Advance(t)
    /\ UNCHANGED <<index, writer, readers, target, cnt, outbox, sent>>

\* entry(channel_id).or_insert_with(Vec::new).push(connection_id)
Push(t) ==
    LET ch == ChannelOf[t] IN
    /\ Busy(t)
    /\ Cur(t).kind = "push"
    /\ index' = IF ch \in DOMAIN index
                THEN [index EXCEPT ![ch] = Append(@, t)]
                ELSE index @@ (ch :> <<t>>)
    /\ Advance(t)
    /\ UNCHANGED <<connections, writer, readers, target, cnt, outbox, sent>>

\* connections.remove(&connection_id); a session removes only the id it
\* added, so the None branch of `if let Some(conn)` is never taken.
Take(t) ==
    /\ Busy(t)
    /\ Cur(t).kind = "take"
    /\ connections' = connections \ {t}
    /\ Advance(t)
    /\ UNCHANGED <<index, writer, readers, target, cnt, outbox, sent>>

\* The index after a retain that forgets to drop the emptied entry.
RetainKeepEmpty(t) ==
    LET ch == ChannelOf[t] IN
    IF ch \in DOMAIN index
    THEN [index EXCEPT ![ch] = Remove(@, t)]
    ELSE index

\* The index after a retain that drops the channel's whole entry.
RetainDropEntry(t) ==
    LET ch == ChannelOf[t] IN
    [k \in DOMAIN index \ {ch} |-> index[k]]

\* conns.retain(|id| *id != connection_id), then remove the channel entry
\* when no ids are left.
RetainIndex(t) ==
    LET ch   == ChannelOf[t]
        rest == Remove(index[ch], t)
    IN  IF ch \notin DOMAIN index THEN index
        ELSE IF rest = <<>> THEN [k \in DOMAIN index \ {ch} |-> index[k]]
        ELSE [index EXCEPT ![ch] = rest]

Retain(t) ==
    /\ Busy(t)
    /\ Cur(t).kind = "retain"
    /\ index' = RetainIndex(t)
    /\ Advance(t)
    /\ UNCHANGED <<connections, writer, readers, target, cnt, outbox, sent>>

\* get(&channel_id).map(|conns| conns.len()).unwrap_or(0)
Count(t) ==
    /\ Busy(t)
    /\ Cur(t).kind = "count"
    /\ cnt' = IF target \in DOMAIN index THEN Len(index[target]) ELSE 0
    /\ Advance(t)
    /\ UNCHANGED <<connections, index, writer, readers, target, outbox, sent>>

\* For each id of the channel that still has a Connection, sender.send
\* (never blocks: the mpsc channel is unbounded).
Send(t) ==
    /\ Busy(t)
    /\ Cur(t).kind = "send"
    /\ sent' = sent + 1
    /\ outbox' = [c \in Conns |->
                    IF c \in Indexed(target) /\ c \in connections
                    THEN Append(outbox[c], sent + 1)
                    ELSE outbox[c]]
    /\ Advance(t)
    /\ UNCHANGED <<connections, index, writer, readers, target, cnt>>

(***************************************************************************)
(* Callers.  handle_socket calls add_connection once on upgrade and        *)
(* remove_connection once after its writer or reader task ended; the       *)
(* consumer handles one MessageSent event for some channel at a time.      *)
(***************************************************************************)
StartAdd(c) ==
    /\ session[c] = "new" /\ ~Busy(c)
    /\ op' = [op EXCEPT ![c] = "add"]
    /\ UNCHANGED <<connections, index, writer, readers, ip, target, cnt,
                   session, outbox, sent>>

StartRemove(c) ==
    /\ session[c] = "added" /\ ~Busy(c)
    /\ op' = [op EXCEPT ![c] = "remove"]
    /\ UNCHANGED <<connections, index, writer, readers, ip, target, cnt,
                   session, outbox, sent>>

HandleEvent(ch) ==
    /\ ~Busy(Consumer)
    /\ sent < MaxBroadcasts
    /\ op' = [op EXCEPT ![Consumer] = "count"]
    /\ target' = ch
    /\ UNCHANGED <<connections, index, writer, readers, ip, cnt, session,
                   outbox, sent>>

Init ==
    /\ connections = {}
    /\ index = [ch \in {} |-> <<>>]
    /\ writer = [l \in Locks |-> NoTask]
    /\ readers = [l \in Locks |-> {}]
    /\ op = [t \in Tasks |-> "none"]
    /\ ip = [t \in Tasks |-> 1]
    /\ target \in Channels
    /\ cnt = 0
    /\ session = [c \in Conns |-> "new"]
    /\ outbox = [c \in Conns |-> <<>>]
    /\ sent = 0

Step(t) ==
    \/ Acquire(t) \/ Release(t) \/ Insert(t) \/ Push(t) \/ Take(t)
    \/ Retain(t) \/ Count(t) \/ Send(t)

Next ==
    \/ \E t \in Tasks : Step(t)
    \/ \E c \in Conns : StartAdd(c) \/ StartRemove(c)
    \/ \E ch \in Channels : HandleEvent(ch)

\* Tokio schedules every runnable task, and its RwLock is fair: waiters are
\* granted in FIFO order, so a writer waiting for a guard is not overtaken
\* forever by the consumer's repeated read guards.  Strong fairness on a
\* task's steps states that guarantee without modelling the wait queue.
\* Starting a method is the client's or the broker's choice: no fairness.
Fairness == \A t \in Tasks : SF_vars(Step(t))

Spec == Init /\ [][Next]_vars /\ Fairness

(***************************************************************************)
(* Properties.                                                             *)
(***************************************************************************)
\* Type of every variable; a channel_connections entry is never an empty
\* Vec (remove_connection drops the key when its last id goes).
TypeOK ==
    /\ connections \subseteq Conns
    /\ DOMAIN index \subseteq Channels
    /\ \A ch \in DOMAIN index : index[ch] \in Seq(Conns) \ {<<>>}
    /\ writer \in [Locks -> Tasks \cup {NoTask}]
    /\ readers \in [Locks -> SUBSET Tasks]
    /\ op \in [Tasks -> {"none", "add", "remove", "count", "broadcast"}]
    /\ target \in Channels
    /\ cnt \in Nat
    /\ session \in [Conns -> {"new", "added", "removed"}]
    /\ sent \in 0..MaxBroadcasts

\* A connection is reached by broadcasts once it is in both maps; it is
\* closed once remove_connection has taken it out of connections.
AbstractStatus(c) ==
    IF c \in connections /\ c \in Indexed(ChannelOf[c]) THEN "live"
    ELSE IF session[c] = "removed" \/ (op[c] = "remove" /\ c \notin connections)
    THEN "closed"
    ELSE "new"

Abs == INSTANCE RegistrySpec
         WITH status <- [c \in Conns |-> AbstractStatus(c)]

\* The two-lock registry implements the atomic registry: a connection
\* becomes reachable once, stops being reachable only through its own
\* remove_connection, and each broadcast_to_channel reaches exactly the
\* connections reachable at that instant, although add, remove and
\* broadcast interleave between the two locks.
ImplementsRegistrySpec == Abs!Spec

\* Every registry call that a session or the consumer has started returns:
\* the nested read guards of broadcast_to_channel never wait in a cycle
\* with the write guards of add_connection and remove_connection.
CallsReturn == \A t \in Tasks : Busy(t) ~> ~Busy(t)

=============================================================================
