----------------------------- MODULE ChatFanOut -----------------------------
(***************************************************************************)
(* The live message path of chat-service across a cluster of instances.   *)
(*                                                                         *)
(*  session (inbound/websocket/handler.rs handle_socket): upgrade,         *)
(*    add_connection, enqueue Connected; a reader task that runs           *)
(*    MessageService::send_message for each send_message frame; a writer   *)
(*    task that drains the outbound queue to the socket; when either task  *)
(*    ends the other is aborted and remove_connection runs.                *)
(*  send_message (domain/message/service.rs): channel lookup, the two      *)
(*    Cassandra inserts of CassandraMessageRepository::create, then the    *)
(*    publish to topic chat.messages.<shard(channel)>, keyed by message   *)
(*    id; a publish error is only logged.                                  *)
(*  broker: each shard topic has Partitions partitions, each an ordered    *)
(*    log; a record keyed by a fresh message id may land in any of them.   *)
(*  fan-out consumer (outbound/events/consumer.rs), one per instance, in   *)
(*    the consumer group GroupOf[i]: Kafka gives each partition to one     *)
(*    member of each group.  For each MessageSent it reads the local       *)
(*    connection count, drops the event when it is 0, and otherwise       *)
(*    broadcasts a new_message frame to the local sessions of the channel. *)
(*                                                                         *)
(* The registry is used at the level of RegistrySpec: add, remove and      *)
(* broadcast are single steps, which ConnectionRegistry shows the two-lock *)
(* implementation refines.  A message is named by its number 1..MaxMsgs;   *)
(* its author session fixes its channel.                                   *)
(***************************************************************************)
EXTENDS Naturals, FiniteSets, Sequences, SequencesExt

CONSTANTS
    Instances,      \* chat-service processes
    Conns,          \* WebSocket sessions (one per connection id)
    Channels,       \* channel ids
    InstanceOf,     \* instance that accepted each session's upgrade
    ChannelOf,      \* channel in each session's URL path
    NumShards,      \* kafka.num_shards
    ShardOf,        \* ShardOf[i][ch]: compute_shard_index of ch on instance i
    Partitions,     \* partitions of each chat.messages.<i> topic (broker side)
    GroupOf,        \* kafka.group_id each instance was configured with
    MaxMsgs         \* bound on client frames the readers read

ASSUME InstanceOf \in [Conns -> Instances]
ASSUME ChannelOf \in [Conns -> Channels]
ASSUME ShardOf \in [Instances -> [Channels -> 0..NumShards - 1]]
ASSUME Partitions \in Nat \ {0} /\ MaxMsgs \in Nat

Shards == 0..NumShards - 1
Parts  == 0..Partitions - 1
TopicParts == Shards \X Parts

Frame(type, id) == [type |-> type, id |-> id]

VARIABLES
    sess,       \* "idle", "registered", "open", "closing", "closed"
    registered, \* sessions present in their instance's registry
    outbox,     \* each session's unbounded mpsc queue (writer side)
    recv,       \* frames the writer has written to each client's socket
    rpc,        \* reader: step of send_message it is in, or "idle"
    rmsg,       \* reader: message of the send_message in progress
    author,     \* author[m]: the session whose send_message created m
    history,    \* messages_by_channel rows: ids per channel
    log,        \* log[<<s, p>>]: records of partition p of shard topic s
    audience,   \* audience[m]: sessions registered when m was published
    offset,     \* offset[i][tp]: next record instance i reads in tp
    pending,    \* pending[i]: messages consumer i has passed the filter
                \* for and not yet broadcast
    replies,    \* replies[c]: c's frames that earn an answer, in the order
                \* the reader took them: "ping", or "refused" for a frame
                \* or send_message that ended in Err
    ctl         \* client frames read other than send_message

vars == <<sess, registered, outbox, recv, rpc, rmsg, author, history, log,
          audience, offset, pending, replies, ctl>>

(***************************************************************************)
(* Consumer groups.  Kafka assigns every partition of a subscribed topic   *)
(* to exactly one member of each group; which member is immaterial.       *)
(***************************************************************************)
Owner(g, tp) == CHOOSE j \in Instances : GroupOf[j] = g

Assigned(i, tp) == Owner(GroupOf[i], tp) = i

ChannelOfMsg(m) == ChannelOf[author[m]]

(***************************************************************************)
(* send_message as an ordered list of steps, each an await point.          *)
(***************************************************************************)
\* send_message publishing before the durable write.
SendMessagePublishFirst ==
    <<"lookup", "publish", "insert_by_channel", "insert_by_user">>

\* find_by_id (81-86), create = two INSERTs (97; message.rs 93-122), publish
\* (101-111).
SendMessageSteps ==
    <<"lookup", "insert_by_channel", "insert_by_user", "publish">>

StepAt(k) == SendMessageSteps[k]

\* Position of the reader's current step in SendMessageSteps.
Pos(c) == CHOOSE k \in 1..Len(SendMessageSteps) : StepAt(k) = rpc[c]

\* The reader's step after the current one, "idle" once send_message returns.
NextStep(c) ==
    IF Pos(c) = Len(SendMessageSteps) THEN "idle" ELSE StepAt(Pos(c) + 1)

(***************************************************************************)
(* Session lifecycle (handler.rs 91-167).                                  *)
(***************************************************************************)
\* on_upgrade: handle_socket mints the id and calls add_connection.
Upgrade(c) ==
    /\ sess[c] = "idle"
    /\ sess' = [sess EXCEPT ![c] = "registered"]
    /\ registered' = registered \cup {c}
    /\ UNCHANGED <<replies, ctl, outbox, recv, rpc, rmsg, author, history, log, audience,
                   offset, pending>>

\* tx.send(Connected), then the writer and reader tasks are spawned.
SendConnected(c) ==
    /\ sess[c] = "registered"
    /\ sess' = [sess EXCEPT ![c] = "open"]
    /\ outbox' = [outbox EXCEPT ![c] = Append(@, Frame("connected", 0))]
    /\ UNCHANGED <<replies, ctl, registered, recv, rpc, rmsg, author, history, log,
                   audience, offset, pending>>

\* Writer: rx.recv() then sender.send(msg) succeeds.
WriterSend(c) ==
    /\ sess[c] = "open"
    /\ outbox[c] /= <<>>
    /\ recv' = [recv EXCEPT ![c] = Append(@, Head(outbox[c]))]
    /\ outbox' = [outbox EXCEPT ![c] = Tail(@)]
    /\ UNCHANGED <<replies, ctl, sess, registered, rpc, rmsg, author, history, log,
                   audience, offset, pending>>

\* Writer: sender.send(msg) fails (client gone); the writer task ends and
\* select! aborts the reader wherever it is awaiting, even inside
\* send_message: the steps already done stay done.
WriterFails(c) ==
    /\ sess[c] = "open"
    /\ outbox[c] /= <<>>
    /\ sess' = [sess EXCEPT ![c] = "closing"]
    /\ rpc' = [rpc EXCEPT ![c] = "idle"]
    /\ UNCHANGED <<replies, ctl, registered, outbox, recv, rmsg, author, history, log,
                   audience, offset, pending>>

\* Reader: receiver.next() yields None or an error (the client closed);
\* the reader task ends and select! aborts the writer, dropping the frames
\* still queued.
ReaderEnds(c) ==
    /\ sess[c] = "open"
    /\ rpc[c] = "idle"
    /\ sess' = [sess EXCEPT ![c] = "closing"]
    /\ outbox' = [outbox EXCEPT ![c] = <<>>]
    /\ UNCHANGED <<replies, ctl, registered, recv, rpc, rmsg, author, history, log,
                   audience, offset, pending>>

\* After select!: remove_connection.
Unregister(c) ==
    /\ sess[c] = "closing"
    /\ sess' = [sess EXCEPT ![c] = "closed"]
    /\ registered' = registered \ {c}
    /\ UNCHANGED <<replies, ctl, outbox, recv, rpc, rmsg, author, history, log, audience,
                   offset, pending>>

(***************************************************************************)
(* Reader: a send_message frame with valid content (handler.rs 178-197).   *)
(* The reader awaits send_message before it reads the next frame.          *)
(***************************************************************************)
\* ClientSend numbering the new message from 0.
ClientSendOffByOne(c) ==
    /\ sess[c] = "open"
    /\ rpc[c] = "idle"
    /\ Len(author) + ctl < MaxMsgs
    /\ author' = Append(author, c)
    /\ rmsg' = [rmsg EXCEPT ![c] = Len(author)]
    /\ rpc' = [rpc EXCEPT ![c] = StepAt(1)]
    /\ UNCHANGED <<replies, ctl, sess, registered, outbox, recv, history, log, audience,
                   offset, pending>>

ClientSend(c) ==
    /\ sess[c] = "open"
    /\ rpc[c] = "idle"
    /\ Len(author) + ctl < MaxMsgs
    /\ author' = Append(author, c)
    /\ rmsg' = [rmsg EXCEPT ![c] = Len(author) + 1]
    /\ rpc' = [rpc EXCEPT ![c] = StepAt(1)]
    /\ UNCHANGED <<replies, ctl, sess, registered, outbox, recv, history, log, audience,
                   offset, pending>>

\* A step of send_message fails: the error is mapped into an error frame
\* for the sender alone (handler.rs 137-145) and the reader goes on.
SendFails(c) ==
    /\ sess[c] = "open"
    /\ rpc[c] \in {"lookup", "insert_by_channel", "insert_by_user"}
    /\ rpc' = [rpc EXCEPT ![c] = "idle"]
    /\ outbox' = [outbox EXCEPT ![c] = Append(@, Frame("error", 0))]
    /\ replies' = [replies EXCEPT ![c] = Append(@, "refused")]
    /\ UNCHANGED <<ctl, sess, registered, recv, rmsg, author, history, log,
                   audience, offset, pending>>

(***************************************************************************)
(* Reader: the other client frames (process_client_message, 167-229, and  *)
(* the error path of the loop, 137-145).  A ping frame is answered with   *)
(* pong on tx; a binary frame, text that is no ClientMessage, and a       *)
(* send_message whose MessageContent::new fails (empty, over 4000 bytes)  *)
(* return Err, which the loop sends as one error frame.  Close and        *)
(* transport ping/pong return Ok and change nothing.                      *)
(***************************************************************************)
\* "bad_text": a text frame that is no ClientMessage, or a send_message
\* whose content MessageContent::new rejects; both are Err before any await.
ClientFrameKinds == {"ping", "binary", "bad_text"}

\* What the client is owed for a frame: a ping, or a refusal (an Err).
Owed(kind) == IF kind = "ping" THEN "ping" ELSE "refused"

ReplyTo(kind) == IF kind = "ping" THEN "pong" ELSE "error"

\* The binary arm returning Ok(()) like the transport ping/pong arm.
ClientFrameBinaryOk(c) ==
    /\ sess[c] = "open"
    /\ rpc[c] = "idle"
    /\ Len(author) + ctl < MaxMsgs
    /\ \E kind \in ClientFrameKinds :
          /\ outbox' = IF kind = "binary" THEN outbox
                        ELSE [outbox EXCEPT ![c] = Append(@, Frame(ReplyTo(kind), 0))]
          /\ replies' = [replies EXCEPT ![c] = Append(@, Owed(kind))]
    /\ ctl' = ctl + 1
    /\ UNCHANGED <<sess, registered, recv, rpc, rmsg, author, history, log,
                   audience, offset, pending>>

ClientFrame(c) ==
    /\ sess[c] = "open"
    /\ rpc[c] = "idle"
    /\ Len(author) + ctl < MaxMsgs
    /\ \E kind \in ClientFrameKinds :
          /\ outbox' = [outbox EXCEPT ![c] = Append(@, Frame(ReplyTo(kind), 0))]
          /\ replies' = [replies EXCEPT ![c] = Append(@, Owed(kind))]
    /\ ctl' = ctl + 1
    /\ UNCHANGED <<sess, registered, recv, rpc, rmsg, author, history, log,
                   audience, offset, pending>>

\* find_by_id returns the channel.
Lookup(c) ==
    /\ sess[c] = "open"
    /\ rpc[c] = "lookup"
    /\ rpc' = [rpc EXCEPT ![c] = NextStep(c)]
    /\ UNCHANGED <<replies, ctl, sess, registered, outbox, recv, rmsg, author, history, log,
                   audience, offset, pending>>

\* INSERT INTO messages_by_channel succeeds: the row history reads.
InsertByChannel(c) ==
    /\ sess[c] = "open"
    /\ rpc[c] = "insert_by_channel"
    /\ history' = [history EXCEPT ![ChannelOf[c]] = @ \cup {rmsg[c]}]
    /\ rpc' = [rpc EXCEPT ![c] = NextStep(c)]
    /\ UNCHANGED <<replies, ctl, sess, registered, outbox, recv, rmsg, author, log,
                   audience, offset, pending>>

\* INSERT INTO messages_by_user succeeds (no property reads that table).
InsertByUser(c) ==
    /\ sess[c] = "open"
    /\ rpc[c] = "insert_by_user"
    /\ rpc' = [rpc EXCEPT ![c] = NextStep(c)]
    /\ UNCHANGED <<replies, ctl, sess, registered, outbox, recv, rmsg, author, history, log,
                   audience, offset, pending>>

\* producer.send to topic shard(channel), as the sender's instance computes
\* it, key = message id: the broker puts the record in the partition its
\* key hashes to.  The sessions registered
\* in the channel at this instant are recorded as the message's audience.
Publish(c) ==
    LET m == rmsg[c] IN
    /\ sess[c] = "open"
    /\ rpc[c] = "publish"
    /\ \E p \in Parts :
          log' = [log EXCEPT ![<<ShardOf[InstanceOf[c]][ChannelOf[c]], p>>] =
                                Append(@, m)]
    /\ audience' = audience @@ (m :> {d \in registered : ChannelOf[d] = ChannelOf[c]})
    /\ rpc' = [rpc EXCEPT ![c] = NextStep(c)]
    /\ UNCHANGED <<replies, ctl, sess, registered, outbox, recv, rmsg, author, history,
                   offset, pending>>

\* producer.send fails or times out: logged, send_message still succeeds.
PublishFails(c) ==
    /\ sess[c] = "open"
    /\ rpc[c] = "publish"
    /\ rpc' = [rpc EXCEPT ![c] = NextStep(c)]
    /\ UNCHANGED <<replies, ctl, sess, registered, outbox, recv, rmsg, author, history, log,
                   audience, offset, pending>>

(***************************************************************************)
(* Fan-out consumer of instance i (consumer.rs 97-248).                    *)
(***************************************************************************)
\* The filter with the count compared against 1 instead of 0.
HasLocalAudienceOffByOne(i, ch) ==
    Cardinality({c \in registered : InstanceOf[c] = i /\ ChannelOf[c] = ch}) > 1

\* get_channel_connection_count(channel_id) /= 0 (consumer.rs 184-196).
HasLocalAudience(i, ch) ==
    \E c \in registered : InstanceOf[c] = i /\ ChannelOf[c] = ch

\* The loop without awaiting each event before the next message_stream.next()
\* (events handled concurrently).
PollConcurrent(i) ==
    /\ \E tp \in TopicParts :
          /\ Assigned(i, tp)
          /\ offset[i][tp] < Len(log[tp])
          /\ LET m == log[tp][offset[i][tp] + 1] IN
             /\ offset' = [offset EXCEPT ![i][tp] = @ + 1]
             /\ pending' = IF HasLocalAudience(i, ChannelOfMsg(m))
                           THEN [pending EXCEPT ![i] = @ \cup {m}]
                           ELSE pending
    /\ UNCHANGED <<replies, ctl, sess, registered, outbox, recv, rpc, rmsg, author, history,
                   log, audience>>

\* message_stream.next() yields the next record of a partition assigned to
\* i (the loop awaits process_message before it polls again); the count is
\* read at once and the event is dropped when it is 0.
Poll(i) ==
    /\ pending[i] = {}
    /\ \E tp \in TopicParts :
          /\ Assigned(i, tp)
          /\ offset[i][tp] < Len(log[tp])
          /\ LET m == log[tp][offset[i][tp] + 1] IN
             /\ offset' = [offset EXCEPT ![i][tp] = @ + 1]
             /\ pending' = IF HasLocalAudience(i, ChannelOfMsg(m))
                           THEN [pending EXCEPT ![i] = @ \cup {m}]
                           ELSE pending
    /\ UNCHANGED <<replies, ctl, sess, registered, outbox, recv, rpc, rmsg, author, history,
                   log, audience>>

\* broadcast_to_channel: a new_message frame to every local session of the
\* channel registered now.  The queue exists from registration on, so a
\* session not yet past SendConnected gets it too; once the session is
\* closing its receiver has been dropped and the send is ignored.
Broadcast(i) ==
    \E m \in pending[i] :
    /\ outbox' = [c \in Conns |->
                    IF /\ c \in registered
                       /\ InstanceOf[c] = i
                       /\ ChannelOf[c] = ChannelOfMsg(m)
                       /\ sess[c] \in {"registered", "open"}
                    THEN Append(outbox[c], Frame("new_message", m))
                    ELSE outbox[c]]
    /\ pending' = [pending EXCEPT ![i] = @ \ {m}]
    /\ UNCHANGED <<replies, ctl, sess, registered, recv, rpc, rmsg, author, history, log,
                   audience, offset>>

Init ==
    /\ sess = [c \in Conns |-> "idle"]
    /\ registered = {}
    /\ outbox = [c \in Conns |-> <<>>]
    /\ recv = [c \in Conns |-> <<>>]
    /\ rpc = [c \in Conns |-> "idle"]
    /\ rmsg = [c \in Conns |-> 0]
    /\ author = <<>>
    /\ history = [ch \in Channels |-> {}]
    /\ log = [tp \in TopicParts |-> <<>>]
    /\ audience = [m \in {} |-> {}]
    /\ offset = [i \in Instances |-> [tp \in TopicParts |-> 0]]
    /\ pending = [i \in Instances |-> {}]
    /\ replies = [c \in Conns |-> <<>>]
    /\ ctl = 0

Session(c) ==
    \/ Upgrade(c) \/ SendConnected(c) \/ WriterSend(c) \/ WriterFails(c)
    \/ ReaderEnds(c) \/ Unregister(c)

Reader(c) ==
    \/ ClientSend(c) \/ ClientFrame(c) \/ SendFails(c) \/ Lookup(c) \/ InsertByChannel(c)
    \/ InsertByUser(c) \/ Publish(c) \/ PublishFails(c)

Next ==
    \/ \E c \in Conns : Session(c) \/ Reader(c)
    \/ \E i \in Instances : Poll(i) \/ Broadcast(i)

(***************************************************************************)
(* Fairness, one condition per tokio task: tokio polls every ready task,  *)
(* and store and broker calls return (ok, error or timeout).  The tasks   *)
(* are handle_socket itself (Connected, then remove_connection after      *)
(* select!), the writer, the reader inside send_message, and each         *)
(* instance's consumer loop (poll, then process the event).  What clients *)
(* do (connect, send, close, vanish) gets no fairness.                    *)
(***************************************************************************)
Fairness ==
    /\ \A c \in Conns :
          /\ WF_vars(SendConnected(c) \/ Unregister(c))
          /\ WF_vars(WriterSend(c) \/ WriterFails(c))
          /\ WF_vars(SendFails(c) \/ Lookup(c) \/ InsertByChannel(c)
                     \/ InsertByUser(c) \/ Publish(c) \/ PublishFails(c))
    /\ \A i \in Instances : WF_vars(Poll(i) \/ Broadcast(i))

Spec == Init /\ [][Next]_vars /\ Fairness

(***************************************************************************)
(* Properties.                                                             *)
(***************************************************************************)
Msgs == 1..Len(author)

NewMessages(c) == {recv[c][k].id : k \in {k \in DOMAIN recv[c] :
                                            recv[c][k].type = "new_message"}}

TypeOK ==
    /\ sess \in [Conns -> {"idle", "registered", "open", "closing", "closed"}]
    /\ registered \subseteq Conns
    /\ rpc \in [Conns -> {"idle"} \cup ToSet(SendMessageSteps)]
    /\ author \in Seq(Conns) /\ Len(author) <= MaxMsgs
    /\ history \in [Channels -> SUBSET Msgs]
    /\ log \in [TopicParts -> Seq(Msgs)]
    /\ DOMAIN audience \subseteq Msgs
    /\ pending \in [Instances -> SUBSET Msgs]
    /\ replies \in [Conns -> Seq({"ping", "refused"})]
    /\ ctl \in 0..MaxMsgs

\* Messages of one sender reach every client in the order the sender sent
\* them (the reader awaits each send_message before the next frame, and
\* each partition is read in order).
SenderOrder ==
    \A c \in Conns : \A j, k \in DOMAIN recv[c] :
        LET a == recv[c][j].id
            b == recv[c][k].id
        IN  /\ j < k
            /\ recv[c][j].type = "new_message"
            /\ recv[c][k].type = "new_message"
            /\ author[a] = author[b]
            => a < b

\* Message m has reached client c, or c's session is going away.  Both
\* disjuncts are stable: recv only grows and a closing session never reopens.
Reached(m, c) == m \in NewMessages(c) \/ sess[c] \in {"closing", "closed"}

\* Fan-out: a message published while a session is registered in its
\* channel, on any instance, reaches that session's client unless the
\* session closes.  audience is written once per message and Reached is
\* stable, and at most MaxMsgs messages are published, so "each such pair
\* leads to Reached" is the same as "infinitely often every pair has".
FanOutReachesAudience ==
    []<>(\A m \in DOMAIN audience : \A c \in audience[m] : Reached(m, c))

\* The messages of channel ch in the order the fan-out hands them out: the
\* records of ch in the log of the shard topic partition its instances
\* route it to.  A total order only when each shard topic has a single
\* partition (Partitions = 1), as the fanout run configures.
ChannelLog(ch) ==
    LET tp == <<ShardOf[CHOOSE i \in Instances : TRUE][ch], 0>>
    IN  SelectSeq(log[tp], LAMBDA m : ChannelOfMsg(m) = ch)

\* The ids of the new_message frames client c has been sent, in order.
Delivered(c) ==
    LET f == SelectSeq(recv[c], LAMBDA x : x.type = "new_message")
    IN  [k \in DOMAIN f |-> f[k].id]

ChannelOrder == INSTANCE ChannelOrder
    WITH Msgs <- 1..MaxMsgs, stored <- history,
         order <- [ch \in Channels |-> ChannelLog(ch)],
         delivered <- [c \in Conns |-> Delivered(c)]

\* The cluster implements the promise of the fan-out pipeline: rows
\* written by InsertByChannel, records written by Publish and frames
\* written by the writer task are, step by step, a behaviour of
\* ChannelOrder: a message is published only once it is durable, and each
\* client gets its channel's messages in the partition's order, at most
\* once, whatever the consumers, the filter and the aborts do.
ImplementsChannelOrder == ChannelOrder!Spec

\* Answers go to the sender alone and in order (spec.md 4.5: pong and
\* error "to the sender only"): the pong and error frames a client has
\* received are, in order, a prefix of the answers its own frames earned
\* (pong for ping, error for anything else it was owed),
\* however they interleave with the channel's new_message frames, with
\* other sessions' errors, and with the queue dropped on close.
RepliesToSenderInOrder ==
    \A c \in Conns :
        LET got == SelectSeq(recv[c], LAMBDA f : f.type \in {"pong", "error"})
        IN  IsPrefix([k \in DOMAIN got |-> got[k].type],
                     [k \in DOMAIN replies[c] |->
                         IF replies[c][k] = "ping" THEN "pong" ELSE "error"])

=============================================================================
