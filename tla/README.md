# TLA+ models of chat-rs

This directory holds TLA+ models of the chat-rs system (`src/chat-service`,
`src/user-service`, `src/auth`) and the TLC configurations that check them.
Every definition is translated from the Rust source; `PROJECT.json` maps each
definition to the lines it models.

## 1. Inventory

### Components, their state and operations

| Component | Source | State | Operations |
|---|---|---|---|
| Connection registry | `chat-service/src/lib/inbound/websocket/registry.rs` | `connections: RwLock<HashMap<Uuid, Connection>>`, `channel_connections: RwLock<HashMap<ChannelId, Vec<Uuid>>>` (two independent tokio RwLocks) | `add_connection` (write-lock `connections`, insert, release; write-lock index, push), `remove_connection` (write-lock `connections`, remove, release; write-lock index, retain, drop empty entry), `broadcast_to_channel` (read-lock index, then read-lock `connections` while still holding the first; non-blocking `send` to every id found in both), `get_channel_connection_count` (read-lock index) |
| WebSocket session | `chat-service/src/lib/inbound/websocket/handler.rs` | per session: connection id, unbounded mpsc outbound queue, writer task, reader task | upgrade (token → `sub` → `UserId`, path → `ChannelId`, 401/400), `handle_socket` (register, enqueue `Connected`, spawn writer and reader, `select!` on the first to end, abort the other, `remove_connection`), `process_client_message` (`send_message`, `ping`, close, binary → error frame) |
| Message service | `chat-service/src/lib/domain/message/service.rs` | none (stateless over stores) | `send_message` (channel lookup → new time-UUID → `create` → publish, publish error logged only), `get_channel_messages` |
| Message store | `chat-service/src/lib/outbound/repositories/message.rs` | Cassandra `messages_by_channel`, `messages_by_user` | `create` (two separate INSERTs, either may fail), `find_by_channel` (newest first, `limit`, `before`) |
| Shard router | `chat-service/src/lib/outbound/events/topic.rs` | `num_shards`, prefix | `new` (ZeroShards, NotPowerOfTwo, EmptyTopicPrefix), `get_shard_for_channel` (`(hash as u32) & (n-1)`), `get_all_shards` |
| Chat event producer | `chat-service/src/lib/outbound/events/producer.rs`, `message_publisher.rs` | Kafka producer, 5 s timeout | `publish_event` (topic = shard of channel, key = message id) |
| Fan-out consumer | `chat-service/src/lib/outbound/events/consumer.rs` | Kafka consumer, `group.id = kafka.group_id`, `auto.offset.reset = latest`, auto-commit | loop: receive → decode → `MessageSent`: count check, drop or build frame and `broadcast_to_channel`; other events logged; Kafka error → 100 ms sleep |
| User replica consumer | `chat-service/src/lib/outbound/events/user_consumer.rs`, `repositories/user_replica.rs` | Postgres `user_replica`; Kafka consumer with the **same** `kafka.group_id`, `earliest` | `UserCreated` → upsert, `UserUpdated` → get then upsert keeping `created_at`, `UserDeleted` → delete (missing row: warning); handler error → logged, event skipped |
| Channel service/store | `chat-service/src/lib/domain/channel/service.rs`, `repositories/channel.rs`, `inbound/http/handlers/channels/*` | Postgres `channels` (no member or participant table) | `create_channel` (name validated in the handler, INSERT, `channels_name_key` → `NameAlreadyExists`), `get_channel`, `list_public_channels`, `list_user_channels` (creator only, no route), `delete` (no caller) |
| User service (IS) | `user-service/src/lib/domain/user/service.rs`, `repositories/user.rs` | Postgres `users` | `create_user` (insert, then publish `UserCreated`), `update_user` (read, patch, write, publish `UserUpdated`), `delete_user` (delete, publish `UserDeleted`); publish errors logged |
| User event producer | `user-service/src/lib/outbound/events/producer.rs` | Kafka producer, idempotent, `acks=all`, key = user id | `publish` |
| Credential library | `auth/src/jwt/handler.rs`, `authenticator.rs`, `password/argon2.rs`, `jwt/claims.rs` | HMAC secret | `encode`, `decode` (exp optional, 60 s leeway), `decode_unverified`, `hash`, `verify`, `Claims::for_user` |
| Login and token checks | `user-service/src/lib/inbound/http/handlers/authenticate.rs`, `middleware.rs`, `chat-service/.../websocket/handler.rs` | none | login signs a token; the user-service middleware and the WebSocket upgrade validate it |
| HTTP routers, config, gRPC client | `*/inbound/http/*`, `config.rs`, `outbound/grpc` | none | request plumbing |

### How the components interact

* A client opens a WebSocket on one chat-service instance; `handle_socket`
  registers it in that instance's registry.  The reader task calls
  `MessageService::send_message`, which writes Cassandra and then publishes
  `MessageSent` to topic `chat.messages.<shard(channel)>` keyed by message id.
* Every instance runs one fan-out consumer subscribed to all shard topics.  Each
  received `MessageSent` is filtered by the local registry count and
  broadcast into the outbound queue of each local session of the channel; the
  session's writer task drains that queue to the socket.
* The user service commits to Postgres and then publishes user events keyed by
  user id; each chat-service instance's user consumer projects them into
  `user_replica`.

### What is hard

* **Interleaving in the registry**: two locks taken in separate steps by
  `add`/`remove` and nested (index, then connections) by `broadcast`; the
  consumer's count check and its broadcast are two separate lock acquisitions.
* **Session supervision**: the writer ending aborts the reader at whatever
  await point it is in, including in the middle of `send_message` (between the
  two Cassandra inserts, or between the insert and the publish).
* **Ordering**: per-channel order is claimed end-to-end, but the producer keys
  on the message id (partition chosen per message), and two senders' persist
  and publish steps interleave.
* **Consumer groups**: both chat-service consumers take `group.id` from the
  single `kafka.group_id` setting; instances deployed with the same setting
  form one group, and Kafka gives each partition to one member only.
* **Write-then-publish without coordination** in the user service: two
  requests on the same user commit in one order and publish in another; a
  publish that is lost or that follows a later delete is never repaired.
* **Partial failure**: the second Cassandra insert can fail after the first
  succeeded; a consumer handler error skips the event for good (auto-commit).

### Properties that make each component correct

* Registry: the two-lock implementation behaves like an atomic set of
  registered sessions (refinement); every operation finishes (no lock cycle);
  the count filter never drops an event for a fully registered session.
* Fan-out: a frame shown live is durable in history; a published message
  reaches every session that is registered in its channel on any instance and
  stays open; messages of one sender reach each receiver in send order.
* Replica: after the event stream is drained, the replica row of a user equals
  the user's row in the user service (or both are absent).

* History: a page holds the newest `limit` messages the `before` filter
  admits, newest first; a client paging backwards never skips a message.
* Channels: a channel read back keeps the type, name and creator it was
  created with; the public list is exactly the public channels.
* Authentication: a request gets through only with a token that a login of
  its subject signed, and only until `exp` plus the leeway.

## 2. Plan and status

| Step | Module | Status |
|---|---|---|
| 1 | `RegistrySpec`: the abstract registry | done |
| 2 | `ConnectionRegistry`: the two-lock registry, refines `RegistrySpec` | done |
| 3 | `ChatFanOut`: sessions, `send_message`, shard topics, consumers | done |
| 4 | `UserReplica`: user service writes and publishes, replica consumer, auto-commit and restart | done |
| 5 | `ShardRouter`: `TopicSharder` operators against a reference | done |
| 6 | `MessageHistory`: the two inserts and the history query with a paging client | done |
| 7 | `ChannelStore`: channel create, get and lists | done |
| 8 | `Auth`: login, token validation, protected password change and delete | done |
| 9 | Fan-out consumer restart and rebalance in `ChatFanOut` | open |
| 10 | Frames other than `send_message` (`ping`, binary, parse errors) in `ChatFanOut` | done |
| 11 | `ChannelOrder`: the abstract fan-out promise, refined by `ChatFanOut` | done |

## 3. Modules and runs

### `RegistrySpec` (abstract registry)

State: `status[c]` (`new`, `live`, `closed`), `outbox[c]` (frames enqueued
on the session's mpsc sender), `sent`.  Actions `Register`, `Unregister`,
`Broadcast(ch)` (one indivisible step appends a frame to every live session of
`ch`).  This is what the handler and the consumer assume of the registry.

### `ConnectionRegistry` (registry.rs)

Each registry method is a *program* of instructions (`Acq(lock, mode)`,
`Rel(lock)`, `Do(kind)`), and each caller task (one per session, one consumer)
steps through it one instruction at a time:

| Method | Program |
|---|---|
| `add_connection` | write `connections`, insert, release; write index, push, release |
| `remove_connection` | write `connections`, remove, release; write index, retain and drop the empty entry, release |
| `broadcast_to_channel` | read index, read `connections` (index still held), send to every id in both, release both |
| `get_channel_connection_count` | read index, count, release |

`Acquire` follows tokio's `RwLock`: a write needs no holder, a read needs no
writer.  The callers are `StartAdd`/`StartRemove` (handle_socket) and
`HandleEvent` (the consumer: count, then broadcast only when the count is not 0).
`AbstractStatus` maps the implementation to `RegistrySpec`: a session is live
once it is in both maps.  It is closed once `remove_connection` has taken it out
of `connections`.

### `ChannelOrder` (what the fan-out promises)

An abstract specification written from spec.md §1 and §6, with no sessions,
tables or brokers.  `Store` makes a message durable in its channel.
`Sequence` gives a stored message the next place in the channel's one order.
`Deliver` hands a client a message of its channel that is ordered after
everything it already has.  `ChatFanOut` refines it
(`ImplementsChannelOrder`) under this mapping:

- `stored` is `history`;
- `order` is the channel's records in its shard partition (`ChannelLog`);
- `delivered` is the ids of the `new_message` frames written to the client
  (`Delivered`).

All other steps are stuttering steps.  The mapping is a total order only
with one partition per shard topic, which is the `fanout` configuration.

### `ChatFanOut` (the cluster)

| Model | Code |
|---|---|
| `sess[c]`: idle → registered → open → closing → closed | `handle_socket`: `add_connection`, `Connected` sent, tasks running, `select!` fired, `remove_connection` done |
| `outbox[c]`, `recv[c]` | the unbounded mpsc queue, the frames the writer wrote to the socket |
| `rpc[c]`, `rmsg[c]` | the reader task's position inside `send_message` (`SendMessageSteps`: lookup, insert into `messages_by_channel`, insert into `messages_by_user`, publish) |
| `history[ch]` | `messages_by_channel` rows |
| `log[<<shard, partition>>]` | the partitions of the `chat.messages.<i>` topics |
| `offset[i][tp]`, `pending[i]` | each instance consumer's position and the event it is handling |
| `audience[m]` | history variable: sessions registered in the channel when `m` was published |
| `replies[c]`, `ctl` | history variable: what `c`'s frames are owed, in reading order (`Owed`: `ping`, or `refused` for a binary frame, a bad text frame or a failed `send_message`); count of frames read other than `send_message` |
| `ShardOf[i][ch]` | the shard instance `i`'s `TopicSharder` computes for `ch` |

`WriterFails` aborts the reader wherever it is in `send_message`.
`ReaderEnds` aborts the writer, dropping queued frames.  Every step of
`send_message` may fail: `SendFails` for the lookup or an insert (error
frame to the sender), and `PublishFails` (logged; `Ok` is still returned).
`ClientFrame` is every other frame the reader takes while idle: `ping` is
answered with `pong` on the session's queue, a binary frame and a text frame
that does not parse or whose `MessageContent::new` fails become one error
frame (`ReplyTo`); close and transport ping/pong return `Ok` and change
nothing, so they are stuttering steps.
`Publish` picks any partition of the shard its instance computes, because
the key is a fresh message id.  `Poll` takes the next record of a partition
assigned to the instance's consumer group (`Owner`), and applies the count
filter at once.  `Broadcast` enqueues to the local sessions registered now.
The registry is used at the atomic level of `RegistrySpec`, which the
`registry` run justifies.  Message ids are abstract numbers in send order.
`ShardOf` is per instance because `DefaultHasher` is only fixed within one
build of the Rust standard library.

### `UserReplica` (user service → `user_events` → replica)

| Model | Code |
|---|---|
| `users[u]` | the `users` row's username, or `Absent` |
| `req[r]` with `pc` init → insert / read → write / delete → publish → done | one HTTP request inside `create_user`, `update_user` or `delete_user` |
| `log` | the `user_events` topic (keyed by user id, so one ordered log per user is enough) |
| `offset`, `inhand`, `committed`, `restarts` | the consumer's stored offset (advanced on delivery), the record whose handler is running, the auto-committed offset, restarts and rebalances |
| `replica[u]` | the `user_replica` row |
| `lost`, `reordered` | history flags: an event was never published or never applied; a user's events were published out of commit order |

`StartCreate`, `StartUpdate` and `StartDelete` are the three HTTP handlers; each picks its argument (`CanStart` bounds the requests in flight).  A create or an update whose
username `Username::new` rejects (`UsernameNew`: `WithValidLength` on the
UTF-8 byte length `ByteLen`, then `WithValidChars`) ends at once with 422 and
mints no id, as `try_into_command` does in the handlers.  Usernames are
sequences of characters, so the byte length is computed, not assumed; `Insert`, `Read`, `Write` and
`Delete` are the repository calls with their `NotFound` and unique-name
errors; `Publish` and `PublishFails` end the request (a publish error is only
logged).  The consumer takes two steps per record.  `Recv` is
`message_stream.next()`: librdkafka stores the offset on delivery, so
`offset` moves on at once and the record is `inhand`.  `Apply` then runs
its handler (`Upsert` or `DeleteRow`) when the handler succeeds
(`Handled`).  That needs two things:
- the parse passes (`Accepted`: a create or update re-validates the
  username with chat-service's own copy of `Username::new`,
  `ChatUsernameNew`);
- an upsert's name is held by no other replica row (`ReplicaNameTaken`).
  `ON CONFLICT (id)` does not cover the `UNIQUE` username, as
  `tests/user_replica_tests.rs` asserts.

`HandlerFails` logs and skips the record otherwise, or on a query error.
`AutoCommit` commits the stored offset, which may cover the record in hand.
`Restart` resumes from the committed offset and drops the record in hand;
when that record's offset was already committed (`DropsInHand`), it is never
applied.

### `ShardRouter` (topic.rs)

`New`, `ComputeShardIndex`, `GetShardForChannel` and `GetAllShards` are
operators.  The state holds one configuration and the hashes routed with it,
so TLC evaluates them on every input of the bounded sets.  Word widths are
scaled to what TLC's integers hold: `u32` is a `Width`-bit word and the hash
a `2*Width`-bit word, which keeps the truncation `hash as u32` and both edges.
The reference is `(h mod 2^Width) mod num_shards` and the powers of two.

### `MessageHistory` (message store and history query)

| Model | Code |
|---|---|
| `msgs[id]` = `[idMs, ts]` | the message's timeuuid (its millisecond) and the `timestamp` column (`Utc::now()` read after the id, stored at millisecond precision, so `idMs` or one later) |
| `status[id]` minted → channel → ok, or error | `send_message` / `create`: the two INSERTs, each of which may fail |
| `byChannel`, `byUser` | `messages_by_channel`, `messages_by_user` |
| `FindByChannel(limit, b)` | `find_by_channel`: clustering order `message_id DESC`, filter `message_id < maxTimeuuid(b)`, `LIMIT` |
| `Query`, `Parse` | the handler: unparsable `before` dropped by `.ok()`, a non-positive `limit` rejected by Cassandra |
| `snapshot`, `seen` | a client paging backwards: first page, then `before` = the oldest timestamp it got (spec scenario C) |

### `ChannelStore` (channel service and store)

`rows` is the `channels` table and `created` the `Channel` each create
returned.  `CreateChannel` is the handler (empty name → 422), the service
(fresh id, `created_at`, the variant's fields) and the INSERT with the
`channels_name_key` check.  `GetChannel`, `FindPublicChannels` and
`FindByUser` read rows through `RowToChannel`, which gives private channels
no members and direct channels `[created_by, created_by]`, as the code does.
`ORDER BY created_at DESC` returns ties in any order (`NewestFirst`).  The
DDL is not in the repository, so the unique key follows spec §9: it covers
public names only.  `resp` carries the HTTP status: `ValidRequest` is the
handler's `ChannelName::new` (422), `GetChannel` parses the path id first (a
`BadId` is 400), `FromChannelError` and `HttpStatus` are `From<ChannelError>`
and `IntoResponse for ApiError`, and `Ok` is `ApiSuccess`, whose
`IntoResponse` writes 200 even where the handler passes `CREATED` (spec §5
says 200 for a created channel, so this agrees).

### `Auth` (tokens across both services)

| Model | Code |
|---|---|
| `account[u]` | the `users` row: absent, live or deleted, and the password its argon2 hash verifies |
| `issued` | claims `Authenticator::authenticate` (`Authenticate`: verify, then encode) signed, built by `Claims::for_user` (`ForUser`: `sub`, `iat = now`, `exp = now + Ttl`) |
| `Presentable` | what a client can send: any issued token, or a token for any subject signed with another key |
| `Decode`, `ValidateToken` | `JwtHandler::decode` (HS256, `exp + leeway >= now`, exp optional) and the `sub` → `UserId` check of the middleware and the upgrade |
| `Access`, `UpdatePassword`, `DeleteUser` | protected requests: WebSocket upgrade or GET, PATCH with a password, DELETE |

### Runs

| Run | Result | What it shows |
|---|---|---|
| `registry` (`MC_ConnectionRegistry.cfg`) | pass, 9.6k states | `ImplementsRegistrySpec`: every interleaving of the lock steps of two sessions' add/remove and the consumer's count+broadcast is a behaviour of `RegistrySpec`.  `CallsReturn`: every call finishes (no lock cycle, no starvation under the fair lock).  `TypeOK` includes "no empty index entry". |
| `fanout` (`MC_ChatFanOut.cfg`) | pass, 293k states | Distinct consumer groups, one partition per shard topic, one hash function.  `ImplementsChannelOrder`: the cluster refines `ChannelOrder`, so a live frame is always already in history, under every abort and failure point, and all clients of a channel get its messages in one order.  `SenderOrder`: per-sender order.  `RepliesToSenderInOrder`: the pong and error frames a client gets are, in order, a prefix of the answers its own frames earned.  `FanOutReachesAudience`: a published message reaches every session registered at publish time that stays open (stated as `[]<>` over all pairs, which equals the per-pair leads-to because `Reached` is stable and publications are bounded). |
| `fanout_shared_group` | violation | All instances in one consumer group: the session on the instance without the partition never gets the message (finding 1). |
| `fanout_partitions` | violation | Two partitions per shard topic: a sender's two messages arrive reversed (finding 2). |
| `replica` (`MC_UserReplica.cfg`) | pass, 662k states | `ReplicaAcceptsStored`: every username the users table holds passes chat-service's copy of `Username::new`, so the two copies agree on every name user-service publishes (a copy that counted characters instead of bytes would refuse `éa`).  `ConvergesUnlessLostOrReordered`: with overlapping requests, failing publishes, the replica's unique username, auto-commit and a restart that may fall inside a handler, the replica ends equal to the users table unless an event was lost or a user's events were published out of commit order.  Restart redelivery does no harm.  "Lost" covers four cases: a publish error, a handler refusing the record, a unique-name clash in the replica (reached with no fault: u1 renames away from a name that u2 then takes, and u2's create is applied first), and a restart after the record's offset was committed but before its handler finished.  Query faults are off in this run.  Their step is the same `HandlerFails` that the unique clash fires. |
| `replica_concurrent` | violation | No failures, two requests in flight: `EventuallyConsistent` fails (finding 4). |
| `username_codepoints` | violation | `UsernameCodePoints`: a create with the two-character, three-byte name `éa` is accepted and stored (finding 3). |
| `shard_router` | pass, 2k states | `NewAcceptsExactlyValid`: `new` accepts exactly the power-of-two counts with a non-empty prefix.  `RoutedTopicIsSubscribed`: the mask equals `hash mod 2^32 mod n` and names a topic `get_all_shards` lists. |
| `history` (`MC_MessageHistory.cfg`) | pass, 209k states | `NewestFirstWithinLimit`: each page is the newest `min(limit, n)` admitted messages, newest first.  `PagingNeverSkips`: paging by the oldest timestamp misses no message stored when paging began.  `TypeOK` includes "no `messages_by_user` row without its `messages_by_channel` row". |
| `history_before` | violation | A page fetched with `before` holds a message stamped exactly `before` (finding 5). |
| `channels` (`MC_ChannelStore.cfg`) | pass, 266k states | `GetReturnsCreated`: a channel read back has the type, name and creator it was created with, and a 404 names only an id never created. |
| `auth` (`MC_Auth.cfg`) | pass, 60k states | `AcceptedWithinLifetime`: every request let through carries a token that a login of its subject signed at most `Ttl + Leeway` earlier.  This holds across password changes, deletes and forged keys. |

Every property of a passing run has a mutant in `PROJECT.json`: a plausible
bug in the code (a dropped guard, an off-by-one mask, an ascending clustering
order, `decode_unverified` used for authorisation, ...) that TLC catches.

### Findings

1. `consumer.rs:64` takes `group.id` from `kafka.group_id`, one setting shared
   by every instance of a deployment.  Such instances form one group, and only
   one of them receives each partition.  Spec §1/§4.5 and the comments at
   `handler.rs:192` and `consumer.rs:77` say every instance receives every
   event.
2. `message_publisher.rs:47` keys `MessageSent` on the message id, so
   per-channel order (spec §6, property 8) holds only when every shard topic
   has a single partition.  The code does not check this.
3. `user-service .../models.rs:91`: `Username::with_valid_length` compares
   `username.len()`, the UTF-8 byte length, with 3..=32.  Spec §2 says 3–32
   code points.  A two-character name such as `éa` (three bytes) is accepted;
   a name of 17 to 32 two-byte letters is rejected as `TooLong`.  Tests with
   ASCII names (spec §7 item 4) cannot tell the two apart.
4. `user-service .../service.rs:147`: create, update and delete commit and then
   publish with no ordering between requests on one user.  A create and a
   delete that commit in one order and publish in the other leave the replica
   holding a deleted user for good.
5. `message.rs:138` filters `message_id < maxTimeuuid(before)`.
   `maxTimeuuid(t)` is the greatest timeuuid of millisecond `t`, so messages
   stamped in the millisecond of `before` come back.  Spec §4.7 and scenario C
   say "strictly older".  A client paging by the oldest timestamp gets that
   message again; with `limit = 1` it never gets past it.  The strict filter
   `< minTimeuuid(before)` would instead skip messages of that millisecond
   that did not fit in the page (the `PagingNeverSkips` mutant).  A cursor
   that cannot skip or repeat must carry the message id.

Not run, and not part of a check:
- `topic.rs:93` hashes the channel id with `DefaultHasher`, whose output Rust
  does not keep stable across releases, while spec §4.4 needs every producer
  to pick the same shard.  Within one build the hasher is SipHash with fixed
  keys, so instances agree; the skew needs a mixed-toolchain deployment, and
  no run is kept for it.
- `update_user` reads the row, patches it and writes back every column, so
  an overlapping PATCH of the username can write back the old
  `password_hash` and undo a password change.  `UserReplica` models the
  read-modify-write for the username only.
- `find_by_user` selects `WHERE created_by = $1` only, while spec §4.6 says
  `listForUser` returns created, member and participant channels.  It has no
  HTTP route.
- jsonwebtoken's default 60 s leeway accepts a token up to a minute past
  `exp`.  `AcceptedWithinLifetime` is stated with that leeway.
- PATCH and DELETE `/api/users/:id` never compare `:id` with the token's
  subject (see the hazards).
- A user-service publish failure is only logged.  Spec §4.2 documents
  log-and-continue as acceptable, so the `replica` run characterises it (the
  `lost` flag) and does not count it as a divergence.

### Bounds

- **`registry`:** 2 sessions in one channel, plus an empty second channel,
  and 2 broadcasts.  The two-session case is enough for every pairing of add,
  remove and broadcast to interleave, including the shared index entry that
  one session's remove empties while the other's add pushes.
- **`fanout`:**
  - 2 instances, each with one session in channel `ch1`, and 1 shard.
  - 2 client frames read in all (`MaxMsgs`), so one sender can send twice,
    two senders can race, both can be in flight while the other session
    closes, and a ping or bad frame can meet a failed `send_message` or a
    broadcast in one queue.
  - The violation runs change only the group assignment or the partition
    count.
- **`replica`:** 2 users, 3 raw names, 3 requests with 2 in flight, 1 restart.
  Three requests let a create, an update and a delete of one user overlap,
  and two users make the unique-name check matter.  The names are `abc`,
  `éa` (valid to the code: 3 bytes) and `a b` (a rejected character);
  `Username::MAX_LENGTH` is scaled from 32 to 4 bytes, which keeps both
  checks and the byte/character gap.  Publish failures are on and replica
  query failures off (`Faults = {"publish"}`).  A query failure takes the
  same `HandlerFails` step as the unique-name clash the run reaches without
  faults, and it doubles the states the liveness check must cover.
- **`shard_router`:** `Width = 8`.  Every shard count from 0 to 255 is tried,
  with hashes at 0, small, `2^8 - 1`, `2^8`, above `2^8`, and the top of the
  16-bit range, so the truncation and both word edges occur.
- **`history`:** 3 messages over 3 milliseconds, limits 0, 1 and 2.  Two
  messages can share a millisecond, with a third older one.  That is the
  smallest case where a page boundary falls inside a millisecond.
- **`channels`:** 2 users, 3 ids, one valid name plus the empty one, 2
  instants, so a name clash, a `created_at` tie and every variant occur.
- **`auth`:** 2 users, 2 passwords, `Ttl = 1`, `Leeway = 1`, a clock of 4
  instants.  A token can be used inside its lifetime, inside the leeway, and
  after both.

### Fairness

- **Registry:** strong fairness per task step.  tokio's `RwLock` is FIFO-fair,
  so a writer queued behind readers is served before later readers.
  Readers can therefore not starve it, which weak fairness alone would allow.
- **Fan-out:** weak fairness per tokio task, since tokio polls every ready
  task and every store or broker call returns (`Ok`, error or timeout):
  - `handle_socket` itself: sending `Connected`, and `remove_connection`
    after `select!`;
  - the writer;
  - the reader inside `send_message`;
  - each instance's consumer loop: poll, then process the event.

  No fairness is assumed for client actions: connecting, sending, closing or
  vanishing.
- **Replica:** a request's repository and publish steps once started (an
  awaited call returns), and the consumer's delivery and handling of the
  next record (its loop only awaits `next()` and the handler), are taken
  while enabled.  Every one of these steps is bounded in number, so a single
  `WF_vars(Progress)` over their disjunction forces each of them.  Auto-commit
  and restart get no fairness, since they may never happen.
- `ShardRouter`, `MessageHistory`, `ChannelStore` and `Auth` check safety
  only and assume no fairness.

### Not modelled

- Fan-out consumer restart and rebalance (plan step 9).  Instances use
  `auto.offset.reset = latest` and a restart kills the instance's own
  sessions, so redelivery there reaches no one who saw the event.
- The start-up window of the fan-out consumers.  `main.rs` spawns them and
  starts serving without waiting for the group join, and `latest` means a
  message published before the partition assignment is never read by that
  instance.  The fanout runs start in the steady state, with every consumer
  at the end of its log.  The window depends on broker timing, and spec.md
  section 9 accepts live gaps that clients repair from history.
- The gRPC client and server (`GetUser`) are a read-only fallback with no
  state of their own.
- Configuration loading and router plumbing are pure I/O.
- Argon2 and HMAC are modelled by their verdicts.
- Channel `delete` and message `get_message`/`delete_message` have no caller
  in the inbound adapters.
- chat-service's HTTP auth middleware (`inbound::middleware`) is not in the
  repository.
- See `PROJECT.json` `components` and `hazards` for each part and its reason.
- Most of the source lines no module maps are not behaviour.  The
  `ports.rs` traits are interface declarations.  The domain `events.rs`
  files and the `outbound/events/messages.rs` DTOs copy fields into serde
  structs.  The HTTP `ApiError` mappings and the response DTOs format what a
  model step already decides.  The model keeps an event as the record of
  what it carries, so these conversions add no state.
