--------------------------- MODULE MessageHistory ---------------------------
(***************************************************************************)
(* Channel history in chat-service: send_message writing a message to the  *)
(* two Cassandra tables (domain/message/service.rs, outbound/repositories/ *)
(* message.rs create), and GET /api/channels/:id/messages reading it back  *)
(* (get_channel_messages handler, find_by_channel).                        *)
(*                                                                         *)
(* One channel is modelled: find_by_channel reads one partition.  Message  *)
(* ids are 1..MaxMsgs in the order MessageId::new_time_based minted them;  *)
(* a timeuuid's 100ns time keeps that order, and idMs is its millisecond.  *)
(* The stored timestamp column is Utc::now() read after the id, truncated  *)
(* to the millisecond by the Cassandra timestamp type, so it is idMs or a  *)
(* millisecond later.  A paging client passes back, as before, the         *)
(* timestamp of the oldest message of the page it got, as in spec §8 C.    *)
(***************************************************************************)
EXTENDS Naturals, Sequences, SequencesExt

CONSTANTS
    MaxMsgs,        \* messages sent to the channel
    MaxMs,          \* last millisecond of the wall clock
    Limits,         \* limit query values tried (i32)
    NoBefore,       \* before absent
    Unparsable      \* a before string parse_from_rfc3339 rejects

VARIABLES
    now,            \* wall clock, in milliseconds
    msgs,           \* msgs[id]: [idMs, ts] of the id-th minted message
    status,         \* status[id]: "minted", "channel", "ok" or "error"
    byChannel,      \* ids in messages_by_channel
    byUser,         \* ids in messages_by_user
    scanned,        \* byChannel as the last query read it
    before,         \* before the last query was given (after parsing)
    limitUsed,      \* limit the last query was given
    page,           \* ids the last query returned, in order
    result,         \* "none", "Ok" or "DatabaseError"
    snapshot,       \* byChannel when the client fetched its first page
    seen            \* ids the client's pages returned since then

vars == <<now, msgs, status, byChannel, byUser, scanned, before, limitUsed,
          page, result, snapshot, seen>>

sendVars == <<now, msgs, status, byChannel, byUser>>
readVars == <<scanned, before, limitUsed, page, result, snapshot, seen>>

\* The filter as message_id < minTimeuuid(?), the least timeuuid of t.
MinTimeuuidAdmits(id, t) == msgs[id].idMs < t

\* The filter message_id < maxTimeuuid(?): maxTimeuuid(t) is the greatest
\* timeuuid of millisecond t, so it admits every id of that millisecond.
MaxTimeuuidAdmits(id, t) == msgs[id].idMs <= t

\* find_by_channel over a table clustered in ascending order.
FindByChannelAscending(limit, b) ==
    LET asc  == SetToSortSeq(byChannel, <)
        rows == IF b = NoBefore THEN asc
                ELSE SelectSeq(asc, LAMBDA id : MaxTimeuuidAdmits(id, b))
    IN  SubSeq(rows, 1, IF limit < Len(rows) THEN limit ELSE Len(rows))

\* find_by_channel: the partition in clustering order (message_id DESC),
\* filtered when before is given, cut at LIMIT.  LIMIT must be positive.
FindByChannel(limit, b) ==
    LET desc == SetToSortSeq(byChannel, >)
        rows == IF b = NoBefore THEN desc
                ELSE SelectSeq(desc, LAMBDA id : MaxTimeuuidAdmits(id, b))
    IN  SubSeq(rows, 1, IF limit < Len(rows) THEN limit ELSE Len(rows))

\* get_channel_messages handler and service: an unparsable before is
\* dropped by .ok(), and a non-positive limit fails in the store.
Query(limit, b) ==
    /\ before' = b /\ limitUsed' = limit
    /\ scanned' = byChannel
    /\ IF limit > 0
         THEN page' = FindByChannel(limit, b) /\ result' = "Ok"
         ELSE page' = <<>> /\ result' = "DatabaseError"

Parse(raw) == IF raw = Unparsable THEN NoBefore ELSE raw

Init ==
    /\ now = 0
    /\ msgs = <<>>
    /\ status = <<>>
    /\ byChannel = {} /\ byUser = {}
    /\ scanned = {} /\ before = NoBefore /\ limitUsed = 0
    /\ page = <<>> /\ result = "none"
    /\ snapshot = {} /\ seen = {}

\* send_message once the channel is found: new_time_based, then Utc::now().
Mint ==
    /\ Len(msgs) < MaxMsgs
    /\ \E ts \in {now, now + 1} \cap 0..MaxMs :
          /\ msgs' = Append(msgs, [idMs |-> now, ts |-> ts])
          /\ now' = ts
    /\ status' = Append(status, "minted")
    /\ UNCHANGED <<byChannel, byUser, readVars>>

\* The wall clock advances.
Tick ==
    /\ now < MaxMs
    /\ now' = now + 1
    /\ UNCHANGED <<msgs, status, byChannel, byUser, readVars>>

\* create: INSERT INTO messages_by_channel, then INSERT INTO
\* messages_by_user; either failing returns DatabaseError at once.
InsertByChannel(id) ==
    /\ status[id] = "minted"
    /\ \/ byChannel' = byChannel \cup {id} /\ status' = [status EXCEPT ![id] = "channel"]
       \/ byChannel' = byChannel /\ status' = [status EXCEPT ![id] = "error"]
    /\ UNCHANGED <<now, msgs, byUser, readVars>>

\* create issuing the messages_by_user insert without waiting for the
\* messages_by_channel one.
InsertByUserConcurrent(id) ==
    /\ status[id] \in {"minted", "channel"}
    /\ \/ byUser' = byUser \cup {id} /\ status' = [status EXCEPT ![id] = "ok"]
       \/ byUser' = byUser /\ status' = [status EXCEPT ![id] = "error"]
    /\ UNCHANGED <<now, msgs, byChannel, readVars>>

InsertByUser(id) ==
    /\ status[id] = "channel"
    /\ \/ byUser' = byUser \cup {id} /\ status' = [status EXCEPT ![id] = "ok"]
       \/ byUser' = byUser /\ status' = [status EXCEPT ![id] = "error"]
    /\ UNCHANGED <<now, msgs, byChannel, readVars>>

\* The client fetches the newest page, before absent or unparsable.
FetchFirst ==
    \E limit \in Limits, raw \in {NoBefore, Unparsable} :
        /\ Query(limit, Parse(raw))
        /\ snapshot' = byChannel
        /\ seen' = ToSet(page')
        /\ UNCHANGED sendVars

\* The client fetches the next page, before = the oldest timestamp it got.
FetchNext ==
    /\ result = "Ok" /\ page /= <<>>
    /\ \E limit \in Limits :
          /\ Query(limit, msgs[page[Len(page)]].ts)
          /\ seen' = seen \cup ToSet(page')
          /\ UNCHANGED snapshot
    /\ UNCHANGED sendVars

Next ==
    \/ Mint \/ Tick
    \/ \E id \in DOMAIN status : InsertByChannel(id) \/ InsertByUser(id)
    \/ FetchFirst \/ FetchNext

Spec == Init /\ [][Next]_vars

(***************************************************************************)
(* Properties.                                                             *)
(***************************************************************************)
TypeOK ==
    /\ now \in 0..MaxMs
    /\ Len(msgs) <= MaxMsgs /\ DOMAIN status = DOMAIN msgs
    /\ \A id \in DOMAIN msgs : msgs[id].idMs <= msgs[id].ts
    /\ byUser \subseteq byChannel /\ byChannel \subseteq DOMAIN msgs
    /\ result \in {"none", "Ok", "DatabaseError"}

\* Rows of messages_by_channel the filter for before b lets through.
Admitted(b) == {id \in scanned : b = NoBefore \/ msgs[id].idMs <= b}

\* find_by_channel returns the newest min(limit, n) admitted messages,
\* newest first, and skips no admitted message newer than its last one.
NewestFirstWithinLimit ==
    result = "Ok" =>
        /\ Len(page) = IF limitUsed < Cardinality(Admitted(before))
                        THEN limitUsed ELSE Cardinality(Admitted(before))
        /\ \A k \in 1..Len(page) - 1 : page[k] > page[k + 1]
        /\ \A id \in Admitted(before) :
              page /= <<>> /\ id >= page[Len(page)] => id \in ToSet(page)

\* Paging with before = the oldest timestamp of the previous page never
\* skips a message: every message stored when paging began and lying
\* between the newest and the oldest message seen has been seen.
PagingNeverSkips ==
    \A id \in snapshot :
        (\E a, b \in seen : a <= id /\ id <= b) => id \in seen

\* Spec §4.7: a page fetched with before holds only messages strictly
\* older than before.
StrictlyOlderThanBefore ==
    result = "Ok" /\ before /= NoBefore =>
        \A k \in 1..Len(page) : msgs[page[k]].ts < before

=============================================================================
