---------------------------- MODULE ChannelStore ----------------------------
(***************************************************************************)
(* The channel service of chat-service and its PostgreSQL store: the       *)
(* create_channel handler, ChannelService (domain/channel/service.rs) and   *)
(* PostgresChannelRepository (outbound/repositories/channel.rs).           *)
(*                                                                         *)
(* rows is the channels table: one row per channel with its type, name,    *)
(* creator and created_at, and no members or participants, which create    *)
(* does not write.  created keeps, for each stored channel, the Channel    *)
(* value create returned, so reads can be compared with what was written.  *)
(* resp is the result of the last call.                                    *)
(***************************************************************************)
EXTENDS Naturals, Sequences, SequencesExt

CONSTANTS
    Users,          \* user ids
    Ids,            \* ChannelId::new() values (uuid v4, never reused)
    Names,          \* channel names a request may carry; "" is empty
    NoName,         \* the NULL name of a direct channel row
    BadId,          \* a :id path segment that is not a UUID
    MaxTime         \* last created_at instant

VARIABLES
    rows,           \* rows[id]: [type, name, createdBy, at]
    created,        \* created[id]: the Channel create returned
    now,            \* Utc::now(), coarse enough for two creates to tie
    resp            \* [kind, val, status] of the last call

vars == <<rows, created, now, resp>>

Types == {"public", "private", "direct"}

\* A Channel as the service returns it; members and participants are
\* empty for the variants that do not carry them.
Channel(id, type, name, by, members, participants) ==
    [id |-> id, type |-> type, name |-> name, createdBy |-> by,
     members |-> members, participants |-> participants]

\* ChannelName::new without its length == 0 check.
ValidNameUnchecked(n) == TRUE

\* ChannelName::new: empty is rejected; names over 100 bytes are not in Names.
ValidName(n) == n /= ""

\* The unique key channels_name_key.  The DDL is not in the repository;
\* spec.md section 9 says it covers the names of public channels only.
ChannelsNameKeyTaken(c) ==
    c.type = "public" /\ \E id \in DOMAIN rows : rows[id].type = "public" /\ rows[id].name = c.name

\* row_to_channel without its private arm: such rows fall to the default.
RowToChannelNoPrivate(id) ==
    LET r == rows[id] IN
    CASE r.type = "direct" -> Channel(id, "direct", NoName, r.createdBy, {}, <<r.createdBy, r.createdBy>>)
      [] OTHER             -> Channel(id, "public", r.name, r.createdBy, {}, <<>>)

\* row_to_channel: private members come back empty and direct participants
\* as [created_by, created_by] (placeholders in the code); an unknown type
\* reads as public, but create writes none.
RowToChannel(id) ==
    LET r == rows[id] IN
    CASE r.type = "private" -> Channel(id, "private", r.name, r.createdBy, {}, <<>>)
      [] r.type = "direct"  -> Channel(id, "direct", NoName, r.createdBy, {}, <<r.createdBy, r.createdBy>>)
      [] OTHER              -> Channel(id, "public", r.name, r.createdBy, {}, <<>>)

\* ORDER BY created_at DESC over the rows S: ties come back in any order.
NewestFirst(S) ==
    {s \in SetToSeqs(S) : \A k \in 1..Len(s) - 1 : rows[s[k]].at >= rows[s[k + 1]].at}

\* From<ChannelError> for ApiError (the errors these calls can raise).
FromChannelError(e) ==
    CASE e = "NotFound"          -> "NotFound"
      [] e = "NameAlreadyExists" -> "UnprocessableEntity"

\* IntoResponse for ApiError.
HttpStatus ==
    [BadRequest |-> 400, NotFound |-> 404, UnprocessableEntity |-> 422,
     InternalServerError |-> 500, ServiceUnavailable |-> 503]

\* An answer: IntoResponse for ApiSuccess writes 200 whatever status the
\* handler passed to ApiSuccess::new (create_channel passes CREATED).
Ok(kind, val) == [kind |-> kind, val |-> val, status |-> 200]

\* An ApiError answer.
Err(apiError, val) == [kind |-> apiError, val |-> val, status |-> HttpStatus[apiError]]

\* The channels a request of user u asks for: Public and Private carry a
\* name, Private the members, Direct the participant.
Requests ==
    [type : {"public"}, name : Names, members : {{}}, peer : {NoName}]
    \cup [type : {"private"}, name : Names, members : SUBSET Users, peer : {NoName}]
    \cup [type : {"direct"}, name : {NoName}, members : {{}}, peer : Users]

Init ==
    /\ rows = [id \in {} |-> {}]
    /\ created = [id \in {} |-> {}]
    /\ now = 0
    /\ resp = [kind |-> "none", val |-> {}, status |-> 0]

\* The clock moves on between calls.
Tick ==
    /\ now < MaxTime
    /\ now' = now + 1
    /\ UNCHANGED <<rows, created, resp>>

\* The create_channel handler's conversion of the request body into a
\* CreateChannelCommand: ChannelName::new for the named variants, 422 on
\* failure (members and participant are well-formed ids here).
ValidRequest(req) == req.type = "direct" \/ ValidName(req.name)

\* create_channel handler, ChannelService::create_channel and the INSERT.
CreateChannel(u) ==
    \E req \in Requests :
        IF ~ValidRequest(req)
        THEN /\ resp' = Err("UnprocessableEntity", req.name)
             /\ UNCHANGED <<rows, created, now>>
        ELSE \E id \in Ids \ DOMAIN rows :
               LET c == Channel(id, req.type, req.name, u, req.members,
                                IF req.type = "direct" THEN <<u, req.peer>> ELSE <<>>)
               IN  IF ChannelsNameKeyTaken(c)
                   THEN /\ resp' = Err(FromChannelError("NameAlreadyExists"), c.name)
                        /\ UNCHANGED <<rows, created, now>>
                   ELSE /\ rows' = rows @@ (id :> [type |-> c.type, name |-> c.name,
                                                   createdBy |-> u, at |-> now])
                        /\ created' = created @@ (id :> c)
                        /\ resp' = Ok("Ok", c)
                        /\ UNCHANGED now

\* get_channel: ChannelId::from_string (400 on failure), then find_by_id,
\* NotFound when there is no row.
GetChannel ==
    \E id \in Ids \cup {BadId} :
        /\ resp' = CASE id = BadId          -> Err("BadRequest", id)
                      [] id \in DOMAIN rows -> Ok("Ok", RowToChannel(id))
                      [] OTHER              -> Err(FromChannelError("NotFound"), id)
        /\ UNCHANGED <<rows, created, now>>

\* list_public_channels: WHERE channel_type = 'public' ORDER BY created_at DESC.
FindPublicChannels ==
    \E s \in NewestFirst({id \in DOMAIN rows : rows[id].type = "public"}) :
        /\ resp' = Ok("List", [k \in 1..Len(s) |-> RowToChannel(s[k])])
        /\ UNCHANGED <<rows, created, now>>

\* list_user_channels: WHERE created_by = $1 ORDER BY created_at DESC.
FindByUser(u) ==
    \E s \in NewestFirst({id \in DOMAIN rows : rows[id].createdBy = u}) :
        /\ resp' = Ok("UserList", [user |-> u,
                       list |-> [k \in 1..Len(s) |-> RowToChannel(s[k])]])
        /\ UNCHANGED <<rows, created, now>>

Next ==
    \/ Tick
    \/ \E u \in Users : CreateChannel(u) \/ FindByUser(u)
    \/ GetChannel \/ FindPublicChannels

Spec == Init /\ [][Next]_vars

(***************************************************************************)
(* Properties.                                                             *)
(***************************************************************************)
TypeOK ==
    /\ DOMAIN rows = DOMAIN created /\ DOMAIN rows \subseteq Ids
    /\ \A id \in DOMAIN rows :
          /\ rows[id].type \in Types /\ rows[id].createdBy \in Users
          /\ rows[id].at \in 0..MaxTime
          /\ (rows[id].type = "direct") = (rows[id].name = NoName)
          /\ rows[id].name /= ""
    /\ now \in 0..MaxTime

\* A channel read back by get_channel has the id, type, name and creator
\* create_channel stored: row_to_channel maps every channel_type the
\* create path writes back to its own variant; and GET /api/channels/:id
\* answers 404 only for a well-formed id no create ever stored (spec.md
\* section 5: "channel or 404").
GetReturnsCreated ==
    /\ resp.kind = "Ok" =>
          LET c == created[resp.val.id] IN
          /\ resp.val.type = c.type /\ resp.val.name = c.name
          /\ resp.val.createdBy = c.createdBy
    /\ resp.status = 404 => resp.val \in Ids \ DOMAIN created

=============================================================================
