-------------------------------- MODULE Auth --------------------------------
(***************************************************************************)
(* Bearer tokens across the two services: user-service's login            *)
(* (authenticate handler, Claims::for_user, Authenticator::authenticate)   *)
(* mints them; its auth middleware and chat-service's WebSocket upgrade    *)
(* accept them through Authenticator::validate_token (JwtHandler::decode); *)
(* the protected PATCH and DELETE /api/users/:id change the password or    *)
(* remove the user.                                                        *)
(*                                                                         *)
(* A token is its claims and the key that signed it: "secret" for the      *)
(* shared secret both services are configured with, "other" for anyone     *)
(* else.  An argon2 hash is modelled by the password it verifies; the salt *)
(* changes no verdict.  Time is in abstract units: Ttl stands for          *)
(* jwt_expiration_hours and Leeway for jsonwebtoken's default 60 s.        *)
(***************************************************************************)
EXTENDS Naturals, FiniteSets

CONSTANTS
    Users,          \* user ids, one username each
    Passwords,      \* passwords a client may send
    Ttl,            \* token lifetime
    Leeway,         \* Validation::leeway
    MaxTime         \* last instant of the clock

VARIABLES
    account,        \* account[u]: [st |-> "none" | "live" | "deleted", pw]
    now,            \* Utc::now() / get_current_timestamp()
    issued,         \* claims login has signed
    last            \* [tok, outcome, at] of the last validated request

vars == <<account, now, issued, last>>

Token(sub, iat, exp, key) == [sub |-> sub, iat |-> iat, exp |-> exp, key |-> key]

\* Tokens a client can present: those login gave out, and tokens for any
\* subject signed with a key other than the secret.
Presentable ==
    {Token(t.sub, t.iat, t.exp, "secret") : t \in issued}
    \cup {Token(u, 0, MaxTime + Ttl, "other") : u \in Users}

\* JwtHandler::decode with the signature check turned off, as
\* decode_unverified does.
DecodeUnverified(tok) == tok.exp + Leeway >= now

\* JwtHandler::decode: HS256 signature with the shared secret, then exp
\* unless it is older than now - leeway (jsonwebtoken's rule; exp is not
\* required, but Claims::for_user always sets it).
Decode(tok) == tok.key = "secret" /\ tok.exp + Leeway >= now

\* The middleware and the upgrade handler after decode: sub must be present
\* and parse as a UserId, which every presentable sub does.
ValidateToken(tok) == Decode(tok) /\ tok.sub \in Users

\* PasswordHasher::verify against the stored hash.
Verify(u, p) == account[u].pw = p

Init ==
    /\ account = [u \in Users |-> [st |-> "none", pw |-> CHOOSE p \in Passwords : TRUE]]
    /\ now = 0
    /\ issued = {}
    /\ last = [tok |-> Token(CHOOSE u \in Users : TRUE, 0, 0, "none"), outcome |-> "none", at |-> 0]

Tick ==
    /\ now < MaxTime
    /\ now' = now + 1
    /\ UNCHANGED <<account, issued, last>>

\* POST /api/users: create_user hashes the password and inserts the row.
CreateUser(u) ==
    /\ account[u].st = "none"
    /\ \E p \in Passwords : account' = [account EXCEPT ![u] = [st |-> "live", pw |-> p]]
    /\ UNCHANGED <<now, issued, last>>

\* Claims::for_user(id, username, expiration_hours): sub, iat = now and
\* exp = now + hours (username goes to extra, which no check reads).
ForUser(u, ttl) == [sub |-> u, iat |-> now, exp |-> now + ttl]

\* Authenticator::authenticate: PasswordHasher::verify against the stored
\* hash, InvalidCredentials when it fails, else JwtHandler::encode signs
\* the claims with the secret (HS256 encoding of these claims cannot fail).
Authenticate(u, p, claims) ==
    /\ Verify(u, p)
    /\ issued' = issued \cup {claims}

\* Login signing an exp of ttl alone instead of now + ttl.
LoginRelativeExp(u, p) ==
    /\ account[u].st = "live"
    /\ Authenticate(u, p, [ForUser(u, Ttl) EXCEPT !.exp = Ttl])
    /\ UNCHANGED <<account, now, last>>

\* POST /api/auth/login: Username::new and get_user_by_username (a bad or
\* unknown name is 401), Claims::for_user with jwt_expiration_hours, then
\* authenticate.  Every failure is 401 and changes nothing.
Login(u, p) ==
    /\ account[u].st = "live"
    /\ Authenticate(u, p, ForUser(u, Ttl))
    /\ UNCHANGED <<account, now, last>>

\* A protected request: the middleware or the upgrade handler validates
\* the token; on success op runs, on failure the answer is 401.
Protected(tok, op) ==
    IF ValidateToken(tok)
    THEN /\ op
         /\ last' = [tok |-> tok, outcome |-> "ok", at |-> now]
    ELSE /\ last' = [tok |-> tok, outcome |-> "Unauthorized", at |-> now]
         /\ UNCHANGED account

\* GET /api/users/:id or GET /ws/channels/:id: nothing changes but last.
Access(tok) == Protected(tok, UNCHANGED account) /\ UNCHANGED <<now, issued>>

\* PATCH /api/users/:id with a password: update_user re-hashes it; the
\* handler does not compare :id with the token's subject.
UpdatePassword(tok, u, p) ==
    /\ Protected(tok, IF account[u].st = "live"
                      THEN account' = [account EXCEPT ![u].pw = p]
                      ELSE UNCHANGED account)
    /\ UNCHANGED <<now, issued>>

\* DELETE /api/users/:id: the row goes; a missing row is NotFound.
DeleteUser(tok, u) ==
    /\ Protected(tok, IF account[u].st = "live"
                      THEN account' = [account EXCEPT ![u].st = "deleted"]
                      ELSE UNCHANGED account)
    /\ UNCHANGED <<now, issued>>

Next ==
    \/ Tick
    \/ \E u \in Users : CreateUser(u) \/ \E p \in Passwords : Login(u, p)
    \/ \E tok \in Presentable :
          \/ Access(tok)
          \/ \E u \in Users : DeleteUser(tok, u) \/ \E p \in Passwords : UpdatePassword(tok, u, p)

Spec == Init /\ [][Next]_vars

(***************************************************************************)
(* Properties.                                                             *)
(***************************************************************************)
TypeOK ==
    /\ \A u \in Users : account[u].st \in {"none", "live", "deleted"} /\ account[u].pw \in Passwords
    /\ now \in 0..MaxTime
    /\ \A t \in issued : t.sub \in Users /\ t.iat \in 0..now /\ t.exp = t.iat + Ttl
    /\ last.outcome \in {"none", "ok", "Unauthorized"}

\* A request the middleware or the upgrade handler lets through carries a
\* token that a login of the same subject signed, at most Ttl + Leeway
\* earlier: no other key, and no token past its exp and the leeway, gets
\* in, whatever happened to the account since.
AcceptedWithinLifetime ==
    last.outcome = "ok" =>
        \E t \in issued :
            /\ t.sub = last.tok.sub
            /\ t.iat <= last.at /\ last.at <= t.iat + Ttl + Leeway

=============================================================================
