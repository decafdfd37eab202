---------------------------- MODULE RegistrySpec ----------------------------
(***************************************************************************)
(* What the connection registry of one chat-service instance promises to  *)
(* its users (the WebSocket handler and the fan-out consumer).  Each       *)
(* connection id is registered at most once and unregistered at most     *)
(* once (handle_socket mints a fresh Uuid per socket); a broadcast        *)
(* appends a frame, in one indivisible step, to the outbound queue of     *)
(* every connection registered in the channel at that instant, and to no  *)
(* other.                                                                  *)
(***************************************************************************)
EXTENDS Naturals, Sequences

CONSTANTS
    Conns,          \* connection ids
    Channels,       \* channel ids
    ChannelOf,      \* the channel each connection id was opened on
    MaxBroadcasts   \* bound on the number of broadcast frames

VARIABLES
    status,         \* "new", "live" (reached by broadcasts) or "closed"
    outbox,         \* frames enqueued on each connection's mpsc sender
    sent            \* number of frames broadcast so far (frame ids 1..sent)

vars == <<status, outbox, sent>>

Init ==
    /\ status = [c \in Conns |-> "new"]
    /\ outbox = [c \in Conns |-> <<>>]
    /\ sent = 0

Register(c) ==
    /\ status[c] = "new"
    /\ status' = [status EXCEPT ![c] = "live"]
    /\ UNCHANGED <<outbox, sent>>

Unregister(c) ==
    /\ status[c] = "live"
    /\ status' = [status EXCEPT ![c] = "closed"]
    /\ UNCHANGED <<outbox, sent>>

\* One frame, numbered sent + 1, reaches exactly the connections live in
\* channel ch at the instant of the broadcast.
Broadcast(ch) ==
    /\ sent < MaxBroadcasts
    /\ sent' = sent + 1
    /\ outbox' = [c \in Conns |->
                    IF status[c] = "live" /\ ChannelOf[c] = ch
                    THEN Append(outbox[c], sent + 1)
                    ELSE outbox[c]]
    /\ UNCHANGED status

Next ==
    \/ \E c \in Conns : Register(c) \/ Unregister(c)
    \/ \E ch \in Channels : Broadcast(ch)

Spec == Init /\ [][Next]_vars

=============================================================================
