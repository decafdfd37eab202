---------------------------- MODULE ChannelOrder ----------------------------
(***************************************************************************)
(* What the live message path of chat-service promises (spec.md sections  *)
(* 1 and 6), with no sessions, tasks, tables or brokers: a message is      *)
(* stored in its channel, then enters the channel's single order, and     *)
(* each client of the channel is handed some of the ordered messages, in   *)
(* that order, each at most once.  Which messages a client gets is left   *)
(* open (it may join late, leave early, or miss a dropped event); that it *)
(* never gets one out of order, twice, or before it is durable is the     *)
(* promise.  ChatFanOut is shown to implement this specification.         *)
(***************************************************************************)
EXTENDS Naturals, Sequences, SequencesExt

CONSTANTS
    Conns,          \* clients
    Channels,       \* channels
    ChannelOf,      \* the channel each client is subscribed to
    Msgs            \* message ids

VARIABLES
    stored,         \* stored[ch]: messages durably written to channel ch
    order,          \* order[ch]: ch's messages in their one delivery order
    delivered       \* delivered[c]: messages handed to client c, in order

vars == <<stored, order, delivered>>

\* Position of m in the order of channel ch.
PosIn(ch, m) == SelectInSeq(order[ch], LAMBDA x : x = m)

Init ==
    /\ stored = [ch \in Channels |-> {}]
    /\ order = [ch \in Channels |-> <<>>]
    /\ delivered = [c \in Conns |-> <<>>]

\* The message becomes durable in its channel.
Store(ch, m) ==
    /\ m \notin stored[ch]
    /\ stored' = [stored EXCEPT ![ch] = @ \cup {m}]
    /\ UNCHANGED <<order, delivered>>

\* A stored message takes the next place in its channel's order.
Sequence(ch, m) ==
    /\ m \in stored[ch]
    /\ m \notin ToSet(order[ch])
    /\ order' = [order EXCEPT ![ch] = Append(@, m)]
    /\ UNCHANGED <<stored, delivered>>

\* A client is handed an ordered message of its channel that comes after
\* every message it has been handed already.
Deliver(c, m) ==
    LET ch == ChannelOf[c] IN
    /\ m \in ToSet(order[ch])
    /\ \A x \in ToSet(delivered[c]) : PosIn(ch, x) < PosIn(ch, m)
    /\ delivered' = [delivered EXCEPT ![c] = Append(@, m)]
    /\ UNCHANGED <<stored, order>>

Next ==
    \E m \in Msgs :
        \/ \E ch \in Channels : Store(ch, m) \/ Sequence(ch, m)
        \/ \E c \in Conns : Deliver(c, m)

Spec == Init /\ [][Next]_vars

=============================================================================
