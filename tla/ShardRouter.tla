----------------------------- MODULE ShardRouter -----------------------------
(***************************************************************************)
(* TopicSharder (chat-service outbound/events/topic.rs): the validation of *)
(* new, the shard index of a channel's 64-bit hash, and the list of shard   *)
(* topics the consumers subscribe to.  A topic is the pair <<prefix, i>>    *)
(* that format!("{}.{}", prefix, i) spells.                                *)
(*                                                                         *)
(* The state is one configuration of the router and the hashes routed      *)
(* with it, so that TLC checks the operators on every input of the bounded *)
(* sets the constants give.  Word widths are scaled down to what TLC's     *)
(* integers hold: u32 is a Width-bit word and the u64 hash a 2*Width-bit    *)
(* one, which keeps the truncation of the hash and the edges of both words. *)
(***************************************************************************)
EXTENDS Naturals, Sequences, SequencesExt, Bitwise

CONSTANTS
    Width,          \* bits of the u32 word (32 in the code)
    ShardCounts,    \* num_shards values tried (u32)
    TopicPrefixes,  \* topic_prefix values tried; "" is the empty prefix
    Hashes          \* DefaultHasher::finish values tried (u64)

U32 == 2^Width

ASSUME ShardCounts \subseteq 0..U32 - 1 /\ Hashes \subseteq 0..U32 * U32 - 1

VARIABLES
    numShards,      \* the num_shards argument of new
    prefix,         \* the topic_prefix argument of new
    sharder,        \* result of new: err is "Ok" or the ShardingError
    routed          \* routed[h]: topic get_shard_for_channel gave hash h

vars == <<numShards, prefix, sharder, routed>>

\* u32::is_power_of_two.
IsPowerOfTwo(n) == n /= 0 /\ n & (n - 1) = 0

Result(err, n, p) == [err |-> err, numShards |-> n, prefix |-> p]

\* new without the is_power_of_two check.
NewNoPowerCheck(n, p) ==
    CASE n = 0  -> Result("ZeroShards", n, p)
      [] p = "" -> Result("EmptyTopicPrefix", n, p)
      [] OTHER  -> Result("Ok", n, p)

\* TopicSharder::new: the checks in the order the code makes them.
New(n, p) ==
    CASE n = 0               -> Result("ZeroShards", n, p)
      [] ~IsPowerOfTwo(n)    -> Result("NotPowerOfTwo", n, p)
      [] p = ""              -> Result("EmptyTopicPrefix", n, p)
      [] OTHER               -> Result("Ok", n, p)

\* compute_shard_index masking with num_shards instead of num_shards - 1.
ComputeShardIndexOffByOne(s, h) == (h % U32) & s.numShards

\* compute_shard_index: (hash as u32) & (num_shards - 1).
ComputeShardIndex(s, h) == (h % U32) & (s.numShards - 1)

\* get_shard_for_channel.
GetShardForChannel(s, h) == <<s.prefix, ComputeShardIndex(s, h)>>

\* get_all_shards: prefix.0 .. prefix.(num_shards - 1), in order.
GetAllShards(s) == [k \in 1..s.numShards |-> <<s.prefix, k - 1>>]

Init ==
    /\ numShards \in ShardCounts
    /\ prefix \in TopicPrefixes
    /\ sharder = Result("none", 0, "")
    /\ routed = [h \in {} |-> <<>>]

\* The service starts: KafkaEventProducer::new / KafkaEventConsumer::new
\* call TopicSharder::new(config.kafka.num_shards, "chat.messages").
Create ==
    /\ sharder.err = "none"
    /\ sharder' = New(numShards, prefix)
    /\ UNCHANGED <<numShards, prefix, routed>>

\* publish_event routes a channel whose hash is h.
Route ==
    /\ sharder.err = "Ok"
    /\ \E h \in Hashes \ DOMAIN routed :
          routed' = routed @@ (h :> GetShardForChannel(sharder, h))
    /\ UNCHANGED <<numShards, prefix, sharder>>

Next == Create \/ Route

Spec == Init /\ [][Next]_vars

(***************************************************************************)
(* Properties, against reference definitions.                              *)
(***************************************************************************)
\* Reference: the powers of two that fit in a u32.
PowersOfTwo == {2^k : k \in 0..Width - 1}

\* new accepts exactly the non-empty prefixes with a power-of-two shard
\* count, and reports a zero count before anything else.
NewAcceptsExactlyValid ==
    sharder.err /= "none" =>
        /\ sharder.err = "Ok" <=> (numShards \in PowersOfTwo /\ prefix /= "")
        /\ numShards = 0 => sharder.err = "ZeroShards"

\* Every topic a channel is routed to is the one (hash mod 2^32) mod
\* num_shards names, and is among the topics get_all_shards returns, so a
\* consumer built with the same configuration is subscribed to it.
RoutedTopicIsSubscribed ==
    \A h \in DOMAIN routed :
        /\ routed[h] = <<prefix, (h % U32) % numShards>>
        /\ routed[h] \in ToSet(GetAllShards(sharder))

=============================================================================
