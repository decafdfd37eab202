---------------------------- MODULE MC_ChatFanOut ----------------------------
(***************************************************************************)
(* Two chat-service instances, one session on each, both in channel ch1.  *)
(* A message published while both are registered must reach both           *)
(* instances' consumers; each consumer's group decides whether it does.    *)
(***************************************************************************)
EXTENDS ChatFanOut

MCInstances == {"i1", "i2"}
MCConns == {"a", "b"}
MCChannels == {"ch1"}
MCInstanceOf == [c \in MCConns |-> IF c = "a" THEN "i1" ELSE "i2"]
MCChannelOf == [c \in MCConns |-> "ch1"]
\* Every instance hashes ch1 to shard 0.
MCShardOf == [i \in MCInstances |-> [ch \in MCChannels |-> 0]]

\* Each instance deployed with its own kafka.group_id.
DistinctGroups == [i \in MCInstances |-> i]

\* All instances deployed with the default kafka.group_id "chat-service".
SharedGroup == [i \in MCInstances |-> "chat-service"]

=============================================================================
