\* Shard topics with two partitions; records keyed by message id.
\* The server waits for clients once they have all gone: no deadlock check.
CONSTANTS
    Instances <- MCInstances
    Conns <- MCConns
    Channels <- MCChannels
    InstanceOf <- MCInstanceOf
    ChannelOf <- MCChannelOf
    ShardOf <- MCShardOf
    GroupOf <- DistinctGroups
    NumShards = 1
    Partitions = 2
    MaxMsgs = 2
SPECIFICATION Spec
CHECK_DEADLOCK FALSE
INVARIANT SenderOrder
