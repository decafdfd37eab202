\* Distinct consumer groups, single-partition shard topics.
\* The server waits for clients once they have all gone: no deadlock check.
CONSTANTS
    Instances <- MCInstances
    Conns <- MCConns
    Channels <- MCChannels
    InstanceOf <- MCInstanceOf
    ChannelOf <- MCChannelOf
    ShardOf <- MCShardOf
    GroupOf <- DistinctGroups
    NumShards = 1
    Partitions = 1
    MaxMsgs = 2
SPECIFICATION Spec
CHECK_DEADLOCK FALSE
INVARIANT TypeOK
INVARIANT SenderOrder
INVARIANT RepliesToSenderInOrder
PROPERTY ImplementsChannelOrder
PROPERTY FanOutReachesAudience
