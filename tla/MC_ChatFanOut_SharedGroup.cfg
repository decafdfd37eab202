\* All instances configured with the same kafka.group_id (the default).
\* The server waits for clients once they have all gone: no deadlock check.
CONSTANTS
    Instances <- MCInstances
    Conns <- MCConns
    Channels <- MCChannels
    InstanceOf <- MCInstanceOf
    ChannelOf <- MCChannelOf
    ShardOf <- MCShardOf
    GroupOf <- SharedGroup
    NumShards = 1
    Partitions = 1
    MaxMsgs = 2
SPECIFICATION Spec
CHECK_DEADLOCK FALSE
PROPERTY FanOutReachesAudience
