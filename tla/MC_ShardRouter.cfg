\* Every configuration and every hash of the bounded sets.
\* A configuration with no sharder, or with every hash routed, stops.
CONSTANTS
    Width <- MCWidth
    ShardCounts <- MCShardCounts
    TopicPrefixes <- MCPrefixes
    Hashes <- MCHashes
SPECIFICATION Spec
CHECK_DEADLOCK FALSE
INVARIANT NewAcceptsExactlyValid
INVARIANT RoutedTopicIsSubscribed
