CONSTANTS
    Conns <- MCConns
    Channels <- MCChannels
    ChannelOf <- MCChannelOf
    Consumer = Consumer
    NoTask = NoTask
    MaxBroadcasts = 2

SPECIFICATION Spec

\* Every session eventually removes itself and the consumer's broadcasts are
\* bounded: the final state, with all sessions closed, has no successor.
CHECK_DEADLOCK FALSE

INVARIANT TypeOK
PROPERTY ImplementsRegistrySpec
PROPERTY CallsReturn
