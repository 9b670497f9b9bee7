SPECIFICATION FairSpec
CONSTANTS
    B = 8
    Hellos <- AgentHellos
    Others <- Mixed
    MaxSays = 1
    Chunks = {23, 60}
    BufferSize = 200
INVARIANTS
    TypeOK
    NeverRefused
PROPERTIES
    ImplementsConversation
    AllHeard
    VersionAcknowledged
\* Everything said and heard: the nodes wait for more.
CHECK_DEADLOCK FALSE
