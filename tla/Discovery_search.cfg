CONSTANTS
    Kinds = {"speaker", "nameless_speaker", "phone", "misfit"}
    Capacity = 2
    MaxResults = 3
SPECIFICATION FairSpec
INVARIANTS
    InOrder
    FirstA2dpFound
    ChannelWhileInquiring
    IInv
PROPERTIES
    SearchEnds
    ChannelDropped
    ImplementsSearch
\* A panic, or the connection, ends the search.
CHECK_DEADLOCK FALSE
