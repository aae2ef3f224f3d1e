CONSTANTS
    Clients = {c1, c2}
    Host = Host
    Addresses <- MCAddresses
    Place <- MCPlace
    Ends <- MCEnds
    Datagrams <- MCDatagrams
    MaxInbox = 2
SPECIFICATION FairSpec
INVARIANTS
    TypeOK
    AnswersReachTheirSender
PROPERTIES
    TickComesBack
    DatagramsAreIsolated
    LostWorkIsReported
    KeepsServing
