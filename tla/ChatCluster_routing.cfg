SPECIFICATION LiveSpec
CONSTANTS
    chat_server1 = chat_server1
    chat_server2 = chat_server2
    Servers <- MCServers
    Peer <- MCPeer
    Users = {u1, u2}
    NoServer = noserver
    NoCall = nocall
    FreshUids = {u1}
    MaxSends = 2
    Stoppable <- MCStoppable
    MaxStops = 1
INVARIANTS
    TypeOK
    InOrderAtMostOnce
PROPERTIES
    SuccessIsHandedOver
    HangsOnlyInCircularWait
CHECK_DEADLOCK FALSE
