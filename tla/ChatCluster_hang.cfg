SPECIFICATION LiveSpec
CONSTANTS
    chat_server1 = chat_server1
    chat_server2 = chat_server2
    Servers <- MCServers
    Peer <- MCPeer
    Users = {u1, u2}
    NoServer = noserver
    NoCall = nocall
    FreshUids = {}
    MaxSends = 2
    Stoppable <- MCStoppable
    MaxStops = 0
PROPERTY CallEventuallyReturns
CHECK_DEADLOCK FALSE
