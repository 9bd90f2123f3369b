SPECIFICATION LiveSpec
CONSTANTS
    chat_server1 = chat_server1
    chat_server2 = chat_server2
    Servers <- MCServers
    Peer <- MCPeer
    Users = {u1, u2}
    NoServer = noserver
    NoCall = nocall
    FreshUids = {}
    MaxSends = 1
    Stoppable <- MCStoppable
    MaxStops = 1
PROPERTY SignalledServerExits
CHECK_DEADLOCK FALSE
