--------------------------- MODULE MCChatCluster ---------------------------
(* ChatCluster with two servers that are each other's peer.                *)
EXTENDS ChatCluster

CONSTANTS chat_server1, chat_server2

MCServers == {chat_server1, chat_server2}
MCPeer == [n \in MCServers |-> IF n = chat_server1 THEN chat_server2 ELSE chat_server1]
\* With one stop in a behaviour, which server it hits makes no difference.
MCStoppable == {chat_server1}
============================================================================
