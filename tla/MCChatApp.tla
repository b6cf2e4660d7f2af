------------------------------- MODULE MCChatApp -------------------------------
EXTENDS ChatApp
CONSTANTS p1, p2, g1, m1, m2
MCPeer == m1 :> p1 @@ m2 :> g1
=============================================================================
