----------------------------- MODULE MCUdpServer -----------------------------
\* UdpServer for TLC.
EXTENDS UdpServer, TLC

\* Clients differ in nothing but their address.
ClientSymmetry == Permutations(Client)
=============================================================================
