---------------------------- MODULE MCTcpServer ----------------------------
\* TcpServer for TLC.
EXTENDS TcpServer, TLC

CONSTANTS c1, c2

\* One client gets as far as a second command in the shell, the other types once.
Sends == (c1 :> 3) @@ (c2 :> 1)
=============================================================================
