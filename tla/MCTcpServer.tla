----------------------------- MODULE MCTcpServer -----------------------------
\* TcpServer for model checking.  The clients' connections are interchangeable:
\* only the host's connection is told apart.
EXTENDS TcpServer, TLC

Symmetry == Permutations(Clients)
==============================================================================
