----------------------------- MODULE MCTCPServer -----------------------------
EXTENDS TCPServer

CONSTANTS c1, c2, Lsn

\* Two clients: two connections can queue together, and one can send while
\* the other is accepted.
MCConns == {c1, c2}

\* Two bytes each: a second byte can arrive after the first one's event was
\* cleared.
MCMaxData == 2

=============================================================================
