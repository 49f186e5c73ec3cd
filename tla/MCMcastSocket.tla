---------------------------- MODULE MCMcastSocket ----------------------------
EXTENDS McastSocket

\* A four-byte buffer: sends of one to three bytes fill it exactly, or run
\* past it, within two or three calls.
MCBufSize == 4

MCMaxLen == 3

\* Enough bytes for three ticks with a partial ::send in between.
MCMaxBytes == 6

=============================================================================
