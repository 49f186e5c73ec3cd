---------------------------- MODULE MCSocketSetup ----------------------------
EXTENDS SocketSetup

=============================================================================
