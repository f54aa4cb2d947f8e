------------------------------ MODULE MCPoll ------------------------------
\* Instances of Poll for TLC.
EXTENDS Poll, TLC

CONSTANTS s1, s2, plain, tty

\* Two wraps of one terminal; the application may watch its fd as well.
SharedReal == s1 :> tty @@ s2 :> tty
=============================================================================
