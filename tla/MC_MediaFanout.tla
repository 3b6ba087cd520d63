-------------------------- MODULE MC_MediaFanout --------------------------
(* Client scripts for MediaFanout: the request orders a player sends.      *)
EXTENDS MediaFanout

CONSTANTS c1, c2

\* A player over TCP that first sends SETUP and PLAY too early (500 and no
\* answer), then the usual DESCRIBE, SETUP, PLAY.
ScriptTcpEager == [c \in Conns |-> <<"SETUP_TCP", "PLAY", "DESCRIBE", "SETUP_TCP", "PLAY">>]

\* One player that sends SETUP and PLAY too early, plays over TCP, then
\* switches its channel to UDP with a second SETUP and ends with TEARDOWN.
ScriptMixed == [c \in Conns |->
    <<"SETUP_TCP", "PLAY", "DESCRIBE", "SETUP_TCP", "PLAY", "SETUP_UDP", "TEARDOWN">>]

\* Players doing DESCRIBE, SETUP, PLAY over TCP / over UDP.
ScriptTcp == [c \in Conns |-> <<"DESCRIBE", "SETUP_TCP", "PLAY">>]
ScriptUdp == [c \in Conns |-> <<"DESCRIBE", "SETUP_UDP", "PLAY">>]

\* Players over UDP that end the session with TEARDOWN.
ScriptUdpTeardown == [c \in Conns |-> <<"DESCRIBE", "SETUP_UDP", "PLAY", "TEARDOWN">>]

\* A TCP player that stops its session with TEARDOWN.
ScriptCancel == [c \in Conns |-> <<"DESCRIBE", "SETUP_TCP", "PLAY", "TEARDOWN">>]

=============================================================================
