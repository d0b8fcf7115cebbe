---------------------------- MODULE MCRemoteOwner ----------------------------
EXTENDS RemoteOwner

\* Two processes at a time on the first host, and one on the second.
SharedPids == {<<"h1", 1>>, <<"h1", 2>>, <<"h2", 1>>}
=============================================================================
