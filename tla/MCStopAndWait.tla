---------------------------- MODULE MCStopAndWait ----------------------------
EXTENDS StopAndWait

\* Plain chunks; one between them that is sent once; one at the end that looks
\* like an acknowledgement; and files that user2 takes for ended too early.
MCFiles == {<<"chunk", "chunk", "chunk">>, <<"chunk", "FIN_ACK", "chunk">>,
            <<"chunk", "chunk", "ACK">>, <<"chunk", "EOF...", "ACK">>,
            <<"chunk", "EOF_ACK", "chunk">>}
===============================================================================
