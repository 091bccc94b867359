-------------------------------- MODULE MCChat --------------------------------
EXTENDS ChatClient

\* Two conversations between which the user changes.
Chats == {"a", "b"}

===============================================================================
