----------------------------- MODULE MCChatTurn ------------------------------
(* Small instances of ChatTurn for TLC.                                     *)
EXTENDS ChatTurn

\* Streams that fail, one turn at a time; and everything.
FailingStreams == {{"stream"}, AllFaults}
FailingTools == {{"tool"}}
=============================================================================
