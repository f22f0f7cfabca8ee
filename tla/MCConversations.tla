-------------------------- MODULE MCConversations --------------------------
(* Turns for TLC.                                                          *)
EXTENDS Conversations, TLC

CONSTANTS c1, c2, w1

Ask(chat, ws, s, local, long) ==
    [chat |-> chat, workspace |-> ws, sensitivity |-> s, local |-> local, long |-> long]

\* A private message in a new chat of the workspace; harmless short ones in the
\* first chat, one for a cloud provider and one for a local one.
MCInputs == {Ask(None, w1, "S3", TRUE, TRUE), Ask(c1, None, "S1", FALSE, FALSE),
             Ask(c1, None, "S1", TRUE, FALSE)}
=============================================================================
