--------------------------- MODULE MCGoogleAccount ---------------------------
(* Requests for TLC.                                                       *)
EXTENDS GoogleAccount, TLC

CONSTANTS u1, k1

\* Connecting and disconnecting while mail is sent; changes of the settings.
AccountRequests ==
    {Request(op, u1, NoPatch) : op \in {"url", "callback", "disconnect", "call"}}
    \union {Request("settings", u1, [mode |-> "work", api_key |-> Masked]),
            Request("settings", u1, [mode |-> "guardian", api_key |-> k1])}
=============================================================================
