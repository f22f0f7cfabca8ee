----------------------------- MODULE MCHeartbeat -----------------------------
(* Requests for TLC.                                                       *)
EXTENDS Heartbeat, TLC

CONSTANTS u1, u2

\* The first user disconnects, the second one moves the
\* briefing to the next hour or switches it off.
BriefingRequests ==
    {Request("disconnect", u1, NoPatch),
     Request("settings", u2, [briefing_hour |-> 1]),
     Request("settings", u2, [briefing_enabled |-> FALSE])}
=============================================================================
