---------------------------- MODULE MCMemoryWrite ----------------------------
(* Instances of MemoryWrite for TLC.                                       *)
EXTENDS MemoryWrite

City == [lane |-> "identity", attribute |-> "city", value |-> "Ulm",
         source |-> "user_explicit", confident |-> TRUE]

\* The user moves, contradicts themselves without naming the attribute, states
\* a side fact; a connector and a doubtful statement try the identity lane.
SomeFacts ==
    {City, [City EXCEPT !.attribute = "none", !.value = "Jena"],
     [City EXCEPT !.lane = "evidence", !.attribute = "weather"],
     [City EXCEPT !.source = "connector_data"], [City EXCEPT !.confident = FALSE]}

\* An identity fact that came from a connector by POST /claims.
Bonn == [fact |-> [City EXCEPT !.value = "Bonn", !.source = "connector_data"],
         state |-> "tentative"]

OneTable == {<<Bonn>>}

\* The same once more, past write_fact.
BonnAgain == {Bonn}
==============================================================================
