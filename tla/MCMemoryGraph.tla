---------------------------- MODULE MCMemoryGraph ----------------------------
(* An instance of MemoryGraph for TLC: two rules that contradict each other *)
(* in different domains, one that shares the first one's domain, and an    *)
(* edge from an entity to one that is yet to be upserted.                  *)
EXTENDS MemoryGraph, TLC

CONSTANTS Tables, NoTables, Terse

MCcontent ==
    (Tables   :> [domain |-> "work", terms |-> {"report"}, action |-> "table",
                  polarity |-> "affirm", cost |-> 1])
    @@ (NoTables :> [domain |-> "global", terms |-> {"report", "mail"},
                     action |-> "table", polarity |-> "negate", cost |-> 1])
    @@ (Terse    :> [domain |-> "work", terms |-> {"mail"}, action |-> "none",
                     polarity |-> "affirm", cost |-> 2])

MCEdges == {<<"ann", "bob">>}
=============================================================================
