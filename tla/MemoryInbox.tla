---------------------------- MODULE MemoryInbox ----------------------------
(***************************************************************************)
(* What the proposal inbox of OZY_WRITE_GATES promises (gate G4), without  *)
(* requests and transactions, to people who may work on it at the same     *)
(* time: only who has looked at a proposal while it was pending decides    *)
(* it, nobody approves it twice, and every claim made from it answers to   *)
(* an approval of its own.  A single decider thus decides each proposal    *)
(* once and makes at most one claim of it.                                 *)
(***************************************************************************)
EXTENDS Naturals, Sequences, FiniteSets

CONSTANT Deciders

\* inbox[p]: what became of proposal p (status), who is still to decide (open),
\* who has approved it, and the number of claims made from it (copies).
VARIABLE inbox

Submit ==
    inbox' = Append(inbox, [status |-> "pending", open |-> {},
                            approved |-> {}, copies |-> 0])

Becomes(p, entry) == inbox' = [inbox EXCEPT ![p] = entry]

Look(p, s) ==
    /\ inbox[p].status = "pending"
    /\ Becomes(p, [inbox[p] EXCEPT !.open = inbox[p].open \union {s}])

\* The decider goes away without a decision.
Leave(p, s) ==
    /\ s \in inbox[p].open
    /\ Becomes(p, [inbox[p] EXCEPT !.open = inbox[p].open \ {s}])

Approve(p, s) ==
    /\ s \in inbox[p].open \ inbox[p].approved
    /\ Becomes(p, [status |-> "confirmed", open |-> inbox[p].open \ {s},
                   approved |-> inbox[p].approved \union {s}, copies |-> inbox[p].copies])

Reject(p, s) ==
    /\ s \in inbox[p].open
    /\ Becomes(p, [status |-> "rejected", open |-> inbox[p].open \ {s},
                   approved |-> inbox[p].approved, copies |-> inbox[p].copies])

Store(p) ==
    /\ inbox[p].copies < Cardinality(inbox[p].approved)
    /\ Becomes(p, [status |-> inbox[p].status, open |-> inbox[p].open,
                   approved |-> inbox[p].approved, copies |-> inbox[p].copies + 1])

Init == inbox = << >>

Next ==
    \/ Submit
    \/ \E p \in DOMAIN inbox :
         \/ \E s \in Deciders : \/ Look(p, s) \/ Leave(p, s)
                               \/ Approve(p, s) \/ Reject(p, s)
         \/ Store(p)

Spec == Init /\ [][Next]_inbox
=============================================================================
