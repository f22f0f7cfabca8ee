----------------------------- MODULE VersionLog -----------------------------
(***************************************************************************)
(* The promise the documentation makes about claim_versions: per claim an  *)
(* append-only, gap-free log of numbered entries, each chained to its      *)
(* predecessor by the predecessor's hash, each a snapshot of a state the   *)
(* claim really had.  Nothing is said here about sessions, transactions or *)
(* the order in which a service performs its commits.                      *)
(***************************************************************************)
EXTENDS Integers

CONSTANTS
    Claims,        \* identities of claims
    Snapshots,     \* the states a claim can be in
    Hash(_),       \* SHA-256 of the canonical JSON of a snapshot
    NoHash         \* previous_hash of the first version

VARIABLES
    past,          \* past[c]: every state claim c has been committed in
    log            \* the rows of claim_versions

Entry(c, n, prev, snapshot) ==
    [claim_id |-> c, version_number |-> n, version_hash |-> Hash(snapshot),
     previous_hash |-> prev, content_snapshot |-> snapshot]

\* n is the number that follows the newest entry of claim c, and prev the
\* hash that chains to it.
Extends(c, n, prev) ==
    /\ \A v \in log : v.claim_id = c => v.version_number < n
    /\ \/ n = 1 /\ prev = NoHash
       \/ \E v \in log : /\ v.claim_id = c
                         /\ v.version_number = n - 1
                         /\ v.version_hash = prev

Init ==
    /\ past = [c \in Claims |-> {}]
    /\ log = {}

\* One transaction may change several claims.
Change ==
    /\ past' \in [Claims -> SUBSET Snapshots]
    /\ \A c \in Claims : past[c] \subseteq past'[c]
    /\ UNCHANGED log

Append ==
    /\ \E v \in log' \ log :
         /\ v.claim_id \in Claims
         /\ v.content_snapshot \in past[v.claim_id]
         /\ Extends(v.claim_id, v.version_number, v.previous_hash)
         /\ v = Entry(v.claim_id, v.version_number, v.previous_hash,
                      v.content_snapshot)
         /\ log' = log \union {v}
    /\ UNCHANGED past

Next == Change \/ Append

Spec == Init /\ [][Next]_<<past, log>>
=============================================================================
