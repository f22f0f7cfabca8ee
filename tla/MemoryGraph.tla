----------------------------- MODULE MemoryGraph -----------------------------
(***************************************************************************)
(* The memory graph of one user (entities and the relations between them)  *)
(* and the snippets of raw conversation, next to the behavioral rules.     *)
(* All of them age, and one transaction of the nightly job, for all four   *)
(* tables together, deletes what is over and sends rules back to review.   *)
(* A foreign key that refuses one of its statements rolls back all of      *)
(* them.                                                                   *)
(***************************************************************************)
EXTENDS BehavioralRules

CONSTANTS
    Names,       \* names an entity may have
    Known,       \* the entities there are at the start
    Edges,       \* triples a relation may state, as pairs of names
    Snippets,    \* snippet ids
    Clients      \* concurrent requests on the graph

ASSUME GraphAssumption ==
    /\ Known \subseteq Names
    /\ Edges \subseteq Names \X Names

VARIABLES
    entities,    \* entities[n]: the row named n, by what has become of its expiry
    relations,   \* relations[e]: likewise the row of triple e
    snippets,    \* snippets[s]: likewise
    client       \* client[c]: the name a request is about to write

graphVars == <<entities, relations, snippets, client>>
ruleVars == <<rule, stored, trail, desk, has_claims, overlapped, lost>>

\* expires_at: NULL, in the future or not; or there is no row.
Expiry == {"absent", "unset", "ahead", "past"}

Upsert(n, found) == [name |-> n, found |-> found]
NoRequest == [name |-> "none", found |-> FALSE]

Exists(n) == entities[n] # "absent"

\* The two foreign keys of a relation.
Connected(e) == Exists(e[1]) /\ Exists(e[2])

GraphInit ==
    /\ Init
    /\ entities = [n \in Names |-> IF n \in Known THEN "unset" ELSE "absent"]
    /\ relations = [e \in Edges |-> "absent"]
    /\ snippets = [s \in Snippets |-> "absent"]
    /\ client = [c \in Clients |-> NoRequest]

-----------------------------------------------------------------------------
(* Requests                                                                *)

BeginGraph == requests < MaxRequests /\ requests' = requests + 1

\* The SELECT by name of upsert_entity.
SelectEntity(c, n) ==
    /\ client[c] = NoRequest
    /\ BeginGraph
    /\ client' = [client EXCEPT ![c] = Upsert(n, Exists(n))]
    /\ UNCHANGED <<entities, relations, snippets, ruleVars>>

\* Mutant: an entity lives as long as a relation.
EntityExpiry90 == "ahead"

\* Nothing gives an entity an end; the columns of a row found are overwritten
\* one by one.
EntityExpiry == "unset"

\* The commit of upsert_entity.  An entity that has appeared meanwhile violates
\* uq_entities_user_name, which nobody handles.
upsert_entity(c) ==
    /\ client[c] # NoRequest
    /\ LET n == client[c].name
       IN entities' = IF client[c].found \/ Exists(n) THEN entities
                      ELSE [entities EXCEPT ![n] = EntityExpiry]
    /\ client' = [client EXCEPT ![c] = NoRequest]
    /\ UNCHANGED <<relations, snippets, requests, ruleVars>>

\* One INSERT, for ninety days.  The foreign keys demand both ends, and
\* uq_relations_triple refuses an edge that is still there, expired or not.
add_relation(e) ==
    /\ BeginGraph
    /\ Connected(e)
    /\ relations[e] = "absent"
    /\ relations' = [relations EXCEPT ![e] = "ahead"]
    /\ UNCHANGED <<entities, snippets, client, ruleVars>>

\* One INSERT, for seven days.
add_snippet(s) ==
    /\ BeginGraph
    /\ snippets[s] = "absent"
    /\ snippets' = [snippets EXCEPT ![s] = "ahead"]
    /\ UNCHANGED <<entities, relations, client, ruleVars>>

-----------------------------------------------------------------------------
(* Time and the nightly job                                                *)

Elapses(table, x) == table[x] = "ahead"
Elapsed(table, x) == [table EXCEPT ![x] = "past"]

GraphTtlEnds ==
    /\ \/ \E n \in Names : /\ Elapses(entities, n) /\ entities' = Elapsed(entities, n)
                           /\ UNCHANGED <<relations, snippets>>
       \/ \E e \in Edges : /\ Elapses(relations, e) /\ relations' = Elapsed(relations, e)
                           /\ UNCHANGED <<entities, snippets>>
       \/ \E s \in Snippets : /\ Elapses(snippets, s) /\ snippets' = Elapsed(snippets, s)
                              /\ UNCHANGED <<entities, relations>>
    /\ UNCHANGED <<client, requests, ruleVars>>

Over(table) == {x \in DOMAIN table : table[x] = "past"}

\* DELETE ... WHERE expires_at <= now()
Without(table) == [x \in DOMAIN table |-> IF x \in Over(table) THEN "absent" ELSE table[x]]

\* Snippets, relations, entities, in this order; the foreign keys of the
\* relations that stay refuse to let an entity go.
_delete_expired ==
    /\ snippets' = Without(snippets)
    /\ relations' = Without(relations)
    /\ entities' = Without(entities)
    /\ \A e \in Edges : relations'[e] # "absent" => Connected(e)'

\* cleanup_expired as a whole: one commit after the three deletions and the
\* UPDATE of the rules.
cleanup ==
    /\ _delete_expired
    /\ \/ cleanup_expired
       \/ /\ has_claims
          /\ ~\E r \in Active : rule[r].expires = "past"
          /\ Over(snippets) # {} \/ Over(relations) # {} \/ Over(entities) # {}
          /\ UNCHANGED vars
    /\ UNCHANGED client

-----------------------------------------------------------------------------

RulesOnly == RuleStep /\ UNCHANGED graphVars

\* The lists of the router only read.
GraphRequests ==
    \/ \E c \in Clients : upsert_entity(c) \/ \E n \in Names : SelectEntity(c, n)
    \/ \E e \in Edges : add_relation(e)
    \/ \E s \in Snippets : add_snippet(s)

MemoryNext == RulesOnly \/ GraphRequests \/ GraphTtlEnds \/ cleanup

memoryVars == <<vars, graphVars>>

MemorySpec == GraphInit /\ [][MemoryNext]_memoryVars

\* The database answers or raises, and beat starts the job every night.
FairMemorySpec ==
    /\ MemorySpec
    /\ WF_memoryVars(cleanup)
    /\ \A d \in Desks : WF_memoryVars(Serve(d) /\ UNCHANGED graphVars)

-----------------------------------------------------------------------------
(* Properties                                                              *)

\* Every relation connects two entities that are there.
GraphTypeOK ==
    /\ entities \in [Names -> Expiry]
    /\ relations \in [Edges -> Expiry] /\ snippets \in [Snippets -> Expiry]
    /\ client \in [Clients -> [name : Names, found : BOOLEAN] \union {NoRequest}]
    /\ \A e \in Edges : relations[e] # "absent" => Connected(e)

\* What has expired goes: rows of a user with claims do not stay in the store
\* for ever (one transaction, so a row that cannot go keeps all the others).
ExpiredIsForgotten ==
    /\ \A s \in Snippets : has_claims /\ snippets[s] = "past" ~> snippets[s] # "past"
    /\ \A e \in Edges : has_claims /\ relations[e] = "past" ~> relations[e] # "past"

\* The nightly transaction does what it is for, whatever else is in the tables.
CleanupHappens == ReviewedMonthly /\ ExpiredIsForgotten

\* The rules and the graph, over everything that can happen to either.
MemoryIsSound == ActiveRulesAgree /\ GraphTypeOK
=============================================================================
