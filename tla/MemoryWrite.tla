---------------------------- MODULE MemoryWrite ----------------------------
(***************************************************************************)
(* The lane-governed write path (MemoryWriteService.write_fact): a fact    *)
(* goes into an authority lane if its source may write there; a lane that  *)
(* is single-valued gives up its old value for the new one; a session that *)
(* resumes after an idle gap may write only a few facts (rebound).         *)
(*                                                                         *)
(* A request reads the rebound hash in Redis, looks for the old value,     *)
(* marks it superseded, inserts the new claim and updates the hash: a      *)
(* query, two commits and three Redis commands, with nothing locked.       *)
(* Beside it the user retracts and confirms claims, and whoever creates a  *)
(* claim directly (ClaimService) looks for no older value.  Versions and   *)
(* audit entries of a claim are ClaimLifecycle's.  All facts are about one *)
(* subject and come from one session.                                      *)
(***************************************************************************)
EXTENDS Integers, Sequences, FiniteSets

CONSTANTS
    Writers,        \* concurrent requests
    Facts,          \* what may be written: lane, attribute, value, source, confident
    DirectClaims,   \* what may be created directly: fact and state
    InitialFacts,   \* the tables to start from, as sequences of rows
    InitialAges,    \* subset of {"none", "idle"}: the session is new or resumes
    MaxNonIdentity, \* the rebound cap (5)
    MaxWrites,      \* bound: requests
    MaxEdits,       \* bound: retractions, confirmations and direct creations
    MayFail         \* requests that may die between two steps

Lanes == {"identity", "preference", "evidence", "authorization", "procedural"}
SourceTypes == {"user_explicit", "user_confirmed", "model_inferred", "connector_data"}

\* A claim names its attribute or none; confident: confidence reaches the
\* lane's floor.
Fact == [lane : Lanes, attribute : STRING, value : STRING,
         source : SourceTypes, confident : BOOLEAN]

States == {"tentative", "confirmed", "superseded", "retracted"}

ASSUME WriteAssumption ==
    /\ Facts \subseteq Fact
    /\ DirectClaims \subseteq [fact : Fact, state : States]
    /\ IsFiniteSet(Writers) /\ Writers # {} /\ MayFail \subseteq Writers
    /\ MaxNonIdentity \in Nat /\ MaxWrites \in Nat /\ MaxEdits \in Nat
    /\ InitialAges \subseteq {"none", "idle"}

\* A table to start from holds one current value per attribute where its lane
\* is single-valued.
ASSUME TableAssumption ==
    \A table \in InitialFacts :
      /\ table \in Seq([fact : Fact, state : States])
      /\ \A i, j \in DOMAIN table :
           /\ {table[i].state, table[j].state} \subseteq {"tentative", "confirmed"}
           /\ table[i].fact.lane \in {"identity", "authorization"}
           /\ table[i].fact.lane = table[j].fact.lane
           /\ table[i].fact.attribute = table[j].fact.attribute
           => i = j

VARIABLES
    facts,    \* the claims, in the order of their insertion: fact and state
    rebound,  \* the Redis hash of the session
    writer,   \* writer[w]: the request
    writes,   \* number of requests so far
    edits,    \* number of edits so far
    confirming, \* the claims a confirmation has read and not yet written
    unchecked, \* history: the claims that became current without the lookup of
              \* _find_single_valued, created directly or confirmed after their end
    flood     \* history: whether the session has resumed after an idle gap, the
              \* non-identity facts it has written since, and how many of them
              \* were not counted because the request died

vars == <<facts, rebound, writer, writes, edits, confirming, unchecked, flood>>

\* What only the edits change.
editVars == <<edits, confirming, unchecked>>

-----------------------------------------------------------------------------
(* Lane policy (memory/lanes.py, memory/conflicts.py, memory/rebound.py)   *)

SourceCategory(source_type) ==
    CASE source_type \in {"user_explicit", "user_confirmed"} -> "observation"
      [] source_type = "model_inferred" -> "inference"
      [] source_type = "connector_data" -> "external"

Trust == [observation |-> 5, conversation |-> 4, inference |-> 3, tool |-> 2,
          external |-> 1]

allowed_sources(lane) ==
    CASE lane \in {"identity", "preference"} -> {"observation", "conversation"}
      [] lane \in {"authorization", "procedural"} -> {"observation"}
      [] lane = "evidence" -> DOMAIN Trust

single_valued(lane) == lane \in {"identity", "authorization"}

check_write_policy(f) ==
    SourceCategory(f.source) \in allowed_sources(f.lane) /\ f.confident

is_more_trusted(left, right) == Trust[left] > Trust[right]

\* resolve_single_valued against an existing fact of another value.
incoming_wins(existing, incoming) ==
    ~is_more_trusted(SourceCategory(existing.source), SourceCategory(incoming.source))

evaluate_rebound(lane, active, count) ==
    lane = "identity" \/ ~active \/ count < MaxNonIdentity

-----------------------------------------------------------------------------
(* State                                                                   *)

Current(c) == facts[c].state \notin {"superseded", "retracted"}

\* An incoming fact without an attribute matches every attribute.
Matches(f) ==
    {c \in DOMAIN facts : /\ Current(c)
                          /\ facts[c].fact.lane = f.lane
                          /\ f.attribute \in {"none", facts[c].fact.attribute}}

\* last_ts is as old as `age` says: no entry, at most 6 hours, more.  The key
\* goes 24 hours after the last EXPIRE.
NoRebound == [age |-> "none", active |-> FALSE, count |-> 0, ttl |-> FALSE]

NewFlood(resumed) == [resumed |-> resumed, written |-> 0, lost |-> 0]

Phases == {"idle", "rebound", "find", "supersede", "create",
           "hset", "hincrby", "expire"}

NoFact == [lane |-> "none"]
Idle == [phase |-> "idle", fact |-> NoFact, old |-> 0, active |-> FALSE]

At(w, phase) == writer[w].phase = phase

Go(w, phase) == writer' = [writer EXCEPT ![w] = [@ EXCEPT !.phase = phase]]

Init ==
    /\ facts \in InitialFacts
    /\ \E age \in InitialAges :
         /\ rebound = [NoRebound EXCEPT !.age = age, !.ttl = (age = "idle")]
         /\ flood = NewFlood(age = "idle")
    /\ writer = [w \in Writers |-> Idle]
    /\ writes = 0
    /\ edits = 0
    /\ confirming = {}
    /\ unchecked = {}

-----------------------------------------------------------------------------
(* write_fact                                                              *)

\* A fact the policy refuses is only audited.
write_fact(w) ==
    /\ At(w, "idle")
    /\ writes < MaxWrites
    /\ \E f \in {g \in Facts : check_write_policy(g)} :
         writer' = [writer EXCEPT ![w] = [Idle EXCEPT !.phase = "rebound", !.fact = f]]
    /\ writes' = writes + 1
    /\ UNCHANGED <<facts, rebound, editVars, flood>>

\* HGETALL.  Too many facts after a gap: blocked.
_read_rebound_state(w) ==
    LET active == rebound.active \/ rebound.age = "idle" IN
    /\ At(w, "rebound")
    /\ writer' = [writer EXCEPT ![w] =
         IF evaluate_rebound(@.fact.lane, active, rebound.count)
         THEN [@ EXCEPT !.phase = "find", !.active = active]
         ELSE Idle]
    /\ UNCHANGED <<facts, rebound, writes, editVars, flood>>

\* Mutant: scalars().first() instead of scalar_one_or_none().
FindFirst(w) ==
    LET found == Matches(writer[w].fact) IN
    /\ At(w, "find")
    /\ writer' = [writer EXCEPT ![w] =
         IF ~single_valued(@.fact.lane) \/ found = {} THEN [@ EXCEPT !.phase = "create"]
         ELSE LET old == CHOOSE c \in found : TRUE IN
              IF \/ facts[old].fact.value = @.fact.value
                 \/ ~incoming_wins(facts[old].fact, @.fact)
              THEN Idle
              ELSE [@ EXCEPT !.phase = "supersede", !.old = old]]
    /\ UNCHANGED <<facts, rebound, writes, editVars, flood>>

\* SELECT ... scalar_one_or_none: no row, one row, or MultipleResultsFound,
\* which ends the request; an equal value is a no-op.
_find_single_valued(w) ==
    LET found == Matches(writer[w].fact) IN
    /\ At(w, "find")
    /\ writer' = [writer EXCEPT ![w] =
         IF ~single_valued(@.fact.lane) \/ found = {} THEN [@ EXCEPT !.phase = "create"]
         ELSE IF Cardinality(found) > 1 THEN Idle
         ELSE LET old == CHOOSE c \in found : TRUE IN
              IF \/ facts[old].fact.value = @.fact.value
                 \/ ~incoming_wins(facts[old].fact, @.fact)
              THEN Idle
              ELSE [@ EXCEPT !.phase = "supersede", !.old = old]]
    /\ UNCHANGED <<facts, rebound, writes, editVars, flood>>

\* Mutant: the request returns after the UPDATE.
SupersedeOnly(w) ==
    /\ At(w, "supersede")
    /\ facts' = [facts EXCEPT ![writer[w].old] = [@ EXCEPT !.state = "superseded"]]
    /\ Go(w, "expire")
    /\ UNCHANGED <<rebound, writes, editVars, flood>>

\* UPDATE ... SET verification_state WHERE claim_id, and commit.
Supersede(w) ==
    /\ At(w, "supersede")
    /\ facts' = [facts EXCEPT ![writer[w].old] = [@ EXCEPT !.state = "superseded"]]
    /\ Go(w, "create")
    /\ UNCHANGED <<rebound, writes, editVars, flood>>

Counts(w) == writer[w].fact.lane # "identity"

\* The history counts what a resumed session writes.
Create(w) ==
    /\ At(w, "create")
    /\ facts' = Append(facts, [fact |-> writer[w].fact, state |-> "tentative"])
    /\ flood' = IF Counts(w) /\ flood.resumed
                THEN [flood EXCEPT !.written = @ + 1] ELSE flood
    /\ Go(w, "hset")
    /\ UNCHANGED <<rebound, writes, editVars>>

\* Mutant: the mode is not kept.
HsetWithoutMode(w) ==
    /\ At(w, "hset")
    /\ rebound' = [rebound EXCEPT !.age = "recent", !.active = FALSE]
    /\ Go(w, IF Counts(w) THEN "hincrby" ELSE "expire")
    /\ UNCHANGED <<facts, writes, editVars, flood>>

Hset(w) ==
    /\ At(w, "hset")
    /\ rebound' = [rebound EXCEPT !.age = "recent", !.active = writer[w].active]
    /\ Go(w, IF Counts(w) THEN "hincrby" ELSE "expire")
    /\ UNCHANGED <<facts, writes, editVars, flood>>

Hincrby(w) ==
    /\ At(w, "hincrby")
    /\ rebound' = [rebound EXCEPT !.count = @ + 1]
    /\ Go(w, "expire")
    /\ UNCHANGED <<facts, writes, editVars, flood>>

Expire(w) ==
    /\ At(w, "expire")
    /\ rebound' = [rebound EXCEPT !.ttl = TRUE]
    /\ writer' = [writer EXCEPT ![w] = Idle]
    /\ UNCHANGED <<facts, writes, editVars, flood>>

-----------------------------------------------------------------------------
(* The rest of the world                                                   *)

Crash(w) ==
    /\ w \in MayFail
    /\ ~At(w, "idle")
    /\ writer' = [writer EXCEPT ![w] = Idle]
    /\ flood' = IF /\ flood.resumed /\ Counts(w)
                   /\ writer[w].phase \in {"hset", "hincrby"}
                THEN [flood EXCEPT !.lost = @ + 1] ELSE flood
    /\ UNCHANGED <<facts, rebound, writes, editVars>>

\* Hours pass only between requests.
Quiet == \A w \in Writers : At(w, "idle")

Pause ==
    /\ Quiet /\ rebound.age = "recent"
    /\ rebound' = [rebound EXCEPT !.age = "idle"]
    /\ flood' = NewFlood(TRUE)
    /\ UNCHANGED <<facts, writer, writes, editVars>>

\* After a day Redis drops the hash, unless the EXPIRE was never sent.
Forget ==
    /\ Quiet /\ rebound.age = "idle" /\ rebound.ttl
    /\ rebound' = NoRebound
    /\ flood' = NewFlood(FALSE)
    /\ UNCHANGED <<facts, writer, writes, editVars>>

\* ClaimService, reduced to the transactions that change the state of a claim.
retract_claim(c) ==
    /\ edits < MaxEdits
    /\ facts[c].state # "retracted"
    /\ facts' = [facts EXCEPT ![c] = [@ EXCEPT !.state = "retracted"]]
    /\ edits' = edits + 1
    /\ UNCHANGED <<rebound, writer, writes, confirming, unchecked, flood>>

\* A superseded claim is not refused.
confirm_claim(c) ==
    /\ edits < MaxEdits
    /\ facts[c].state \notin {"retracted", "confirmed"}
    /\ confirming' = confirming \union {c}
    /\ edits' = edits + 1
    /\ UNCHANGED <<facts, rebound, writer, writes, unchecked, flood>>

\* UPDATE ... SET verification_state: whatever became of the row since it was read.
Confirm(c) ==
    /\ c \in confirming
    /\ facts' = [facts EXCEPT ![c] = [@ EXCEPT !.state = "confirmed"]]
    /\ confirming' = confirming \ {c}
    /\ unchecked' = IF Current(c) THEN unchecked ELSE unchecked \union {c}
    /\ UNCHANGED <<rebound, writer, writes, edits, flood>>

\* POST /claims, an approved proposal, a turn: neither policy nor lookup.
create_claim ==
    /\ edits < MaxEdits
    /\ \E claim \in DirectClaims : facts' = Append(facts, claim)
    /\ unchecked' = unchecked \union {Len(facts) + 1}
    /\ edits' = edits + 1
    /\ UNCHANGED <<rebound, writer, writes, confirming, flood>>

-----------------------------------------------------------------------------

Write(w) ==
    \/ _read_rebound_state(w) \/ _find_single_valued(w)
    \/ Supersede(w) \/ Create(w)
    \/ Hset(w) \/ Hincrby(w) \/ Expire(w)

Next ==
    \/ \E w \in Writers : write_fact(w) \/ Write(w) \/ Crash(w)
    \/ Pause \/ Forget
    \/ \E c \in DOMAIN facts : retract_claim(c) \/ confirm_claim(c) \/ Confirm(c)
    \/ create_claim

Spec == Init /\ [][Next]_vars

\* The event loop resumes a coroutine whose query has come back.
FairSpec == Spec /\ \A w \in Writers : WF_vars(Write(w))

-----------------------------------------------------------------------------
(* Properties                                                              *)

\* The type of every variable.
TypeOK ==
    /\ facts \in Seq([fact : Fact, state : States])
    /\ rebound \in [age : {"none", "recent", "idle"}, active : BOOLEAN,
                    count : 0 .. MaxWrites, ttl : BOOLEAN]
    /\ \A w \in Writers :
         /\ writer[w].phase \in Phases
         /\ ~At(w, "idle") => writer[w].fact \in Fact
         /\ At(w, "supersede") => writer[w].old \in DOMAIN facts
    /\ writes \in 0 .. MaxWrites
    /\ edits \in 0 .. MaxEdits
    /\ confirming \subseteq DOMAIN facts /\ unchecked \subseteq DOMAIN facts
    /\ flood.written \in 0 .. MaxWrites /\ flood.lost \in 0 .. MaxWrites

\* The current values of one attribute in one single-valued lane.
Values(lane, attribute) ==
    {c \in DOMAIN facts : /\ Current(c)
                          /\ facts[c].fact.lane = lane
                          /\ facts[c].fact.attribute = attribute}

\* "At most one current value per (subject, attribute)" (memory/conflicts.py)
\* can fail in the code in two ways and in no other.  Requests of
\* write_fact that overlap may each leave one value behind, and from then on
\* their lookup refuses.  And the user makes claims current past that lookup:
\* by creating them directly, or by confirming one that was superseded.
AtMostOnePerWriter ==
    \A lane \in {"identity", "authorization"}, attribute \in {facts[c].fact.attribute : c \in DOMAIN facts} :
      Cardinality(Values(lane, attribute) \ unchecked) <= Cardinality(Writers)

\* A session that resumes after an idle gap writes at most the cap of facts
\* outside identity, plus one for each request that read the count before
\* the others updated it and one for each that died before it was counted.
ReboundBound ==
    flood.written <= MaxNonIdentity + Cardinality(Writers) - 1 + flood.lost

\* Whoever is about to supersede a value puts the new one in its place, unless
\* it is killed in between, whatever the other requests and the user do.
ReplacedCompletes ==
    \A w \in Writers \ MayFail :
      At(w, "supersede")
        ~> (/\ At(w, "hset")
            /\ \E c \in DOMAIN facts : /\ c > writer[w].old
                                       /\ facts[c].fact = writer[w].fact)

\* The table of facts is well-formed and jams no further than overlap and the
\* user's own hand explain.
ValuesBounded == TypeOK /\ AtMostOnePerWriter
=============================================================================
