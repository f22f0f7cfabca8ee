------------------------- MODULE TurnPipelineProofs -------------------------
(***************************************************************************)
(* Proofs about TurnPipeline for every set of turns, desks and claims and  *)
(* every input: what a turn leaves behind has passed the gates, the filter *)
(* and the locks nobody has lifted, and a processed turn is complete.      *)
(* Then the inbox (ProposalReview), with any number of desks that decide   *)
(* the same proposals and may fail: a pending proposal has no claim, an    *)
(* audited approval has a versioned one, and with or without turns that    *)
(* fill it the inbox is the abstract MemoryInbox.                          *)
(***************************************************************************)
EXTENDS TurnPipeline, TLAPS, SequenceTheorems, FiniteSetTheorems

-----------------------------------------------------------------------------
(* The inductive invariant                                                 *)

\* A turn that has taken a claim and not written it yet; one that goes on.
Forward == {"group", "propose", "create"}

Closing == {"user", "assistant", "count", "audit", "done"}

Working == {"gates", "group", "propose", "proposed", "create", "version",
            "claim_audit"} \union Closing

Taints == [trust : DOMAIN TrustRank, sensitivity : Sensitivities]

\* Rows of claims, by the id of the claim.
Holdings == UNION {[S -> ClaimData] : S \in SUBSET Nat}

TurnState ==
    [phase : TurnPhases, input : TurnInput \union {NoInput}, todo : SUBSET Nat,
     at : Nat, taint : Taints, foreign : BOOLEAN, id : Nat, seen : Holdings,
     locked : SUBSET Nat, created : SUBSET Nat, proposed : SUBSET Nat, rejected : Nat]

ProposalRow == [data : ClaimData, status : Statuses, reason : BOOLEAN,
                approved : SUBSET Desks]
StoredRow == [data : ClaimData, proposal : Nat]
DeskState == [phase : Phases, proposal : Nat, claim : Nat]

Types ==
    /\ proposals \in Seq(ProposalRow) /\ claims \in Seq(StoredRow)
    /\ \A c \in DOMAIN claims : claims[c].proposal \in {0} \union DOMAIN proposals
    /\ versioned \subseteq DOMAIN claims
    /\ desk \in [Desks -> DeskState] /\ turn \in [Turns -> TurnState]
    /\ groups \subseteq Turns /\ messages \subseteq Turns \X {"user", "assistant"}
    /\ edits \in 0 .. MaxEdits

DeskKnows(s) ==
    /\ ~At(s, "idle") => desk[s].proposal \in DOMAIN proposals
    /\ desk[s].phase \in {"version", "claim_audit", "approved"}
         => desk[s].claim \in DOMAIN claims

\* The claim in hand has passed the filter, and every id names a row.
TurnKnows(t) ==
    /\ turn[t].created \subseteq DOMAIN claims /\ turn[t].proposed \subseteq DOMAIN proposals
    /\ turn[t].locked \subseteq DOMAIN claims
    /\ turn[t].todo \subseteq Allowed(turn[t].input)
    /\ turn[t].phase \in Working => /\ turn[t].input \in TurnInput
                                    /\ turn[t].taint = Taint(turn[t].input)
    /\ turn[t].phase \in Forward => turn[t].at \in Allowed(turn[t].input)
    /\ turn[t].phase = "version" => turn[t].id \in DOMAIN claims
    /\ turn[t].phase = "new" => /\ turn[t].created = {} /\ turn[t].proposed = {}
                               /\ turn[t].rejected = 0 /\ turn[t].seen = << >>

Permitted(input, d) ==
    /\ d.sensitivity # "S4"
    /\ d.sensitivity = "S3" => input.local \/ input.allow_s3_cloud_fallback
    /\ d.sensitivity = "S2" => input.encrypted

Filtered(t) ==
    /\ \A c \in turn[t].created : Permitted(turn[t].input, claims[c].data)
    /\ \A p \in turn[t].proposed : Permitted(turn[t].input, proposals[p].data)

Trusted(d) == d.well_formed /\ d.source_type \in {"user_explicit", "user_confirmed"}

Clean(input) ==
    \A i \in DOMAIN input.claims :
      input.claims[i].trust_level # "T0" /\ ~AtLeast(input.claims[i].sensitivity, "S3")

Reviewed(t) ==
    /\ \A c \in turn[t].created : Trusted(claims[c].data) /\ Clean(turn[t].input)
    /\ turn[t].phase = "create"
         => Trusted(Extracted(t, turn[t].at)) /\ Clean(turn[t].input)

\* What storing and editing a claim leave as it is.
SameFact(d, e) ==
    /\ d.subject = e.subject /\ d.attribute = e.attribute
    /\ d.well_formed = e.well_formed /\ d.source_type = e.source_type
    /\ d.sensitivity = e.sensitivity

Uncontradicted(t, d) == \A c \in turn[t].locked : ~claims_match(d, claims[c].data)

Held(c) == claims[c].data.user_locked /\ Current(c)

\* A row as a turn holds it is old, but of a claim that has been locked all the
\* time it shows the lock.
Faithful(seen, locked) ==
    \A c \in DOMAIN seen : /\ c \in DOMAIN claims /\ SameFact(seen[c], claims[c].data)
                           /\ c \in locked => seen[c].user_locked

\* Whoever lifts a lock takes the claim off `locked`, so what the gates saw of
\* the rest stays true until the turn has written.
LocksRespected(t) ==
    /\ \A c \in turn[t].locked : Held(c)
    /\ Faithful(turn[t].seen, turn[t].locked)
    /\ \A p \in turn[t].proposed : Uncontradicted(t, proposals[p].data)
    /\ \A c \in turn[t].created : Uncontradicted(t, claims[c].data)
    /\ turn[t].phase \in Forward => Uncontradicted(t, Extracted(t, turn[t].at))

\* Each claim that passed the filter is still to come, in hand, or accounted for.
InHand(t) == IF turn[t].phase \in Forward THEN 1 ELSE 0

Accounted(t) ==
    /\ turn[t].phase \in Working =>
         Cardinality(turn[t].created) + Cardinality(turn[t].proposed) + turn[t].rejected
           + Cardinality(turn[t].todo) + InHand(t) = Cardinality(Allowed(turn[t].input))
    /\ turn[t].rejected <= Cardinality(Allowed(turn[t].input))
    /\ turn[t].phase \in Closing => turn[t].todo = {}

\* The question is stored.
Ending == {"assistant", "count", "audit", "done"}

MessagesOf(t) == {m \in messages : m[1] = t}

Recorded(t) ==
    /\ turn[t].phase \in Working \ {"version"} => turn[t].created \subseteq versioned
    /\ turn[t].phase = "version" => turn[t].created \subseteq versioned \union {turn[t].id}
    /\ turn[t].phase \in {"new"} \union (Working \ Ending) => MessagesOf(t) = {}
    /\ turn[t].phase \in {"user", "assistant"} => turn[t].input.chat
    /\ turn[t].phase = "assistant" => /\ turn[t].input.answer
                                     /\ MessagesOf(t) = {<<t, "user">>}
    /\ turn[t].phase \in {"count", "audit", "done"} => MessagesOf(t) = Remembered(t)
    /\ <<"turn_processed", t>> \in audit => turn[t].phase = "done"
    /\ <<"turn_failed", t>> \in audit => turn[t].phase = "failed"

TurnInv(t) ==
    /\ TurnKnows(t) /\ Filtered(t) /\ Reviewed(t) /\ LocksRespected(t)
    /\ Accounted(t) /\ Recorded(t)

Past == {"audit", "done", "failing", "failed", "gone"}

Uncounted == {t \in Turns : turn[t].phase \notin Past}

BreakerBounded == breaker \in Nat /\ breaker + Cardinality(Uncounted) <= Cardinality(Turns)

PipelineInv ==
    /\ Types /\ BreakerBounded
    /\ (\A t \in Turns : TurnInv(t)) /\ (\A s \in Desks : DeskKnows(s))

-----------------------------------------------------------------------------
(* What the gates look at                                                  *)

LEMMA TentativeKeeps ==
    ASSUME NEW d \in ClaimData
    PROVE  Tentative(d) \in ClaimData /\ SameFact(Tentative(d), d)
BY RowsAssumption DEF Tentative, ClaimColumns, SameFact

LEMMA EditedKeeps ==
    ASSUME NEW d \in ClaimData, NEW edit \in Edits
    PROVE  /\ Edited(d, edit) \in ClaimData /\ SameFact(Edited(d, edit), d)
           /\ edit \notin Releases =>
                /\ d.user_locked => Edited(d, edit).user_locked
                /\ d.verification_state \notin {"superseded", "retracted"}
                     => Edited(d, edit).verification_state \notin {"superseded", "retracted"}
<1>1. edit \in {"lock", "unlock", "confirm", "retract", "archive", "supersede"}
      /\ d \in ClaimColumns /\ Edited(d, edit) \in ClaimData
  BY RowsAssumption
<1> QED
  BY <1>1 DEF Edited, Releases, ClaimColumns, SameFact

LEMMA InputTypes ==
    ASSUME NEW input \in TurnInput
    PROVE  /\ input.claims \in Seq(ClaimData) /\ IsFiniteSet(DOMAIN input.claims)
           /\ \A i \in DOMAIN input.claims : input.claims[i] \in ClaimData
           /\ Allowed(input) \subseteq DOMAIN input.claims /\ DOMAIN input.claims \subseteq Nat
<1>1. input.claims \in Seq(ClaimData)
  BY DEF TurnInput
<1>2. /\ Len(input.claims) \in Nat /\ DOMAIN input.claims = 1..Len(input.claims)
      /\ \A i \in DOMAIN input.claims : input.claims[i] \in ClaimData
  BY <1>1, LenProperties
<1>3. IsFiniteSet(1..Len(input.claims))
  BY <1>2, FS_Interval
<1> QED
  BY <1>1, <1>2, <1>3 DEF Allowed

LEMMA FilterPermits ==
    ASSUME NEW input \in TurnInput, NEW d \in ClaimData, filter_claims(d, input)
    PROVE  Permitted(input, d)
<1>1. d.sensitivity \in {"S0", "S1", "S2", "S3", "S4"} /\ input.intent = "general_turn"
  BY RowsAssumption DEF ClaimColumns, TurnInput, Sensitivities
<1> QED
  BY <1>1 DEF filter_claims, Permitted

\* The ranks have a least and a greatest element in every set of claims.
LEMMA LeastTrust ==
    ASSUME NEW chunks, \A c \in chunks : c.trust_level \in {"T0", "T1", "T2", "T3"}, chunks # {}
    PROVE  \E c \in chunks : \A d \in chunks : TrustRank[c.trust_level] <= TrustRank[d.trust_level]
<1>1. /\ TrustRank["T0"] = 0 /\ TrustRank["T1"] = 1 /\ TrustRank["T2"] = 2 /\ TrustRank["T3"] = 3
  BY DEF TrustRank
<1>2. CASE \E c \in chunks : c.trust_level = "T0"
  BY <1>1, <1>2
<1>3. CASE (\A c \in chunks : c.trust_level # "T0") /\ \E c \in chunks : c.trust_level = "T1"
  BY <1>1, <1>3
<1>4. CASE (\A c \in chunks : c.trust_level \notin {"T0", "T1"}) /\ \E c \in chunks : c.trust_level = "T2"
  BY <1>1, <1>4
<1>5. CASE \A c \in chunks : c.trust_level = "T3"
  BY <1>1, <1>5
<1> QED
  BY <1>2, <1>3, <1>4, <1>5

LEMMA GreatestSensitivity ==
    ASSUME NEW chunks, \A c \in chunks : c.sensitivity \in Sensitivities, chunks # {}
    PROVE  \E c \in chunks : \A d \in chunks : AtLeast(c.sensitivity, d.sensitivity)
<1>1. /\ SensitivityRank["S0"] = 0 /\ SensitivityRank["S1"] = 1 /\ SensitivityRank["S2"] = 2
      /\ SensitivityRank["S3"] = 3 /\ SensitivityRank["S4"] = 4
  BY DEF SensitivityRank
<1>2. CASE \E c \in chunks : c.sensitivity = "S4"
  BY <1>1, <1>2 DEF AtLeast, Sensitivities
<1>3. CASE (\A c \in chunks : c.sensitivity # "S4") /\ \E c \in chunks : c.sensitivity = "S3"
  BY <1>1, <1>3 DEF AtLeast, Sensitivities
<1>4. CASE (\A c \in chunks : c.sensitivity \notin {"S3", "S4"}) /\ \E c \in chunks : c.sensitivity = "S2"
  BY <1>1, <1>4 DEF AtLeast, Sensitivities
<1>5. CASE /\ \A c \in chunks : c.sensitivity \notin {"S2", "S3", "S4"}
           /\ \E c \in chunks : c.sensitivity = "S1"
  BY <1>1, <1>5 DEF AtLeast, Sensitivities
<1>6. CASE \A c \in chunks : c.sensitivity = "S0"
  BY <1>1, <1>6 DEF AtLeast
<1> QED
  BY <1>2, <1>3, <1>4, <1>5, <1>6 DEF Sensitivities

\* The taint is one of the claims' trust and one of their sensitivities, and no
\* claim is trusted less or more sensitive.
LEMMA TaintCovers ==
    ASSUME NEW input \in TurnInput
    PROVE  /\ Taint(input) \in Taints
           /\ \A i \in DOMAIN input.claims :
                /\ TrustRank[Taint(input).trust] <= TrustRank[input.claims[i].trust_level]
                /\ AtLeast(Taint(input).sensitivity, input.claims[i].sensitivity)
<1> DEFINE chunks == {input.claims[i] : i \in DOMAIN input.claims}
           least == CHOOSE c \in chunks : \A d \in chunks : TrustRank[c.trust_level] <= TrustRank[d.trust_level]
           greatest == CHOOSE c \in chunks : \A d \in chunks : AtLeast(c.sensitivity, d.sensitivity)
<1>1. \A c \in chunks : /\ c.trust_level \in DOMAIN TrustRank
                        /\ c.trust_level \in {"T0", "T1", "T2", "T3"}
                        /\ c.sensitivity \in Sensitivities
  BY InputTypes, RowsAssumption DEF ClaimColumns, TrustRank
<1>2. Taint(input) = IF chunks = {} THEN Untainted
                     ELSE [trust |-> least.trust_level, sensitivity |-> greatest.sensitivity]
  BY DEF Taint, compute_taint
<1>3. CASE chunks = {}
  BY <1>2, <1>3 DEF Untainted, Taints, TrustRank, Sensitivities
<1>4. CASE chunks # {}
  <2>1. least \in chunks /\ \A d \in chunks : TrustRank[least.trust_level] <= TrustRank[d.trust_level]
    BY <1>1, <1>4, LeastTrust
  <2>2. greatest \in chunks /\ \A d \in chunks : AtLeast(greatest.sensitivity, d.sensitivity)
    BY <1>1, <1>4, GreatestSensitivity
  <2>3. \A i \in DOMAIN input.claims : input.claims[i] \in chunks
    OBVIOUS
  <2> HIDE DEF chunks, least, greatest
  <2>4. /\ Taint(input).trust = least.trust_level
        /\ Taint(input).sensitivity = greatest.sensitivity /\ Taint(input) \in Taints
    BY <1>1, <1>2, <1>4, <2>1, <2>2 DEF Taints
  <2> QED
    BY <2>1, <2>2, <2>3, <2>4
<1> QED
  BY <1>3, <1>4

LEMMA CleanTaint ==
    ASSUME NEW input \in TurnInput, check_tainted_action(Taint(input)) \notin {"Block", "Escalate"}
    PROVE  Clean(input)
<1> SUFFICES ASSUME NEW i \in DOMAIN input.claims
             PROVE  /\ input.claims[i].trust_level # "T0"
                    /\ ~AtLeast(input.claims[i].sensitivity, "S3")
  BY DEF Clean
<1>1. /\ TrustRank["T0"] = 0 /\ TrustRank["T1"] = 1 /\ TrustRank["T2"] = 2 /\ TrustRank["T3"] = 3
      /\ SensitivityRank["S0"] = 0 /\ SensitivityRank["S1"] = 1 /\ SensitivityRank["S2"] = 2
      /\ SensitivityRank["S3"] = 3 /\ SensitivityRank["S4"] = 4
  BY DEF TrustRank, SensitivityRank
<1>2. /\ Taint(input).trust \in {"T0", "T1", "T2", "T3"} /\ Taint(input).trust # "T0"
      /\ Taint(input).sensitivity \in Sensitivities
      /\ ~AtLeast(Taint(input).sensitivity, "S3")
  BY TaintCovers DEF check_tainted_action, Taints, TrustRank
<1>3. /\ TrustRank[Taint(input).trust] <= TrustRank[input.claims[i].trust_level]
      /\ AtLeast(Taint(input).sensitivity, input.claims[i].sensitivity)
  BY TaintCovers
<1>4. input.claims[i].sensitivity \in Sensitivities
  BY InputTypes, RowsAssumption DEF ClaimColumns
<1>5. input.claims[i].trust_level # "T0"
  BY <1>1, <1>2, <1>3
<1>6. ~AtLeast(input.claims[i].sensitivity, "S3")
  BY <1>1, <1>2, <1>3, <1>4 DEF AtLeast, Sensitivities
<1> QED
  BY <1>5, <1>6

-----------------------------------------------------------------------------
(* What every step leaves in place                                         *)

LEMMA RowTypes ==
    ASSUME Types
    PROVE  /\ Len(claims) \in Nat /\ DOMAIN claims = 1..Len(claims)
           /\ Len(proposals) \in Nat /\ DOMAIN proposals = 1..Len(proposals)
           /\ \A c \in DOMAIN claims : claims[c] \in StoredRow /\ claims[c].data \in ClaimData
           /\ \A p \in DOMAIN proposals : proposals[p] \in ProposalRow /\ proposals[p].data \in ClaimData
<1>1. proposals \in Seq(ProposalRow) /\ claims \in Seq(StoredRow)
  BY DEF Types
<1>2. \A c \in DOMAIN claims : claims[c] \in StoredRow
  BY <1>1, LenProperties
<1>3. \A p \in DOMAIN proposals : proposals[p] \in ProposalRow
  BY <1>1, LenProperties
<1> QED
  BY <1>1, <1>2, <1>3, LenProperties DEF StoredRow, ProposalRow

\* The tables only grow, and no edit makes a difference to what was decided: a
\* claim that is still listed as locked still is.
Kept ==
    /\ DOMAIN claims \subseteq DOMAIN claims' /\ DOMAIN proposals \subseteq DOMAIN proposals'
    /\ \A p \in DOMAIN proposals : proposals'[p].data = proposals[p].data
    /\ \A c \in DOMAIN claims : /\ SameFact(claims'[c].data, claims[c].data)
                                /\ (\E u \in Turns : c \in turn'[u].locked) /\ Held(c)
                                     => Held(c)'
    /\ versioned \subseteq versioned'

NoEntryFor(t) ==
    \A event \in {"turn_processed", "turn_failed"} :
      <<event, t>> \in audit' => <<event, t>> \in audit

LEMMA SameTables ==
    ASSUME UNCHANGED <<claims, proposals>>, versioned \subseteq versioned'
    PROVE  Kept
BY DEF Kept, Held, Current, SameFact

\* A turn that does nothing itself.
SameTurn(t) ==
    /\ turn'[t].phase = turn[t].phase /\ turn'[t].input = turn[t].input
    /\ turn'[t].todo = turn[t].todo /\ turn'[t].at = turn[t].at
    /\ turn'[t].taint = turn[t].taint /\ turn'[t].id = turn[t].id
    /\ turn'[t].seen = turn[t].seen /\ turn'[t].locked \subseteq turn[t].locked
    /\ turn'[t].created = turn[t].created /\ turn'[t].proposed = turn[t].proposed
    /\ turn'[t].rejected = turn[t].rejected

\* What a turn relies on survives the steps of everybody else.
LEMMA OtherTurn ==
    ASSUME NEW t \in Turns, TurnInv(t), Kept, NoEntryFor(t), SameTurn(t),
           MessagesOf(t)' = MessagesOf(t)
    PROVE  TurnInv(t)'
<1>1. TurnKnows(t)'
  BY DEF TurnInv, TurnKnows, Kept, SameTurn
<1>2. Filtered(t)'
  BY DEF TurnInv, TurnKnows, Filtered, Permitted, Kept, SameFact, SameTurn
<1>3. Reviewed(t)'
  BY DEF TurnInv, TurnKnows, Reviewed, Trusted, Extracted, Kept, SameFact, SameTurn
<1>4. ASSUME NEW d, NEW e, Uncontradicted(t, d), d.subject = e.subject, d.attribute = e.attribute,
             turn[t].locked \subseteq DOMAIN claims
      PROVE  \A c \in turn'[t].locked : ~claims_match(e, claims'[c].data)
  BY <1>4 DEF Uncontradicted, claims_match, Kept, SameFact, SameTurn
<1>5. LocksRespected(t)'
  <2>1. \A c \in turn'[t].locked : Held(c)'
    BY DEF TurnInv, TurnKnows, LocksRespected, Kept, SameTurn
  <2>2. ASSUME NEW p \in turn[t].proposed
        PROVE  Uncontradicted(t, proposals[p].data)'
    BY <1>4, <2>2 DEF TurnInv, TurnKnows, LocksRespected, Kept, Uncontradicted
  <2>3. ASSUME NEW c \in turn[t].created
        PROVE  Uncontradicted(t, claims[c].data)'
    BY <1>4, <2>3 DEF TurnInv, TurnKnows, LocksRespected, Kept, SameFact, Uncontradicted
  <2>4. turn[t].phase \in Forward => Uncontradicted(t, Extracted(t, turn[t].at))'
    BY <1>4 DEF TurnInv, TurnKnows, LocksRespected, Uncontradicted, Extracted, SameTurn
  <2>5. Faithful(turn[t].seen, turn[t].locked)'
    BY DEF TurnInv, LocksRespected, Faithful, Kept, SameFact, SameTurn
  <2> QED
    BY <2>1, <2>2, <2>3, <2>4, <2>5 DEF LocksRespected, SameTurn
<1>6. Accounted(t)'
  BY DEF TurnInv, Accounted, InHand, SameTurn
<1>7. Recorded(t)'
  BY DEF TurnInv, Recorded, Remembered, Kept, NoEntryFor, SameTurn
<1> QED
  BY <1>1, <1>2, <1>3, <1>5, <1>6, <1>7 DEF TurnInv

LEMMA UncountedSize ==
    IsFiniteSet(Uncounted) /\ Cardinality(Uncounted) \in Nat /\ Cardinality(Turns) \in Nat
BY InputsAssumption, FS_Subset, FS_CardinalityType DEF Uncounted

LEMMA BreakerStays ==
    ASSUME BreakerBounded, breaker' = breaker, Uncounted' \subseteq Uncounted
    PROVE  BreakerBounded'
<1>1. /\ Cardinality(Uncounted') <= Cardinality(Uncounted) /\ Cardinality(Uncounted') \in Nat
      /\ Cardinality(Uncounted) \in Nat /\ Cardinality(Turns) \in Nat
  BY UncountedSize, FS_Subset, FS_CardinalityType
<1> HIDE DEF Uncounted
<1> QED
  BY <1>1 DEF BreakerBounded

\* A step of one turn: what is left to show is what it does itself.
LEMMA OneTurn ==
    ASSUME PipelineInv, NEW t \in Turns, \A u \in Turns : u # t => turn'[u] = turn[u],
           Kept, \A u \in Turns : u # t => NoEntryFor(u), UNCHANGED desk,
           messages \subseteq messages', \A m \in messages' : m \in messages \/ m[1] = t,
           Types', BreakerBounded', TurnInv(t)'
    PROVE  PipelineInv'
<1>1. \A u \in Turns : TurnInv(u)'
  <2> SUFFICES ASSUME NEW u \in Turns, u # t
               PROVE  TurnInv(u)'
    OBVIOUS
  <2>1. SameTurn(u)
    BY DEF SameTurn
  <2>2. MessagesOf(u)' = MessagesOf(u)
    BY DEF MessagesOf
  <2> QED
    BY <2>1, <2>2, OtherTurn DEF PipelineInv
<1>2. \A s \in Desks : DeskKnows(s)'
  BY DEF PipelineInv, DeskKnows, At, Kept
<1> QED
  BY <1>1, <1>2 DEF PipelineInv

\* A step of a desk or of somebody who edits a claim.
LEMMA NoTurn ==
    ASSUME PipelineInv, \A u \in Turns : SameTurn(u), UNCHANGED <<breaker, messages>>, Kept,
           \A u \in Turns : NoEntryFor(u), Types', \A s \in Desks : DeskKnows(s)'
    PROVE  PipelineInv'
<1>1. \A u \in Turns : MessagesOf(u)' = MessagesOf(u)
  BY DEF MessagesOf
<1>2. \A u \in Turns : TurnInv(u)'
  BY <1>1, OtherTurn DEF PipelineInv
<1>3. Uncounted' \subseteq Uncounted
  BY DEF Uncounted, SameTurn
<1>4. BreakerBounded'
  BY <1>3, BreakerStays DEF PipelineInv
<1> QED
  BY <1>2, <1>4 DEF PipelineInv

\* A log entry about something else than a turn, or about one turn.
LEMMA OtherEntry ==
    ASSUME NEW event, NEW target, audit' = audit \/ Log(event, target), NEW t,
           event \notin {"turn_processed", "turn_failed"} \/ target # t
    PROVE  NoEntryFor(t)
BY DEF NoEntryFor, Log

-----------------------------------------------------------------------------
(* Steps that only move a turn on                                          *)

\* x is turn t with another phase, whether it still holds its rows or not.
Moved(t, x) ==
    /\ x \in TurnState /\ x.input = turn[t].input /\ x.todo = turn[t].todo
    /\ x.at = turn[t].at /\ x.taint = turn[t].taint /\ x.id = turn[t].id
    /\ x.locked = turn[t].locked /\ x.created = turn[t].created
    /\ x.proposed = turn[t].proposed /\ x.rejected = turn[t].rejected
    /\ x.seen \in {turn[t].seen, << >>}

\* What a turn knows when only its phase changes.
LEMMA PhaseKnows ==
    ASSUME PipelineInv, NEW t \in Turns, NEW x, Moved(t, x),
           turn' = [turn EXCEPT ![t] = x], UNCHANGED <<claims, proposals>>,
           x.phase \in Working => /\ turn[t].phase \in Working
                                  /\ x.phase \in Forward <=> turn[t].phase \in Forward,
           x.phase \notin {"new", "create", "version"},
           x.phase \in Forward => turn[t].phase \in Forward,
           x.phase \in Closing => turn[t].phase \in Closing \/ turn[t].todo = {}
    PROVE  /\ turn' \in [Turns -> TurnState] /\ turn'[t] = x
           /\ \A u \in Turns : u # t => turn'[u] = turn[u]
           /\ TurnKnows(t)' /\ Filtered(t)' /\ Reviewed(t)' /\ LocksRespected(t)' /\ Accounted(t)'
<1>1. turn \in [Turns -> TurnState] /\ turn[t] \in TurnState /\ TurnInv(t)
  BY DEF PipelineInv, Types
<1>2. /\ x \in TurnState /\ x.input = turn[t].input /\ x.todo = turn[t].todo
      /\ x.at = turn[t].at /\ x.taint = turn[t].taint /\ x.id = turn[t].id
      /\ x.locked = turn[t].locked /\ x.created = turn[t].created
      /\ x.proposed = turn[t].proposed /\ x.rejected = turn[t].rejected
      /\ x.seen \in {turn[t].seen, << >>}
  BY DEF Moved
<1>4. turn' \in [Turns -> TurnState] /\ turn'[t] = x /\ \A u \in Turns : u # t => turn'[u] = turn[u]
  BY <1>1, <1>2
<1>5. TurnKnows(t)'
  BY <1>1, <1>2, <1>4 DEF TurnInv, TurnKnows
<1>6. Filtered(t)'
  BY <1>1, <1>2, <1>4 DEF TurnInv, Filtered
<1>7. Reviewed(t)'
  BY <1>1, <1>2, <1>4 DEF TurnInv, Reviewed, Extracted
<1>8. LocksRespected(t)'
  <2>1. Faithful(x.seen, x.locked)
    BY <1>1, <1>2 DEF TurnInv, LocksRespected, Faithful
  <2> QED
    BY <1>1, <1>2, <1>4, <2>1 DEF TurnInv, LocksRespected, Uncontradicted, Held, Current, Extracted,
                                  Faithful
<1>9. Accounted(t)'
  BY <1>1, <1>2, <1>4 DEF TurnInv, Accounted, InHand
<1> QED
  BY <1>4, <1>5, <1>6, <1>7, <1>8, <1>9

LEMMA MovedStep ==
    ASSUME PipelineInv, NEW t \in Turns, NEW x, Moved(t, x), turn' = [turn EXCEPT ![t] = x],
           UNCHANGED <<claims, proposals, desk, edits>>,
           x.phase \in Working => /\ turn[t].phase \in Working
                                  /\ x.phase \in Forward <=> turn[t].phase \in Forward,
           x.phase \notin {"new", "create", "version"},
           x.phase \in Forward => turn[t].phase \in Forward,
           x.phase \in Closing => turn[t].phase \in Closing \/ turn[t].todo = {},
           versioned \subseteq versioned', versioned' \subseteq DOMAIN claims,
           messages \subseteq messages', messages' \subseteq Turns \X {"user", "assistant"},
           \A m \in messages' : m \in messages \/ m[1] = t,
           groups' \subseteq Turns,
           \A u \in Turns : u # t => NoEntryFor(u),
           BreakerBounded', Recorded(t)'
    PROVE  PipelineInv'
<1>1. /\ turn' \in [Turns -> TurnState] /\ turn'[t] = x
      /\ \A u \in Turns : u # t => turn'[u] = turn[u]
      /\ TurnKnows(t)' /\ Filtered(t)' /\ Reviewed(t)' /\ LocksRespected(t)' /\ Accounted(t)'
  BY PhaseKnows
<1>2. Types'
  BY <1>1 DEF PipelineInv, Types
<1>3. Kept
  BY SameTables
<1> QED
  BY <1>1, <1>2, <1>3, OneTurn DEF TurnInv

LEMMA PhaseStep ==
    ASSUME PipelineInv, NEW t \in Turns, NEW phase \in TurnPhases,
           turn' = [turn EXCEPT ![t] = [@ EXCEPT !.phase = phase]],
           UNCHANGED <<claims, proposals, desk, edits>>,
           phase \in Working => /\ turn[t].phase \in Working
                                /\ phase \in Forward <=> turn[t].phase \in Forward,
           phase \notin {"new", "create", "version"},
           phase \in Forward => turn[t].phase \in Forward,
           phase \in Closing => turn[t].phase \in Closing \/ turn[t].todo = {},
           versioned \subseteq versioned', versioned' \subseteq DOMAIN claims,
           messages \subseteq messages', messages' \subseteq Turns \X {"user", "assistant"},
           \A m \in messages' : m \in messages \/ m[1] = t,
           groups' \subseteq Turns,
           \A u \in Turns : u # t => NoEntryFor(u),
           BreakerBounded', Recorded(t)'
    PROVE  PipelineInv'
<1> DEFINE x == [turn[t] EXCEPT !.phase = phase]
<1>1. turn[t] \in TurnState
  BY DEF PipelineInv, Types
<1>2. Moved(t, x) /\ x.phase = phase
  BY <1>1 DEF TurnState, Moved
<1>3. turn' = [turn EXCEPT ![t] = x]
  OBVIOUS
<1> HIDE DEF x
<1> QED
  BY <1>2, <1>3, MovedStep

LEMMA BreakerPhase ==
    ASSUME PipelineInv, NEW t \in Turns, NEW phase \in TurnPhases, breaker' = breaker,
           turn' = [turn EXCEPT ![t] = [@ EXCEPT !.phase = phase]],
           phase \in Past \/ turn[t].phase \notin Past
    PROVE  BreakerBounded' /\ turn'[t] = [turn[t] EXCEPT !.phase = phase]
           /\ turn'[t].phase = phase /\ turn'[t].created = turn[t].created
           /\ turn'[t].input = turn[t].input /\ turn'[t].id = turn[t].id
<1>1. turn \in [Turns -> TurnState] /\ turn[t] \in TurnState
  BY DEF PipelineInv, Types
<1>2. Uncounted' \subseteq Uncounted
  BY <1>1 DEF Uncounted, TurnState
<1>3. BreakerBounded'
  BY <1>2, BreakerStays DEF PipelineInv
<1> QED
  BY <1>1, <1>3 DEF TurnState

LEMMA HoldingsHold ==
    ASSUME NEW held \in Holdings
    PROVE  DOMAIN held \in SUBSET Nat /\ \A c \in DOMAIN held : held[c] \in ClaimData
BY DEF Holdings

LEMMA NothingHeld == << >> \in Holdings
<1>1. << >> \in [{} -> ClaimData]
  OBVIOUS
<1> QED
  BY <1>1 DEF Holdings

LEMMA SameDomains == PipelineInv => /\ versioned \subseteq DOMAIN claims /\ groups \subseteq Turns
                                    /\ messages \subseteq Turns \X {"user", "assistant"}
BY DEF PipelineInv, Types

LEMMA RefuseStep ==
    ASSUME PipelineInv, NEW t \in Turns, Refuse(t)
    PROVE  PipelineInv'
<1>1. /\ turn[t].phase = "new" /\ turn' = [turn EXCEPT ![t] = [@ EXCEPT !.phase = "failing"]]
      /\ UNCHANGED <<proposals, claims, versioned, audit, desk, groups, messages, breaker, edits>>
  BY DEF Refuse, In, reviewVars
<1>2. "failing" \in TurnPhases /\ "failing" \notin Working /\ "failing" \notin Forward
      /\ "failing" \notin Closing /\ "failing" \in Past
  BY DEF TurnPhases, Working, Forward, Closing, Past
<1>3. /\ BreakerBounded' /\ turn'[t].phase = "failing"
  BY <1>1, <1>2, BreakerPhase
<1>4. Recorded(t)'
  BY <1>1, <1>2, <1>3 DEF PipelineInv, TurnInv, Recorded, MessagesOf, Remembered, Ending,
         Working
<1>5. \A u \in Turns : NoEntryFor(u)
  BY <1>1 DEF NoEntryFor
<1> QED
  BY <1>1, <1>2, <1>3, <1>4, <1>5, PhaseStep, SameDomains

LEMMA VanishStep ==
    ASSUME PipelineInv, NEW t \in Turns, Vanish(t)
    PROVE  PipelineInv'
<1>1. /\ turn[t].phase \notin {"new", "done", "failed", "gone"}
      /\ turn' = [turn EXCEPT ![t] = [@ EXCEPT !.phase = "gone"]]
      /\ UNCHANGED <<proposals, claims, versioned, audit, desk, groups, messages, breaker, edits>>
  BY DEF Vanish, In, reviewVars
<1>2. "gone" \in TurnPhases /\ "gone" \notin Working /\ "gone" \notin Forward
      /\ "gone" \notin Closing /\ "gone" \in Past
  BY DEF TurnPhases, Working, Forward, Closing, Past
<1>3. /\ BreakerBounded' /\ turn'[t].phase = "gone"
  BY <1>1, <1>2, BreakerPhase
<1>4. Recorded(t)'
  BY <1>1, <1>2, <1>3 DEF PipelineInv, TurnInv, Recorded, MessagesOf, Remembered, Ending,
         Working
<1>5. \A u \in Turns : NoEntryFor(u)
  BY <1>1 DEF NoEntryFor
<1> QED
  BY <1>1, <1>2, <1>3, <1>4, <1>5, PhaseStep, SameDomains

LEMMA FailureStep ==
    ASSUME PipelineInv, NEW t \in Turns, _audit_failure(t)
    PROVE  PipelineInv'
<1>1. /\ turn[t].phase = "failing" /\ turn' = [turn EXCEPT ![t] = [@ EXCEPT !.phase = "failed"]]
      /\ UNCHANGED <<proposals, claims, versioned, desk, groups, messages, breaker, edits>>
      /\ Log("turn_failed", t)
  BY DEF _audit_failure, In
<1>2. "failed" \in TurnPhases /\ "failed" \notin Working /\ "failed" \notin Forward
      /\ "failed" \notin Closing /\ "failed" \in Past
  BY DEF TurnPhases, Working, Forward, Closing, Past
<1>3. /\ BreakerBounded' /\ turn'[t].phase = "failed"
  BY <1>1, <1>2, BreakerPhase
<1>4. Recorded(t)'
  BY <1>1, <1>2, <1>3 DEF PipelineInv, TurnInv, Recorded, MessagesOf, Remembered, Ending,
         Working, Log
<1>5. \A u \in Turns : u # t => NoEntryFor(u)
  BY <1>1, OtherEntry
<1> QED
  BY <1>1, <1>2, <1>3, <1>4, <1>5, PhaseStep, SameDomains

LEMMA InsertGroupStep ==
    ASSUME PipelineInv, NEW t \in Turns, InsertGroup(t)
    PROVE  PipelineInv'
<1>1. /\ turn[t].phase = "group" /\ groups' \subseteq groups \union {t}
      /\ UNCHANGED <<proposals, claims, versioned, audit, desk, messages, breaker, edits>>
  BY DEF InsertGroup, In, reviewVars
<1>2. PICK phase \in {"failing", "propose"} : turn' = [turn EXCEPT ![t] = [@ EXCEPT !.phase = phase]]
  BY DEF InsertGroup
<1>3. /\ phase \in TurnPhases /\ phase \notin Closing /\ turn[t].phase \in Working /\ turn[t].phase \in Forward
      /\ phase \in Working => phase \in Forward
      /\ turn[t].phase \notin Past
  BY <1>1, <1>2 DEF TurnPhases, Working, Forward, Closing, Past
<1>4. /\ BreakerBounded' /\ turn'[t].phase = phase /\ turn'[t].created = turn[t].created
  BY <1>1, <1>2, <1>3, BreakerPhase
<1>5. Recorded(t)'
  BY <1>1, <1>2, <1>3, <1>4 DEF PipelineInv, TurnInv, Recorded, MessagesOf, Remembered, Ending,
         Working
<1>6. \A u \in Turns : NoEntryFor(u)
  BY <1>1 DEF NoEntryFor
<1>7. groups' \subseteq Turns
  BY <1>1, SameDomains
<1> QED
  BY <1>1, <1>2, <1>3, <1>4, <1>5, <1>6, <1>7, PhaseStep, SameDomains

LEMMA AdvanceStep ==
    ASSUME PipelineInv, NEW t \in Turns, AuditProposal(t) \/ AuditCreated(t)
    PROVE  PipelineInv'
<1>1. /\ turn[t].phase \in {"proposed", "claim_audit"}
      /\ turn' = [turn EXCEPT ![t] = [@ EXCEPT !.phase = "gates"]]
      /\ UNCHANGED <<proposals, claims, versioned, desk, groups, messages, breaker, edits>>
      /\ \E event \in {"proposal_created", "claim_created"} : Log(event, turn[t].id)
  BY DEF AuditProposal, AuditCreated, In, Advance
<1>2. /\ "gates" \in TurnPhases /\ "gates" \notin Forward /\ "gates" \notin Closing
      /\ turn[t].phase \in Working /\ turn[t].phase \notin Forward /\ turn[t].phase \notin Past
  BY <1>1 DEF TurnPhases, Working, Forward, Closing, Past
<1>3. /\ BreakerBounded' /\ turn'[t].phase = "gates" /\ turn'[t].created = turn[t].created
  BY <1>1, <1>2, BreakerPhase
<1>4. \A u \in Turns : NoEntryFor(u)
  BY <1>1, OtherEntry
<1>5. Recorded(t)'
  BY <1>1, <1>2, <1>3, <1>4 DEF PipelineInv, TurnInv, Recorded, MessagesOf, Remembered, Ending,
         Working, NoEntryFor
<1> QED
  BY <1>1, <1>2, <1>3, <1>4, <1>5, PhaseStep, SameDomains

LEMMA VersionStep ==
    ASSUME PipelineInv, NEW t \in Turns, Version(t)
    PROVE  PipelineInv'
<1>1. /\ turn[t].phase = "version" /\ versioned' = versioned \union {turn[t].id}
      /\ turn' = [turn EXCEPT ![t] = [@ EXCEPT !.phase = "claim_audit"]]
      /\ UNCHANGED <<proposals, claims, audit, desk, groups, messages, breaker, edits>>
  BY DEF Version, In
<1>2. /\ "claim_audit" \in TurnPhases /\ "claim_audit" \notin Forward /\ "claim_audit" \notin Closing
      /\ turn[t].phase \in Working /\ turn[t].phase \notin Forward /\ turn[t].phase \notin Past
  BY <1>1 DEF TurnPhases, Working, Forward, Closing, Past
<1>3. /\ BreakerBounded' /\ turn'[t].phase = "claim_audit" /\ turn'[t].created = turn[t].created
  BY <1>1, <1>2, BreakerPhase
<1>4. \A u \in Turns : NoEntryFor(u)
  BY <1>1 DEF NoEntryFor
<1>5. Recorded(t)'
  BY <1>1, <1>2, <1>3 DEF PipelineInv, TurnInv, Recorded, MessagesOf, Remembered, Ending,
         Working
<1>6. versioned' \subseteq DOMAIN claims
  BY <1>1, SameDomains DEF PipelineInv, TurnInv, TurnKnows
<1> QED
  BY <1>1, <1>2, <1>3, <1>4, <1>5, <1>6, PhaseStep, SameDomains

LEMMA GatedStep ==
    ASSUME PipelineInv, NEW t \in Turns, Gated(t)
    PROVE  PipelineInv'
<1> DEFINE phase == IF turn[t].input.chat THEN "user" ELSE "count"
           x == [turn[t] EXCEPT !.phase = phase, !.seen = << >>]
<1>1. /\ turn[t].phase = "gates" /\ turn[t].todo = {} /\ turn' = [turn EXCEPT ![t] = x]
      /\ UNCHANGED <<proposals, claims, versioned, audit, desk, groups, messages, breaker, edits>>
      /\ turn \in [Turns -> TurnState] /\ turn[t] \in TurnState /\ TurnInv(t)
  BY DEF Gated, In, reviewVars, PipelineInv, Types
<1>2. /\ phase \in TurnPhases /\ phase \notin Forward /\ phase \in {"user", "count"}
      /\ phase = "count" <=> ~turn[t].input.chat
      /\ turn[t].phase \in Working /\ turn[t].phase \notin Forward /\ turn[t].phase \notin Past
  BY <1>1 DEF TurnPhases, Working, Forward, Past
<1> HIDE DEF phase
<1>3. Moved(t, x) /\ x.phase = phase
  BY <1>1, <1>2, NothingHeld DEF TurnState, Moved
<1> HIDE DEF x
<1>4. /\ turn'[t] = x /\ x.created = turn[t].created /\ x.input = turn[t].input
      /\ \A u \in Turns : u # t => turn'[u] = turn[u]
  BY <1>1, <1>3 DEF Moved
<1>5. BreakerBounded'
  <2>1. Uncounted' \subseteq Uncounted
    BY <1>2, <1>4 DEF Uncounted
  <2> QED
    BY <1>1, <2>1, BreakerStays DEF PipelineInv
<1>6. \A u \in Turns : NoEntryFor(u)
  BY <1>1 DEF NoEntryFor
<1>7. Recorded(t)'
  BY <1>1, <1>2, <1>3, <1>4 DEF TurnInv, Recorded, MessagesOf, Remembered, Ending, Working
<1> QED
  BY <1>1, <1>2, <1>3, <1>5, <1>6, <1>7, MovedStep, SameDomains

LEMMA MessageStep ==
    ASSUME PipelineInv, NEW t \in Turns, AppendUser(t) \/ AppendAssistant(t)
    PROVE  PipelineInv'
<1>1. PICK role \in {"user", "assistant"}, from \in {"user", "assistant"}, to \in {"assistant", "count"} :
        /\ AppendMessage(t, role, from, to) /\ role = from
        /\ to = IF from = "user" /\ turn[t].input.answer THEN "assistant" ELSE "count"
  BY DEF AppendUser, AppendAssistant
<1>2. /\ turn[t].phase = from /\ messages' = messages \union {<<t, role>>}
      /\ turn' = [turn EXCEPT ![t] = [@ EXCEPT !.phase = to]]
      /\ UNCHANGED <<proposals, claims, versioned, audit, desk, groups, breaker, edits>>
  BY <1>1 DEF AppendMessage, In, reviewVars
<1>3. /\ to \in TurnPhases /\ to \notin Forward /\ turn[t].phase \in Working
      /\ turn[t].phase \in Closing /\ turn[t].phase \notin Forward /\ turn[t].phase \notin Past
  BY <1>1, <1>2 DEF TurnPhases, Working, Forward, Closing, Past
<1>4. /\ BreakerBounded' /\ turn'[t].phase = to /\ turn'[t].created = turn[t].created
      /\ turn'[t].input = turn[t].input
  <2>1. /\ to \in TurnPhases /\ breaker' = breaker /\ turn[t].phase \notin Past
        /\ turn' = [turn EXCEPT ![t] = [@ EXCEPT !.phase = to]]
    BY <1>2, <1>3
  <2> QED
    BY <2>1, BreakerPhase
<1>5. \A u \in Turns : NoEntryFor(u)
  BY <1>2 DEF NoEntryFor
<1>6. MessagesOf(t)' = MessagesOf(t) \union {<<t, role>>}
  BY <1>2 DEF MessagesOf
<1>7. Recorded(t)'
  <2>1. /\ turn[t].input.chat /\ TurnInv(t)
        /\ from = "user" => MessagesOf(t) = {}
        /\ from = "assistant" => turn[t].input.answer /\ MessagesOf(t) = {<<t, "user">>}
    BY <1>2, <1>3 DEF PipelineInv, TurnInv, Recorded, Ending
  <2>2. /\ to = "assistant" => /\ turn[t].input.answer
                               /\ MessagesOf(t)' = {<<t, "user">>}
        /\ to = "count" => MessagesOf(t)' = Remembered(t)'
    BY <1>1, <1>4, <1>6, <2>1 DEF Remembered
  <2> QED
    BY <1>1, <1>2, <1>3, <1>4, <2>1, <2>2 DEF TurnInv, Recorded, Ending
<1>8. /\ messages' \subseteq Turns \X {"user", "assistant"}
      /\ \A m \in messages' : m \in messages \/ m[1] = t
  BY <1>2, SameDomains
<1> QED
  BY <1>1, <1>2, <1>3, <1>4, <1>5, <1>7, <1>8, PhaseStep, SameDomains

LEMMA IncrementStep ==
    ASSUME PipelineInv, NEW t \in Turns, Increment(t)
    PROVE  PipelineInv'
<1>1. /\ turn[t].phase = "count" /\ breaker' = breaker + 1
      /\ turn' = [turn EXCEPT ![t] = [@ EXCEPT !.phase = "audit"]]
      /\ UNCHANGED <<proposals, claims, versioned, audit, desk, groups, messages, edits>>
  BY DEF Increment, In, reviewVars
<1>2. /\ "audit" \in TurnPhases /\ "audit" \notin Forward
      /\ turn[t].phase \in Working /\ turn[t].phase \in Closing /\ turn[t].phase \notin Forward
  BY <1>1 DEF TurnPhases, Working, Forward, Closing
<1>3. /\ turn'[t].phase = "audit" /\ turn'[t].created = turn[t].created
      /\ turn'[t].input = turn[t].input
      /\ \A u \in Turns : u # t => turn'[u] = turn[u]
  BY <1>1 DEF PipelineInv, Types, TurnState
<1>4. BreakerBounded'
  <2>1. Uncounted' = Uncounted \ {t} /\ t \in Uncounted
    BY <1>1, <1>3 DEF Uncounted, Past
  <2>2. Cardinality(Uncounted') = Cardinality(Uncounted) - 1
    BY <2>1, UncountedSize, FS_RemoveElement
  <2> HIDE DEF Uncounted
  <2> QED
    BY <1>1, <2>2, UncountedSize DEF PipelineInv, BreakerBounded
<1>5. \A u \in Turns : NoEntryFor(u)
  BY <1>1 DEF NoEntryFor
<1>6. Recorded(t)'
  BY <1>1, <1>2, <1>3 DEF PipelineInv, TurnInv, Recorded, MessagesOf, Remembered, Ending,
         Working
<1> QED
  BY <1>1, <1>2, <1>4, <1>5, <1>6, PhaseStep, SameDomains

LEMMA AuditTurnStep ==
    ASSUME PipelineInv, NEW t \in Turns, AuditTurn(t)
    PROVE  PipelineInv'
<1>1. /\ turn[t].phase = "audit" /\ turn' = [turn EXCEPT ![t] = [@ EXCEPT !.phase = "done"]]
      /\ UNCHANGED <<proposals, claims, versioned, desk, groups, messages, breaker, edits>>
      /\ Log("turn_processed", t)
  BY DEF AuditTurn, In
<1>2. /\ "done" \in TurnPhases /\ "done" \notin Forward /\ "done" \in Past
      /\ turn[t].phase \in Working /\ turn[t].phase \in Closing /\ turn[t].phase \notin Forward
  BY <1>1 DEF TurnPhases, Working, Forward, Closing, Past
<1>3. /\ BreakerBounded' /\ turn'[t].phase = "done" /\ turn'[t].created = turn[t].created
      /\ turn'[t].input = turn[t].input
  BY <1>1, <1>2, BreakerPhase
<1>4. \A u \in Turns : u # t => NoEntryFor(u)
  BY <1>1, OtherEntry
<1>5. Recorded(t)'
  BY <1>1, <1>2, <1>3 DEF PipelineInv, TurnInv, Recorded, MessagesOf, Remembered, Ending,
         Working, Log
<1> QED
  BY <1>1, <1>2, <1>3, <1>4, <1>5, PhaseStep, SameDomains

-----------------------------------------------------------------------------
(* Beginning, and the gates                                                *)

LEMMA FiniteSets ==
    ASSUME PipelineInv, NEW t \in Turns
    PROVE  /\ IsFiniteSet(turn[t].created) /\ Cardinality(turn[t].created) \in Nat
           /\ IsFiniteSet(turn[t].proposed) /\ Cardinality(turn[t].proposed) \in Nat
           /\ IsFiniteSet(turn[t].todo) /\ Cardinality(turn[t].todo) \in Nat
           /\ Cardinality(Allowed(turn[t].input)) \in Nat
<1>1. /\ Len(claims) \in Nat /\ DOMAIN claims = 1..Len(claims)
      /\ Len(proposals) \in Nat /\ DOMAIN proposals = 1..Len(proposals)
  BY RowTypes DEF PipelineInv
<1>2. IsFiniteSet(1..Len(claims)) /\ IsFiniteSet(1..Len(proposals))
  BY <1>1, FS_Interval
<1>3. IsFiniteSet(DOMAIN turn[t].input.claims)
  <2>1. CASE turn[t].input \in TurnInput
    BY <2>1, InputTypes
  <2>2. CASE turn[t].input = NoInput
    <3>1. DOMAIN turn[t].input.claims = {}
      BY <2>2 DEF NoInput
    <3> QED
      BY <3>1, FS_EmptySet
  <2> QED
    BY <2>1, <2>2 DEF PipelineInv, Types, TurnState
<1>4. IsFiniteSet(Allowed(turn[t].input))
  BY <1>3, FS_Subset DEF Allowed
<1>5. /\ turn[t].created \subseteq 1..Len(claims) /\ turn[t].proposed \subseteq 1..Len(proposals)
      /\ turn[t].todo \subseteq Allowed(turn[t].input)
  BY <1>1 DEF PipelineInv, TurnInv, TurnKnows
<1>6. IsFiniteSet(turn[t].created) /\ IsFiniteSet(turn[t].proposed) /\ IsFiniteSet(turn[t].todo)
  BY <1>2, <1>4, <1>5, FS_Subset
<1> QED
  BY <1>4, <1>6, FS_CardinalityType

LEMMA BeginStep ==
    ASSUME PipelineInv, NEW t \in Turns, Begin(t)
    PROVE  PipelineInv'
<1>1. PICK input \in Inputs[t] :
        turn' = [turn EXCEPT ![t] =
           [@ EXCEPT !.phase = "gates", !.input = input, !.todo = Allowed(input),
                     !.taint = Taint(input),
                     !.locked = {c \in CurrentClaims : claims[c].data.user_locked}]]
  BY DEF Begin
<1> DEFINE locked == {c \in CurrentClaims : claims[c].data.user_locked}
           x == [turn[t] EXCEPT !.phase = "gates", !.input = input, !.todo = Allowed(input),
                                !.taint = Taint(input), !.locked = locked]
<1>2. /\ turn[t].phase = "new" /\ UNCHANGED <<proposals, claims, versioned, audit, desk, groups,
                                            messages, breaker, edits>>
      /\ turn \in [Turns -> TurnState] /\ turn[t] \in TurnState /\ TurnInv(t)
  BY DEF Begin, In, reviewVars, PipelineInv, Types
<1>3. /\ input \in TurnInput /\ Allowed(input) \subseteq Nat /\ Taint(input) \in Taints
  BY InputsAssumption, InputTypes, TaintCovers
<1>4. locked \subseteq DOMAIN claims /\ locked \subseteq Nat
  BY RowTypes DEF CurrentClaims, PipelineInv
<1>5. \A c \in locked : Held(c)
  BY DEF CurrentClaims, Held
<1> HIDE DEF locked
<1>6. /\ x \in TurnState /\ x.phase = "gates" /\ x.input = input /\ x.todo = Allowed(input)
      /\ x.taint = Taint(input) /\ x.locked = locked /\ x.created = {} /\ x.proposed = {}
      /\ x.rejected = 0 /\ x.seen = << >>
  BY <1>2, <1>3, <1>4 DEF TurnState, TurnPhases, TurnInv, TurnKnows
<1>7. turn' = [turn EXCEPT ![t] = x]
  BY <1>1 DEF locked
<1> HIDE DEF x
<1>8. turn' \in [Turns -> TurnState] /\ turn'[t] = x /\ \A u \in Turns : u # t => turn'[u] = turn[u]
  BY <1>2, <1>6, <1>7
<1>9. TurnInv(t)'
  <2>1. TurnKnows(t)'
    BY <1>2, <1>3, <1>4, <1>6, <1>8 DEF TurnKnows, Forward
  <2>2. Filtered(t)' /\ Reviewed(t)' /\ LocksRespected(t)'
    BY <1>2, <1>5, <1>6, <1>8 DEF Filtered, Reviewed, LocksRespected, Faithful, Held, Current,
                                  Forward
  <2>3. Accounted(t)'
    <3>1. Cardinality({}) = 0 /\ Cardinality(Allowed(input)) \in Nat
      BY <1>3, InputTypes, FS_EmptySet, FS_Subset, FS_CardinalityType
    <3>2. /\ turn'[t].phase = "gates" /\ InHand(t)' = 0 /\ turn'[t].rejected = 0
          /\ Cardinality(turn'[t].created) = 0 /\ Cardinality(turn'[t].proposed) = 0
          /\ Cardinality(turn'[t].todo) = Cardinality(Allowed(input)) /\ turn'[t].input = input
      BY <1>6, <1>8, <3>1 DEF InHand, Forward
    <3> QED
      BY <3>1, <3>2 DEF Accounted, Closing
  <2>4. Recorded(t)'
    BY <1>2, <1>6, <1>8 DEF TurnInv, Recorded, MessagesOf, Remembered, Ending,
         Working
  <2> QED
    BY <2>1, <2>2, <2>3, <2>4 DEF TurnInv
<1>10. Types'
  BY <1>2, <1>8 DEF PipelineInv, Types
<1>11. BreakerBounded'
  <2>1. Uncounted' \subseteq Uncounted
    BY <1>2, <1>8 DEF Uncounted, Past
  <2> QED
    BY <1>2, <2>1, BreakerStays DEF PipelineInv
<1>12. Kept /\ \A u \in Turns : NoEntryFor(u)
  BY <1>2, SameTables DEF NoEntryFor
<1> QED
  BY <1>2, <1>8, <1>9, <1>10, <1>11, <1>12, OneTurn

\* Gate G3 refuses what a locked claim of the same attribute stands against,
\* also when the turn still holds its row from an earlier query.
LEMMA GatesSeeLocks ==
    ASSUME PipelineInv, NEW t \in Turns, NEW d \in ClaimData,
           Conflict(t, Tentative(d)) # "InvariantViolation"
    PROVE  Uncontradicted(t, d)
<1> SUFFICES ASSUME NEW c \in turn[t].locked, claims_match(d, claims[c].data)
             PROVE  FALSE
  BY DEF Uncontradicted
<1>1. /\ c \in DOMAIN claims /\ claims[c].data.user_locked /\ Current(c)
      /\ Faithful(turn[t].seen, turn[t].locked)
  BY DEF PipelineInv, TurnInv, TurnKnows, LocksRespected, Held
<1>2. SameFact(Tentative(d), d)
  BY TentativeKeeps
<1>3. View(t, c).user_locked /\ SameFact(View(t, c), claims[c].data)
  BY <1>1 DEF View, Faithful, SameFact
<1>4. c \in SameSubject(Tentative(d)) /\ claims_match(Tentative(d), View(t, c))
  BY <1>1, <1>2, <1>3 DEF SameSubject, CurrentClaims, claims_match, SameFact
<1>5. View(t, c) \in {View(t, e) : e \in SameSubject(Tentative(d))}
  BY <1>4
<1> QED
  BY <1>3, <1>4, <1>5 DEF Conflict, detect_conflicts

\* What a query adds to the rows held is as faithful as they were.
LEMMA LoadedIsFaithful ==
    ASSUME PipelineInv, NEW t \in Turns, NEW i
    PROVE  Loaded(t, i) \in Holdings /\ Faithful(Loaded(t, i), turn[t].locked)
<1>1. /\ turn[t].seen \in Holdings /\ Faithful(turn[t].seen, turn[t].locked)
      /\ \A c \in turn[t].locked : Held(c)
      /\ turn[t].created \subseteq DOMAIN claims /\ DOMAIN claims \subseteq Nat
      /\ \A c \in DOMAIN claims : claims[c].data \in ClaimData
  BY RowTypes DEF PipelineInv, Types, TurnState, TurnInv, TurnKnows, LocksRespected
<1> DEFINE found == SameSubject(Proposed(t, i)) \union LastCreated(t)
           rows == [c \in found |-> View(t, c)]
<1>2. found \subseteq DOMAIN claims
  BY <1>1 DEF SameSubject, CurrentClaims, LastCreated
<1>3. \A c \in DOMAIN turn[t].seen : turn[t].seen[c] \in ClaimData
  BY <1>1 DEF Holdings
<1> HIDE DEF found
<1>4. ASSUME NEW c \in found
      PROVE  /\ View(t, c) \in ClaimData /\ SameFact(View(t, c), claims[c].data)
             /\ c \in turn[t].locked => View(t, c).user_locked
  <2>1. CASE c \in DOMAIN turn[t].seen
    BY <1>1, <1>3, <2>1 DEF View, Faithful
  <2>2. CASE c \notin DOMAIN turn[t].seen
    BY <1>1, <1>2, <2>2 DEF View, SameFact, Held
  <2> QED
    BY <2>1, <2>2
<1>5. rows \in Holdings /\ Faithful(rows, turn[t].locked)
  <2>1. found \in SUBSET Nat
    BY <1>1, <1>2
  <2>2. rows \in [found -> ClaimData]
    BY <1>4
  <2> QED
    BY <1>2, <1>4, <2>1, <2>2 DEF Holdings, Faithful
<1>6. Loaded(t, i) = IF validate_schema(Extracted(t, i)) THEN rows ELSE turn[t].seen
  BY DEF Loaded, found
<1> HIDE DEF rows
<1> QED
  BY <1>1, <1>5, <1>6

LEMMA GatesStep ==
    ASSUME PipelineInv, NEW t \in Turns, Gates(t)
    PROVE  PipelineInv'
<1> DEFINE refused(i) == [turn[t] EXCEPT !.todo = turn[t].todo \ {i}, !.at = i,
                                         !.seen = Loaded(t, i),
                                         !.rejected = turn[t].rejected + 1]
           decided(i) == [turn[t] EXCEPT !.todo = turn[t].todo \ {i}, !.at = i,
                                         !.seen = Loaded(t, i),
                                         !.phase = NextPhase(t, i),
                                         !.foreign = NamesForeignClaim(Proposed(t, i))]
<1>1. PICK i \in turn[t].todo :
        \/ Rejects(t, i) /\ turn' = [turn EXCEPT ![t] = refused(i)]
        \/ ~Rejects(t, i) /\ turn' = [turn EXCEPT ![t] = decided(i)]
  BY DEF Gates
<1>2. /\ turn[t].phase = "gates" /\ UNCHANGED <<proposals, claims, versioned, audit, desk, groups,
                                            messages, breaker, edits>>
      /\ turn \in [Turns -> TurnState] /\ turn[t] \in TurnState /\ TurnInv(t)
  BY DEF Gates, In, reviewVars, PipelineInv, Types
<1>3. /\ turn[t].phase \in Working /\ turn[t].phase \notin Forward /\ turn[t].phase \notin Past
      /\ turn[t].phase \notin Closing
  BY <1>2 DEF Working, Forward, Past, Closing
<1> DEFINE todo == turn[t].todo \ {i}
<1>4. /\ turn[t].input \in TurnInput /\ turn[t].taint = Taint(turn[t].input)
      /\ i \in Allowed(turn[t].input) /\ i \in Nat /\ todo \subseteq Allowed(turn[t].input)
      /\ todo \in SUBSET Nat
      /\ Extracted(t, i) = turn[t].input.claims[i] /\ Extracted(t, i) \in ClaimData
  BY <1>2, <1>3, InputTypes DEF TurnInv, TurnKnows, TurnState, Extracted
<1>5. /\ Cardinality(turn[t].todo) = Cardinality(todo) + 1 /\ Cardinality(todo) \in Nat
  <2>1. Cardinality(todo) = Cardinality(turn[t].todo) - 1 /\ IsFiniteSet(todo)
    BY FiniteSets, FS_RemoveElement
  <2> HIDE DEF todo
  <2>2. Cardinality(todo) \in Nat
    BY <2>1, FS_CardinalityType
  <2> QED
    BY <2>1, <2>2, FiniteSets
<1> DEFINE seen == Loaded(t, i)
<1>s. seen \in Holdings /\ Faithful(seen, turn[t].locked)
  BY LoadedIsFaithful
<1> HIDE DEF todo, seen
<1>6. ASSUME NEW x \in TurnState, turn' = [turn EXCEPT ![t] = x],
             x.todo = todo, x.input = turn[t].input, x.taint = turn[t].taint,
             x.locked = turn[t].locked, x.created = turn[t].created,
             x.proposed = turn[t].proposed, Faithful(x.seen, turn[t].locked),
             \/ x.phase = "gates" /\ x.rejected = turn[t].rejected + 1
             \/ /\ x.phase \in {"failing", "group", "propose", "create"}
                /\ x.rejected = turn[t].rejected /\ x.at = i,
             x.phase \in Forward => Uncontradicted(t, Extracted(t, i)),
             x.phase = "create" => Trusted(Extracted(t, i)) /\ Clean(turn[t].input)
      PROVE  PipelineInv'
  <2>1. turn' \in [Turns -> TurnState] /\ turn'[t] = x /\ \A u \in Turns : u # t => turn'[u] = turn[u]
    BY <1>2, <1>6
  <2>2. TurnKnows(t)'
    BY <1>2, <1>4, <1>6, <2>1 DEF TurnInv, TurnKnows, Forward, Working
  <2>3. Filtered(t)'
    BY <1>2, <1>6, <2>1 DEF TurnInv, Filtered
  <2>4. Reviewed(t)'
    BY <1>2, <1>6, <2>1 DEF TurnInv, Reviewed, Extracted
  <2>5. LocksRespected(t)'
    BY <1>2, <1>6, <2>1 DEF TurnInv, LocksRespected, Uncontradicted, Held, Faithful, Current,
                            Extracted, Forward
  <2>6. Accounted(t)'
    <3>1. /\ Cardinality(turn[t].created) + Cardinality(turn[t].proposed) + turn[t].rejected
             + Cardinality(todo) + 1 = Cardinality(Allowed(turn[t].input))
          /\ turn[t].rejected + 1 <= Cardinality(Allowed(turn[t].input))
      <4>1. InHand(t) = 0 /\ turn[t].rejected \in Nat
        BY <1>2, <1>3 DEF InHand, TurnState
      <4>2. Cardinality(turn[t].created) + Cardinality(turn[t].proposed) + turn[t].rejected
              + Cardinality(turn[t].todo) + InHand(t) = Cardinality(Allowed(turn[t].input))
        BY <1>2, <1>3 DEF TurnInv, Accounted
      <4> DEFINE created == Cardinality(turn[t].created)
                 proposed == Cardinality(turn[t].proposed)
                 rejected == turn[t].rejected
                 left == Cardinality(turn[t].todo)
                 next == Cardinality(todo)
                 allowed == Cardinality(Allowed(turn[t].input))
      <4>3. /\ created \in Nat /\ proposed \in Nat /\ rejected \in Nat /\ next \in Nat
            /\ left = next + 1 /\ created + proposed + rejected + left + 0 = allowed
        BY <1>5, <4>1, <4>2, FiniteSets
      <4> HIDE DEF created, proposed, rejected, left, next, allowed
      <4>4. created + proposed + rejected + next + 1 = allowed /\ rejected + 1 <= allowed
        BY <4>3
      <4> QED
        BY <4>4 DEF created, proposed, rejected, left, next, allowed
    <3>2. turn[t].rejected \in Nat
      BY <1>2 DEF TurnState
    <3> QED
      BY <1>5, <1>6, <2>1, <3>1, <3>2, FiniteSets DEF Accounted, InHand, Forward, Closing, Working
  <2>7. Recorded(t)'
    BY <1>2, <1>3, <1>6, <2>1 DEF TurnInv, Recorded, MessagesOf, Remembered, Ending,
         Working
  <2>8. Types'
    BY <1>2, <2>1 DEF PipelineInv, Types
  <2>9. BreakerBounded'
    <3>1. Uncounted' \subseteq Uncounted
      BY <1>3, <2>1 DEF Uncounted
    <3> QED
      BY <1>2, <3>1, BreakerStays DEF PipelineInv
  <2>10. Kept /\ \A u \in Turns : NoEntryFor(u)
    BY <1>2, SameTables DEF NoEntryFor
  <2> QED
    BY <1>2, <2>1, <2>2, <2>3, <2>4, <2>5, <2>6, <2>7, <2>8, <2>9, <2>10, OneTurn DEF TurnInv
<1>7. CASE Rejects(t, i)
  <2> DEFINE x == [turn[t] EXCEPT !.todo = todo, !.at = i, !.seen = seen,
                                  !.rejected = turn[t].rejected + 1]
  <2>1. turn' = [turn EXCEPT ![t] = x]
    <3>1. x = refused(i)
      BY DEF todo, seen
    <3> HIDE DEF x, refused
    <3> QED
      BY <1>1, <1>7, <3>1
  <2>2. /\ x \in TurnState /\ x.todo = todo /\ x.input = turn[t].input /\ x.taint = turn[t].taint
        /\ x.locked = turn[t].locked /\ x.created = turn[t].created
        /\ x.proposed = turn[t].proposed /\ x.phase = "gates" /\ x.rejected = turn[t].rejected + 1
        /\ x.seen = seen
    <3>1. turn[t].rejected + 1 \in Nat
      BY <1>2 DEF TurnState
    <3> QED
      BY <1>2, <1>4, <1>s, <3>1 DEF TurnState
  <2> HIDE DEF x
  <2> QED
    BY <1>6, <1>s, <2>1, <2>2 DEF Forward
<1>8. CASE ~Rejects(t, i)
  <2> DEFINE phase == NextPhase(t, i)
             foreign == NamesForeignClaim(Proposed(t, i))
             x == [turn[t] EXCEPT !.todo = todo, !.at = i, !.seen = seen, !.phase = phase,
                                  !.foreign = foreign]
  <2>1. turn' = [turn EXCEPT ![t] = x]
    <3>1. x = decided(i)
      BY DEF todo, seen
    <3> HIDE DEF x, decided
    <3> QED
      BY <1>1, <1>8, <3>1
  <2>2. phase \in {"failing", "group", "propose", "create"} /\ foreign \in BOOLEAN
    BY DEF NextPhase, NamesForeignClaim
  <2>3. phase # "failing" => /\ validate_schema(Extracted(t, i))
                             /\ ~Unreadable(t, Proposed(t, i))
                             /\ Conflict(t, Proposed(t, i)) # "InvariantViolation"
                             /\ check_tainted_action(turn[t].taint) # "Block"
    BY <1>8 DEF Rejects, NextPhase, Aborts
  <2>4. phase \in Forward => Uncontradicted(t, Extracted(t, i))
    BY <1>4, <2>3, GatesSeeLocks DEF Forward, Proposed
  <2>5. phase = "create" => Trusted(Extracted(t, i)) /\ Clean(turn[t].input)
    <3> SUFFICES ASSUME phase = "create"
                 PROVE  Trusted(Extracted(t, i)) /\ Clean(turn[t].input)
      OBVIOUS
    <3>1. check_provenance(Proposed(t, i)) /\ check_tainted_action(turn[t].taint) # "Escalate"
      BY DEF NextPhase, requires_hitl
    <3>2. Trusted(Extracted(t, i))
      BY <1>4, <2>3, <3>1, TentativeKeeps
         DEF Trusted, validate_schema, check_provenance, SameFact, Proposed
    <3> QED
      BY <1>4, <2>3, <3>1, <3>2, CleanTaint
  <2> HIDE DEF phase, foreign
  <2>6. /\ x \in TurnState /\ x.todo = todo /\ x.input = turn[t].input /\ x.taint = turn[t].taint
        /\ x.locked = turn[t].locked /\ x.created = turn[t].created
        /\ x.proposed = turn[t].proposed /\ x.phase = phase /\ x.rejected = turn[t].rejected
        /\ x.at = i /\ x.seen = seen
    BY <1>2, <1>4, <1>s, <2>2 DEF TurnState, TurnPhases
  <2> HIDE DEF x
  <2> QED
    BY <1>6, <1>s, <2>1, <2>2, <2>4, <2>5, <2>6
<1> QED
  BY <1>7, <1>8

-----------------------------------------------------------------------------
(* The tables grow                                                         *)

LEMMA ProposalInserted ==
    ASSUME Types, NEW d \in ClaimData, InsertProposal(d), UNCHANGED <<claims, versioned>>
    PROVE  /\ Kept /\ proposals' \in Seq(ProposalRow)
           /\ DOMAIN proposals' = DOMAIN proposals \union {Len(proposals) + 1}
           /\ Len(proposals) + 1 \notin DOMAIN proposals /\ Len(proposals) + 1 \in Nat
           /\ proposals'[Len(proposals) + 1] = Proposal(d)
           /\ \A p \in DOMAIN proposals : proposals'[p] = proposals[p]
<1>1. proposals \in Seq(ProposalRow) /\ Len(proposals) \in Nat
      /\ DOMAIN proposals = 1..Len(proposals)
  BY RowTypes DEF Types
<1>2. Proposal(d) \in ProposalRow
  BY DEF Proposal, ProposalRow, Statuses
<1>3. proposals' = Append(proposals, Proposal(d))
  BY DEF InsertProposal
<1> HIDE DEF ProposalRow
<1>4. /\ proposals' \in Seq(ProposalRow) /\ Len(proposals') = Len(proposals) + 1
      /\ DOMAIN proposals' = 1..(Len(proposals) + 1)
      /\ proposals'[Len(proposals) + 1] = Proposal(d)
      /\ \A p \in 1..Len(proposals) : proposals'[p] = proposals[p]
  BY <1>1, <1>2, <1>3, AppendProperties
<1>5. 1..(Len(proposals) + 1) = 1..Len(proposals) \union {Len(proposals) + 1}
  BY <1>1
<1>6. Kept
  BY <1>1, <1>4, <1>5 DEF Kept, Held, Current, SameFact
<1> QED
  BY <1>1, <1>4, <1>5, <1>6

LEMMA ClaimInserted ==
    ASSUME Types, NEW d \in ClaimData, NEW p \in {0} \union DOMAIN proposals, InsertClaim(d, p),
           UNCHANGED <<proposals, versioned>>
    PROVE  /\ Kept /\ claims' \in Seq(StoredRow)
           /\ DOMAIN claims' = DOMAIN claims \union {Len(claims) + 1}
           /\ Len(claims) + 1 \notin DOMAIN claims /\ Len(claims) + 1 \in Nat
           /\ claims'[Len(claims) + 1] = ClaimRow(d, p)
           /\ \A c \in DOMAIN claims : claims'[c] = claims[c]
           /\ \A c \in DOMAIN claims' : claims'[c].proposal \in {0} \union DOMAIN proposals
<1>1. claims \in Seq(StoredRow) /\ Len(claims) \in Nat /\ DOMAIN claims = 1..Len(claims)
      /\ p \in Nat
  BY RowTypes DEF Types
<1>2. ClaimRow(d, p) \in StoredRow /\ ClaimRow(d, p).proposal = p
  BY <1>1 DEF ClaimRow, StoredRow
<1>3. claims' = Append(claims, ClaimRow(d, p))
  BY DEF InsertClaim
<1> HIDE DEF StoredRow
<1>4. /\ claims' \in Seq(StoredRow) /\ Len(claims') = Len(claims) + 1
      /\ DOMAIN claims' = 1..(Len(claims) + 1)
      /\ claims'[Len(claims) + 1] = ClaimRow(d, p)
      /\ \A c \in 1..Len(claims) : claims'[c] = claims[c]
  BY <1>1, <1>2, <1>3, AppendProperties
<1>5. 1..(Len(claims) + 1) = 1..Len(claims) \union {Len(claims) + 1}
  BY <1>1
<1>6. Kept
  BY <1>1, <1>4, <1>5 DEF Kept, Held, Current, SameFact
<1>7. \A c \in DOMAIN claims' : claims'[c].proposal \in {0} \union DOMAIN proposals
  BY <1>1, <1>2, <1>4, <1>5 DEF Types
<1> QED
  BY <1>1, <1>4, <1>5, <1>6, <1>7

\* The claim in hand, as it is stored.
LEMMA StoredKeeps ==
    ASSUME PipelineInv, NEW t \in Turns, turn[t].phase \in {"propose", "create"}
    PROVE  /\ Extracted(t, turn[t].at) \in ClaimData /\ Stored(t) \in ClaimData
           /\ SameFact(Stored(t), Extracted(t, turn[t].at))
           /\ Permitted(turn[t].input, Stored(t)) /\ Uncontradicted(t, Stored(t))
<1> DEFINE d == Extracted(t, turn[t].at)
<1>1. turn[t].phase \in Working /\ turn[t].phase \in Forward
  BY DEF Working, Forward
<1>2. /\ turn[t].input \in TurnInput /\ turn[t].at \in Allowed(turn[t].input)
      /\ Uncontradicted(t, d)
  BY <1>1 DEF PipelineInv, TurnInv, TurnKnows, LocksRespected
<1>3. d \in ClaimData /\ filter_claims(d, turn[t].input)
  BY <1>2, InputTypes DEF Allowed, Extracted
<1>4. Permitted(turn[t].input, d)
  BY <1>2, <1>3, FilterPermits
<1>5. Tentative(d) \in ClaimData /\ SameFact(Tentative(d), d)
  BY <1>3, TentativeKeeps
<1>6. /\ Stored(t) \in ClaimData /\ SameFact(Stored(t), Tentative(d))
  <2>1. Tentative(d) \in ClaimColumns /\ [Tentative(d) EXCEPT !.source_ref = "turn"] \in ClaimData
    BY <1>5, RowsAssumption
  <2>2. Stored(t) = [Tentative(d) EXCEPT !.source_ref =
                       IF Tentative(d).source_ref = "none" THEN "turn" ELSE Tentative(d).source_ref]
    BY DEF Stored, Proposed
  <2> DEFINE e == Tentative(d)
  <2> HIDE DEF e
  <2>3. CASE e.source_ref = "none"
    <3>1. Stored(t) = [e EXCEPT !.source_ref = "turn"]
      BY <2>2, <2>3 DEF e
    <3> QED
      BY <2>1, <3>1 DEF SameFact, ClaimColumns, e
  <2>4. CASE e.source_ref # "none"
    <3>1. Stored(t) = [e EXCEPT !.source_ref = e.source_ref]
      BY <2>2, <2>4 DEF e
    <3>2. Stored(t) = e
      BY <2>1, <3>1 DEF ClaimColumns, e
    <3> QED
      BY <1>5, <3>2 DEF SameFact, e
  <2> QED
    BY <2>3, <2>4
<1>7. SameFact(Stored(t), d)
  BY <1>5, <1>6 DEF SameFact
<1>8. Permitted(turn[t].input, Stored(t)) /\ Uncontradicted(t, Stored(t))
  BY <1>2, <1>4, <1>7 DEF Permitted, Uncontradicted, claims_match, SameFact
<1> QED
  BY <1>3, <1>6, <1>7, <1>8

LEMMA SizeGrows ==
    ASSUME NEW S, IsFiniteSet(S), NEW e, e \notin S
    PROVE  Cardinality(S \union {e}) = Cardinality(S) + 1
BY FS_AddElement

LEMMA ProposeStep ==
    ASSUME PipelineInv, NEW t \in Turns, Propose(t)
    PROVE  PipelineInv'
<1> DEFINE new == Len(proposals) + 1
           x == [turn[t] EXCEPT !.phase = "proposed", !.id = new,
                                !.proposed = turn[t].proposed \union {new}]
<1>1. /\ turn[t].phase = "propose" /\ InsertProposal(Stored(t))
      /\ UNCHANGED <<claims, versioned, audit, desk, groups, messages, breaker, edits>>
      /\ turn' = [turn EXCEPT ![t] = x]
      /\ turn \in [Turns -> TurnState] /\ turn[t] \in TurnState /\ TurnInv(t)
  BY DEF Propose, In, PipelineInv, Types
<1>2. /\ turn[t].phase \in Working /\ turn[t].phase \in Forward /\ turn[t].phase \notin Past
  BY <1>1 DEF Working, Forward, Past
<1>3. /\ Stored(t) \in ClaimData /\ Permitted(turn[t].input, Stored(t))
      /\ Uncontradicted(t, Stored(t))
  BY <1>1, StoredKeeps
<1>4. /\ Kept /\ proposals' \in Seq(ProposalRow)
      /\ DOMAIN proposals' = DOMAIN proposals \union {new}
      /\ new \notin DOMAIN proposals /\ new \in Nat
      /\ proposals'[new].data = Stored(t)
      /\ \A p \in DOMAIN proposals : proposals'[p] = proposals[p]
  <2>1. Types /\ UNCHANGED <<claims, versioned>>
    BY <1>1 DEF PipelineInv
  <2>2. /\ Kept /\ proposals' \in Seq(ProposalRow)
        /\ DOMAIN proposals' = DOMAIN proposals \union {new}
        /\ new \notin DOMAIN proposals /\ new \in Nat
        /\ proposals'[new] = Proposal(Stored(t))
        /\ \A p \in DOMAIN proposals : proposals'[p] = proposals[p]
    BY <1>1, <1>3, <2>1, ProposalInserted
  <2> QED
    BY <2>2 DEF Proposal
<1> HIDE DEF new
<1>5. /\ x \in TurnState /\ x.phase = "proposed" /\ x.input = turn[t].input /\ x.todo = turn[t].todo
      /\ x.taint = turn[t].taint /\ x.locked = turn[t].locked /\ x.created = turn[t].created
      /\ x.proposed = turn[t].proposed \union {new} /\ x.rejected = turn[t].rejected
      /\ x.seen = turn[t].seen
  BY <1>1, <1>4 DEF TurnState, TurnPhases
<1> HIDE DEF x
<1>6. turn' \in [Turns -> TurnState] /\ turn'[t] = x /\ \A u \in Turns : u # t => turn'[u] = turn[u]
  BY <1>1, <1>5
<1>7. TurnInv(t)'
  <2>1. TurnKnows(t)'
    BY <1>1, <1>2, <1>4, <1>5, <1>6 DEF TurnInv, TurnKnows, Forward
  <2>2. Filtered(t)'
    BY <1>1, <1>3, <1>4, <1>5, <1>6 DEF TurnInv, TurnKnows, Filtered
  <2>3. Reviewed(t)'
    BY <1>1, <1>5, <1>6 DEF TurnInv, Reviewed
  <2>4. LocksRespected(t)'
    BY <1>1, <1>3, <1>4, <1>5, <1>6 DEF TurnInv, TurnKnows, LocksRespected, Uncontradicted, Held,
                                        Faithful, Current, Forward
  <2>5. Accounted(t)'
    <3>1. Cardinality(turn[t].proposed \union {new}) = Cardinality(turn[t].proposed) + 1
      BY <1>1, <1>4, FiniteSets, SizeGrows DEF TurnInv, TurnKnows
    <3>2. InHand(t) = 1 /\ InHand(t)' = 0 /\ "proposed" \notin Closing
      BY <1>2, <1>5, <1>6 DEF InHand, Forward, Closing
    <3>3. Cardinality(turn[t].created) + Cardinality(turn[t].proposed) + turn[t].rejected
            + Cardinality(turn[t].todo) + InHand(t) = Cardinality(Allowed(turn[t].input))
      BY <1>1, <1>2 DEF TurnInv, Accounted
    <3>4. turn[t].rejected \in Nat /\ turn[t].rejected <= Cardinality(Allowed(turn[t].input))
      BY <1>1 DEF TurnState, TurnInv, Accounted
    <3> DEFINE created == Cardinality(turn[t].created)
               proposed == Cardinality(turn[t].proposed)
               rejected == turn[t].rejected
               left == Cardinality(turn[t].todo)
               allowed == Cardinality(Allowed(turn[t].input))
    <3>5. /\ created \in Nat /\ proposed \in Nat /\ rejected \in Nat /\ left \in Nat
          /\ created + proposed + rejected + left + 1 = allowed
      BY <3>2, <3>3, <3>4, FiniteSets
    <3> HIDE DEF created, proposed, rejected, left, allowed
    <3>6. created + (proposed + 1) + rejected + left + 0 = allowed
      BY <3>5
    <3> QED
      BY <1>5, <1>6, <3>1, <3>2, <3>4, <3>6
         DEF Accounted, created, proposed, rejected, left, allowed
  <2>6. Recorded(t)'
    BY <1>1, <1>2, <1>5, <1>6 DEF TurnInv, Recorded, MessagesOf, Remembered, Ending,
         Working
  <2> QED
    BY <2>1, <2>2, <2>3, <2>4, <2>5, <2>6 DEF TurnInv
<1>8. Types'
  BY <1>1, <1>4, <1>6 DEF PipelineInv, Types
<1>9. BreakerBounded'
  <2>1. Uncounted' \subseteq Uncounted
    BY <1>2, <1>6 DEF Uncounted
  <2> QED
    BY <1>1, <2>1, BreakerStays DEF PipelineInv
<1>10. \A u \in Turns : NoEntryFor(u)
  BY <1>1 DEF NoEntryFor
<1> QED
  BY <1>1, <1>4, <1>6, <1>7, <1>8, <1>9, <1>10, OneTurn

LEMMA CreateStep ==
    ASSUME PipelineInv, NEW t \in Turns, Create(t)
    PROVE  PipelineInv'
<1> DEFINE new == Len(claims) + 1
           seen == WithCreated(t)
           x == [turn[t] EXCEPT !.phase = "version", !.id = new, !.seen = seen,
                                !.created = turn[t].created \union {new}]
<1>1. /\ turn[t].phase = "create" /\ InsertClaim(Stored(t), 0)
      /\ UNCHANGED <<proposals, versioned, audit, desk, groups, messages, breaker, edits>>
      /\ turn' = [turn EXCEPT ![t] = x]
      /\ turn \in [Turns -> TurnState] /\ turn[t] \in TurnState /\ TurnInv(t)
  BY DEF Create, In, PipelineInv, Types
<1>2. /\ turn[t].phase \in Working /\ turn[t].phase \in Forward /\ turn[t].phase \notin Past
  BY <1>1 DEF Working, Forward, Past
<1>3. /\ Stored(t) \in ClaimData /\ Permitted(turn[t].input, Stored(t))
      /\ Uncontradicted(t, Stored(t)) /\ SameFact(Stored(t), Extracted(t, turn[t].at))
  BY <1>1, StoredKeeps
<1>4. /\ Kept /\ claims' \in Seq(StoredRow)
      /\ DOMAIN claims' = DOMAIN claims \union {new}
      /\ new \notin DOMAIN claims /\ new \in Nat
      /\ claims'[new].data = Stored(t)
      /\ \A c \in DOMAIN claims : claims'[c] = claims[c]
      /\ \A c \in DOMAIN claims' : claims'[c].proposal \in {0} \union DOMAIN proposals
  <2>1. Types /\ UNCHANGED <<proposals, versioned>>
    BY <1>1 DEF PipelineInv
  <2>2. /\ Kept /\ claims' \in Seq(StoredRow)
        /\ DOMAIN claims' = DOMAIN claims \union {new}
        /\ new \notin DOMAIN claims /\ new \in Nat
        /\ claims'[new] = ClaimRow(Stored(t), 0)
        /\ \A c \in DOMAIN claims : claims'[c] = claims[c]
        /\ \A c \in DOMAIN claims' : claims'[c].proposal \in {0} \union DOMAIN proposals
    BY <1>1, <1>3, <2>1, ClaimInserted
  <2> QED
    BY <2>2 DEF ClaimRow
<1>s. /\ seen \in Holdings
      /\ DOMAIN seen = DOMAIN turn[t].seen \union {new} /\ seen[new] = Stored(t)
      /\ \A c \in DOMAIN turn[t].seen : c # new => seen[c] = turn[t].seen[c]
  <2> DEFINE held == DOMAIN turn[t].seen \union {new}
  <2>1. held \in SUBSET Nat /\ \A c \in DOMAIN turn[t].seen : turn[t].seen[c] \in ClaimData
    <3>1. turn[t].seen \in Holdings
      BY <1>1 DEF TurnState
    <3> QED
      BY <1>4, <3>1, HoldingsHold
  <2>2. seen = [c \in held |-> IF c = new THEN Stored(t) ELSE turn[t].seen[c]]
    BY DEF WithCreated
  <2> HIDE DEF held, seen, new
  <2>3. seen \in [held -> ClaimData]
    <3>1. \A c \in held : (IF c = new THEN Stored(t) ELSE turn[t].seen[c]) \in ClaimData
      BY <1>3, <2>1 DEF held
    <3> QED
      BY <2>2, <3>1
  <2>4. seen \in Holdings
    BY <2>1, <2>3 DEF Holdings
  <2> QED
    BY <2>2, <2>4 DEF held
<1> HIDE DEF new, seen
<1>5. /\ x \in TurnState /\ x.phase = "version" /\ x.input = turn[t].input /\ x.todo = turn[t].todo
      /\ x.taint = turn[t].taint /\ x.locked = turn[t].locked /\ x.proposed = turn[t].proposed
      /\ x.created = turn[t].created \union {new} /\ x.rejected = turn[t].rejected /\ x.id = new
      /\ x.seen = seen
  BY <1>1, <1>4, <1>s DEF TurnState, TurnPhases
<1> HIDE DEF x
<1>6. turn' \in [Turns -> TurnState] /\ turn'[t] = x /\ \A u \in Turns : u # t => turn'[u] = turn[u]
  BY <1>1, <1>5
<1>7. TurnInv(t)'
  <2>1. TurnKnows(t)'
    BY <1>1, <1>2, <1>4, <1>5, <1>6 DEF TurnInv, TurnKnows, Forward
  <2>2. Filtered(t)'
    BY <1>1, <1>3, <1>4, <1>5, <1>6 DEF TurnInv, TurnKnows, Filtered
  <2>3. Reviewed(t)'
    <3>1. Trusted(Stored(t)) /\ Clean(turn[t].input)
      BY <1>1, <1>3 DEF TurnInv, Reviewed, Trusted, SameFact
    <3> QED
      BY <1>1, <1>4, <1>5, <1>6, <3>1 DEF TurnInv, TurnKnows, Reviewed
  <2>4. LocksRespected(t)'
    <3>1. Faithful(turn[t].seen, turn[t].locked) /\ turn[t].locked \subseteq DOMAIN claims
          /\ SameFact(Stored(t), Stored(t))
      BY <1>1 DEF TurnInv, TurnKnows, LocksRespected, SameFact
    <3>2. ASSUME NEW c \in DOMAIN seen
          PROVE  /\ c \in DOMAIN claims' /\ SameFact(seen[c], claims'[c].data)
                 /\ c \in turn'[t].locked => seen[c].user_locked
      <4>1. CASE c = new
        BY <1>4, <1>5, <1>6, <1>s, <3>1, <4>1
      <4>2. CASE c # new
        <5>1. c \in DOMAIN turn[t].seen /\ seen[c] = turn[t].seen[c]
          BY <1>s, <4>2
        <5>2. c \in DOMAIN claims /\ claims'[c] = claims[c]
          BY <1>4, <3>1, <5>1 DEF Faithful
        <5> QED
          BY <1>4, <1>5, <1>6, <3>1, <5>1, <5>2 DEF Faithful
      <4> QED
        BY <4>1, <4>2
    <3>3. \A c \in turn[t].locked : Held(c) /\ claims'[c] = claims[c]
      BY <1>1, <1>4, <3>1 DEF TurnInv, LocksRespected
    <3>4. /\ \A p \in turn[t].proposed : Uncontradicted(t, proposals[p].data)'
          /\ \A c \in turn'[t].created : Uncontradicted(t, claims[c].data)'
      BY <1>1, <1>3, <1>4, <1>5, <1>6, <3>3 DEF TurnInv, TurnKnows, LocksRespected, Uncontradicted
    <3>5. Faithful(turn[t].seen, turn[t].locked)'
      BY <1>5, <1>6, <3>2 DEF Faithful
    <3>6. \A c \in turn'[t].locked : Held(c)'
      BY <1>5, <1>6, <3>3 DEF Held, Current
    <3> QED
      BY <1>5, <1>6, <3>4, <3>5, <3>6 DEF LocksRespected, Forward
  <2>5. Accounted(t)'
    <3>1. Cardinality(turn[t].created \union {new}) = Cardinality(turn[t].created) + 1
      BY <1>1, <1>4, FiniteSets, SizeGrows DEF TurnInv, TurnKnows
    <3>2. InHand(t) = 1 /\ InHand(t)' = 0 /\ "version" \notin Closing
      BY <1>2, <1>5, <1>6 DEF InHand, Forward, Closing
    <3>3. Cardinality(turn[t].created) + Cardinality(turn[t].proposed) + turn[t].rejected
            + Cardinality(turn[t].todo) + InHand(t) = Cardinality(Allowed(turn[t].input))
      BY <1>1, <1>2 DEF TurnInv, Accounted
    <3>4. turn[t].rejected \in Nat /\ turn[t].rejected <= Cardinality(Allowed(turn[t].input))
      BY <1>1 DEF TurnState, TurnInv, Accounted
    <3> DEFINE created == Cardinality(turn[t].created)
               proposed == Cardinality(turn[t].proposed)
               rejected == turn[t].rejected
               left == Cardinality(turn[t].todo)
               allowed == Cardinality(Allowed(turn[t].input))
    <3>5. /\ created \in Nat /\ proposed \in Nat /\ rejected \in Nat /\ left \in Nat
          /\ created + proposed + rejected + left + 1 = allowed
      BY <3>2, <3>3, <3>4, FiniteSets
    <3> HIDE DEF created, proposed, rejected, left, allowed
    <3>6. (created + 1) + proposed + rejected + left + 0 = allowed
      BY <3>5
    <3> QED
      BY <1>5, <1>6, <3>1, <3>2, <3>4, <3>6
         DEF Accounted, created, proposed, rejected, left, allowed
  <2>6. Recorded(t)'
    BY <1>1, <1>2, <1>5, <1>6 DEF TurnInv, Recorded, MessagesOf, Remembered, Ending,
         Working
  <2> QED
    BY <2>1, <2>2, <2>3, <2>4, <2>5, <2>6 DEF TurnInv
<1>8. Types'
  BY <1>1, <1>4, <1>6 DEF PipelineInv, Types
<1>9. BreakerBounded'
  <2>1. Uncounted' \subseteq Uncounted
    BY <1>2, <1>6 DEF Uncounted
  <2> QED
    BY <1>1, <2>1, BreakerStays DEF PipelineInv
<1>10. \A u \in Turns : NoEntryFor(u)
  BY <1>1 DEF NoEntryFor
<1> QED
  BY <1>1, <1>4, <1>6, <1>7, <1>8, <1>9, <1>10, OneTurn

-----------------------------------------------------------------------------
(* Desks and edits                                                         *)

\* A step of one desk after which it is at to.
LEMMA OneDesk ==
    ASSUME PipelineInv, NEW s \in Desks, NEW to \in DeskState, desk' = [desk EXCEPT ![s] = to],
           UNCHANGED <<turn, breaker, groups, messages, edits>>,
           Kept, \A u \in Turns : NoEntryFor(u),
           proposals' \in Seq(ProposalRow), claims' \in Seq(StoredRow),
           \A c \in DOMAIN claims' : claims'[c].proposal \in {0} \union DOMAIN proposals',
           versioned' \subseteq DOMAIN claims',
           to.phase # "idle" => to.proposal \in DOMAIN proposals',
           to.phase \in {"version", "claim_audit", "approved"} => to.claim \in DOMAIN claims'
    PROVE  PipelineInv'
<1>1. desk' \in [Desks -> DeskState] /\ desk'[s] = to /\ \A r \in Desks : r # s => desk'[r] = desk[r]
  BY DEF PipelineInv, Types
<1>2. Types'
  BY <1>1 DEF PipelineInv, Types
<1>3. \A r \in Desks : DeskKnows(r)'
  BY <1>1 DEF PipelineInv, DeskKnows, At, Kept
<1>4. \A u \in Turns : SameTurn(u)
  BY DEF SameTurn
<1> QED
  BY <1>2, <1>3, <1>4, NoTurn

LEMMA DeskFacts ==
    ASSUME PipelineInv, NEW s \in Desks
    PROVE  /\ desk \in [Desks -> DeskState] /\ desk[s] \in DeskState /\ DeskKnows(s)
           /\ Idle \in DeskState /\ Idle.phase = "idle"
           /\ proposals \in Seq(ProposalRow) /\ claims \in Seq(StoredRow)
           /\ \A c \in DOMAIN claims : claims[c].proposal \in {0} \union DOMAIN proposals
           /\ versioned \subseteq DOMAIN claims
BY DEF PipelineInv, Types, Idle, DeskState, Phases

\* A desk that only moves on, by an audit entry or without one.
LEMMA DeskMoves ==
    ASSUME PipelineInv, NEW s \in Desks, NEW to \in DeskState, desk' = [desk EXCEPT ![s] = to],
           UNCHANGED <<proposals, claims, turn, breaker, groups, messages, edits>>,
           versioned \subseteq versioned', versioned' \subseteq DOMAIN claims,
           \A u \in Turns : NoEntryFor(u),
           to.phase # "idle" => to.proposal \in DOMAIN proposals,
           to.phase \in {"version", "claim_audit", "approved"} => to.claim \in DOMAIN claims
    PROVE  PipelineInv'
<1>1. Kept
  BY SameTables
<1> QED
  BY <1>1, DeskFacts, OneDesk

LEMMA SubmitStep ==
    ASSUME PipelineInv, UNCHANGED turnVars, NEW s \in Desks, create_proposal(s)
    PROVE  PipelineInv'
<1> DEFINE new == Len(proposals) + 1
           to == [phase |-> "submitted", proposal |-> new, claim |-> 0]
<1>1. PICK d \in ClaimData : InsertProposal(d)
  BY DEF create_proposal
<1>2. /\ desk' = [desk EXCEPT ![s] = to]
      /\ UNCHANGED <<claims, versioned, audit, turn, breaker, groups, messages, edits>>
  BY DEF create_proposal, turnVars
<1>3. Types /\ UNCHANGED <<claims, versioned>>
  BY <1>2 DEF PipelineInv
<1>4. /\ Kept /\ proposals' \in Seq(ProposalRow)
      /\ DOMAIN proposals' = DOMAIN proposals \union {new} /\ new \in Nat
  BY <1>1, <1>3, ProposalInserted
<1> HIDE DEF new
<1>5. to \in DeskState /\ to.phase = "submitted" /\ to.proposal = new
  BY <1>4 DEF DeskState, Phases
<1> HIDE DEF to
<1>6. \A u \in Turns : NoEntryFor(u)
  BY <1>2 DEF NoEntryFor
<1> QED
  BY <1>2, <1>4, <1>5, <1>6, DeskFacts, OneDesk

LEMMA OpenStep ==
    ASSUME PipelineInv, UNCHANGED turnVars, NEW s \in Desks, NEW p \in DOMAIN proposals,
           NEW phase \in {"approve", "reject"}, Open(s, p, phase)
    PROVE  PipelineInv'
<1> DEFINE to == [phase |-> phase, proposal |-> p, claim |-> 0]
<1>1. /\ desk' = [desk EXCEPT ![s] = to]
      /\ UNCHANGED <<proposals, claims, versioned, audit, turn, breaker, groups, messages, edits>>
  BY DEF Open, turnVars
<1>2. p \in Nat
  BY RowTypes DEF PipelineInv
<1>3. to \in DeskState /\ to.phase = phase /\ to.proposal = p
  BY <1>2 DEF DeskState, Phases
<1> HIDE DEF to
<1>4. \A u \in Turns : NoEntryFor(u)
  BY <1>1 DEF NoEntryFor
<1> QED
  BY <1>1, <1>3, <1>4, DeskFacts, DeskMoves

\* Audit entries and failures that send a desk home.
LEMMA HomeStep ==
    ASSUME PipelineInv, UNCHANGED turnVars, NEW s \in Desks,
           AuditSubmission(s) \/ AuditApproval(s) \/ AuditRejection(s) \/ Crash(s)
    PROVE  PipelineInv'
<1>1. /\ desk' = [desk EXCEPT ![s] = Idle]
      /\ UNCHANGED <<proposals, claims, versioned, turn, breaker, groups, messages, edits>>
  BY DEF AuditSubmission, AuditApproval, AuditRejection, Crash, turnVars
<1>2. \E event \in {"proposal_created", "memory_confirmed", "memory_rejected"} :
        audit' = audit \/ Log(event, desk[s].proposal)
  BY DEF AuditSubmission, AuditApproval, AuditRejection, Crash
<1>3. \A u \in Turns : NoEntryFor(u)
  BY <1>2, OtherEntry
<1> QED
  BY <1>1, <1>3, DeskFacts, DeskMoves

\* The status of a proposal changes.
LEMMA DecideStep ==
    ASSUME PipelineInv, UNCHANGED turnVars, NEW s \in Desks, Confirm(s) \/ Reject(s)
    PROVE  PipelineInv'
<1> DEFINE p == desk[s].proposal
<1>1. /\ desk[s].phase \in {"approve", "reject"}
      /\ UNCHANGED <<claims, versioned, audit, turn, breaker, groups, messages, edits>>
      /\ desk[s] \in DeskState /\ p \in DOMAIN proposals /\ p \in Nat
      /\ proposals \in Seq(ProposalRow) /\ proposals[p] \in ProposalRow
  BY DeskFacts, RowTypes DEF Confirm, Reject, At, turnVars, PipelineInv, DeskKnows
<1>2. PICK phase \in {"create", "rejected"}, row \in ProposalRow :
        /\ desk' = [desk EXCEPT ![s] = [@ EXCEPT !.phase = phase]]
        /\ proposals' = [proposals EXCEPT ![p] = row] /\ row.data = proposals[p].data
  <2>1. CASE Confirm(s)
    <3> DEFINE row == [proposals[p] EXCEPT !.status = "confirmed",
                                           !.approved = proposals[p].approved \union {s}]
    <3>1. row \in ProposalRow /\ row.data = proposals[p].data
      BY <1>1 DEF ProposalRow, Statuses
    <3>2. /\ desk' = [desk EXCEPT ![s] = [@ EXCEPT !.phase = "create"]]
          /\ proposals' = [proposals EXCEPT ![p] = row]
      BY <2>1 DEF Confirm, Go
    <3> HIDE DEF row
    <3> QED
      BY <3>1, <3>2
  <2>2. CASE Reject(s)
    <3> DEFINE row == [proposals[p] EXCEPT !.status = "rejected", !.reason = TRUE]
    <3>1. row \in ProposalRow /\ row.data = proposals[p].data
      BY <1>1 DEF ProposalRow, Statuses
    <3>2. /\ desk' = [desk EXCEPT ![s] = [@ EXCEPT !.phase = "rejected"]]
          /\ proposals' = [proposals EXCEPT ![p] = row]
      BY <2>2 DEF Reject, Go
    <3> HIDE DEF row
    <3> QED
      BY <3>1, <3>2
  <2> QED
    BY <2>1, <2>2
<1> DEFINE to == [desk[s] EXCEPT !.phase = phase]
<1>3. to \in DeskState /\ to.phase = phase /\ to.proposal = p /\ desk' = [desk EXCEPT ![s] = to]
  BY <1>1, <1>2 DEF DeskState, Phases
<1> HIDE DEF to
<1>4. /\ proposals' \in Seq(ProposalRow) /\ DOMAIN proposals' = DOMAIN proposals
      /\ proposals'[p].data = proposals[p].data
      /\ \A q \in DOMAIN proposals : q # p => proposals'[q] = proposals[q]
  <2> HIDE DEF p
  <2> QED
    BY <1>1, <1>2
<1>5. Kept
  BY <1>1, <1>4 DEF Kept, Held, Current, SameFact
<1>6. \A u \in Turns : NoEntryFor(u)
  BY <1>1 DEF NoEntryFor
<1> HIDE DEF p
<1> QED
  BY <1>1, <1>3, <1>4, <1>5, <1>6, DeskFacts, OneDesk

LEMMA DeskCreates ==
    ASSUME PipelineInv, UNCHANGED turnVars, NEW s \in Desks, CreateClaim(s)
    PROVE  PipelineInv'
<1> DEFINE p == desk[s].proposal
           new == Len(claims) + 1
           to == [phase |-> "version", proposal |-> p, claim |-> new]
<1>1. /\ desk[s].phase = "create"
      /\ UNCHANGED <<proposals, versioned, audit, turn, breaker, groups, messages, edits>>
      /\ desk[s] \in DeskState /\ p \in DOMAIN proposals /\ p \in Nat
      /\ proposals[p].data \in ClaimData
  BY DeskFacts, RowTypes DEF CreateClaim, At, turnVars, PipelineInv, DeskKnows
<1>2. InsertClaim(proposals[p].data, p) /\ desk' = [desk EXCEPT ![s] = to]
  BY DEF CreateClaim
<1>3. Types /\ UNCHANGED <<proposals, versioned>>
  BY <1>1 DEF PipelineInv
<1> HIDE DEF p
<1>4. /\ Kept /\ claims' \in Seq(StoredRow)
      /\ DOMAIN claims' = DOMAIN claims \union {new} /\ new \in Nat
      /\ \A c \in DOMAIN claims' : claims'[c].proposal \in {0} \union DOMAIN proposals
  BY <1>1, <1>2, <1>3, ClaimInserted
<1> HIDE DEF new
<1>5. to \in DeskState /\ to.phase = "version" /\ to.proposal = p /\ to.claim = new
  BY <1>1, <1>4 DEF DeskState, Phases
<1> HIDE DEF to
<1>6. \A u \in Turns : NoEntryFor(u)
  BY <1>1 DEF NoEntryFor
<1> QED
  BY <1>1, <1>2, <1>4, <1>5, <1>6, DeskFacts, OneDesk

LEMMA DeskRecords ==
    ASSUME PipelineInv, UNCHANGED turnVars, NEW s \in Desks, RecordVersion(s) \/ AuditClaim(s)
    PROVE  PipelineInv'
<1>1. /\ desk[s].phase \in {"version", "claim_audit"}
      /\ UNCHANGED <<proposals, claims, turn, breaker, groups, messages, edits>>
      /\ desk[s] \in DeskState /\ desk[s].proposal \in DOMAIN proposals
      /\ desk[s].claim \in DOMAIN claims
      /\ versioned' = versioned \/ versioned' = versioned \union {desk[s].claim}
  BY DeskFacts DEF RecordVersion, AuditClaim, At, turnVars, DeskKnows
<1>2. PICK phase \in {"claim_audit", "approved"} : desk' = [desk EXCEPT ![s] = [@ EXCEPT !.phase = phase]]
  BY DEF RecordVersion, AuditClaim, Go
<1> DEFINE to == [desk[s] EXCEPT !.phase = phase]
<1>3. /\ to \in DeskState /\ to.phase = phase /\ to.proposal = desk[s].proposal
      /\ to.claim = desk[s].claim /\ desk' = [desk EXCEPT ![s] = to]
  BY <1>1, <1>2 DEF DeskState, Phases
<1> HIDE DEF to
<1>4. audit' = audit \/ Log("claim_created", desk[s].claim)
  BY DEF RecordVersion, AuditClaim
<1>5. \A u \in Turns : NoEntryFor(u)
  BY <1>4, OtherEntry
<1>6. versioned \subseteq versioned' /\ versioned' \subseteq DOMAIN claims
  BY <1>1, DeskFacts
<1> QED
  BY <1>1, <1>2, <1>3, <1>5, <1>6, DeskMoves

LEMMA EditStep ==
    ASSUME PipelineInv, NEW c \in DOMAIN claims, NEW edit \in Edits, Edit(c, edit)
    PROVE  PipelineInv'
<1> DEFINE row == [claims[c] EXCEPT !.data = Edited(claims[c].data, edit)]
           left(t) == IF edit \in Releases THEN turn[t].locked \ {c} ELSE turn[t].locked
<1>1. /\ claims' = [claims EXCEPT ![c] = row] /\ edits < MaxEdits /\ edits' = edits + 1
      /\ UNCHANGED <<proposals, versioned, audit, desk, groups, messages, breaker>>
      /\ turn' = [t \in Turns |-> [turn[t] EXCEPT !.locked = left(t)]]
  BY DEF Edit
<1>2. /\ claims[c] \in StoredRow /\ claims[c].data \in ClaimData /\ claims \in Seq(StoredRow)
      /\ \A t \in Turns : turn[t] \in TurnState
  BY RowTypes DEF PipelineInv, Types
<1>3. /\ row \in StoredRow /\ row.proposal = claims[c].proposal
      /\ row.data = Edited(claims[c].data, edit)
  BY <1>2, EditedKeeps DEF StoredRow
<1> HIDE DEF row
<1>4. /\ claims' \in Seq(StoredRow) /\ DOMAIN claims' = DOMAIN claims
      /\ claims'[c] = row /\ \A d \in DOMAIN claims : d # c => claims'[d] = claims[d]
  BY <1>1, <1>2, <1>3
<1>5. \A t \in Turns : left(t) \subseteq turn[t].locked /\ (edit \in Releases => c \notin left(t))
  OBVIOUS
<1> HIDE DEF left
<1>6. \A t \in Turns : /\ turn'[t] \in TurnState /\ SameTurn(t) /\ turn'[t].locked = left(t)
  BY <1>1, <1>2, <1>5 DEF TurnState, SameTurn
<1>7. Kept
  <2>1. SameFact(claims'[c].data, claims[c].data)
    BY <1>2, <1>3, <1>4, EditedKeeps
  <2>2. ASSUME NEW t \in Turns, c \in turn'[t].locked, Held(c)
        PROVE  Held(c)'
    <3>1. edit \notin Releases
      BY <1>5, <1>6, <2>2
    <3> QED
      BY <1>2, <1>3, <1>4, <2>2, <3>1, EditedKeeps DEF Held, Current
  <2> QED
    BY <1>1, <1>4, <2>1, <2>2 DEF Kept, Held, Current, SameFact
<1>8. Types'
  <2>1. turn' \in [Turns -> TurnState]
    BY <1>1, <1>6
  <2>2. \A d \in DOMAIN claims' : claims'[d].proposal \in {0} \union DOMAIN proposals'
    BY <1>1, <1>3, <1>4 DEF PipelineInv, Types
  <2> QED
    <3>1. edits' \in 0 .. MaxEdits
      BY <1>1, InputsAssumption DEF PipelineInv, Types
    <3> QED
      BY <1>1, <1>4, <2>1, <2>2, <3>1 DEF PipelineInv, Types
<1>9. \A u \in Turns : NoEntryFor(u)
  BY <1>1 DEF NoEntryFor
<1>10. \A s \in Desks : DeskKnows(s)'
  BY <1>1, <1>4 DEF PipelineInv, DeskKnows, At
<1> QED
  BY <1>1, <1>6, <1>7, <1>8, <1>9, <1>10, NoTurn

-----------------------------------------------------------------------------
(* The invariant holds                                                     *)

LEMMA PipelineInit == Init => PipelineInv
<1> SUFFICES ASSUME Init
             PROVE  PipelineInv
  OBVIOUS
<1>1. PICK initial \in InitialClaims : claims = [c \in DOMAIN initial |-> ClaimRow(initial[c], 0)]
  BY DEF Init
<1>2. /\ proposals = << >> /\ audit = {} /\ desk = [s \in Desks |-> Idle]
      /\ versioned = DOMAIN claims /\ turn = [t \in Turns |-> NewTurn] /\ groups = {}
      /\ messages = {} /\ breaker = 0 /\ edits = 0
  BY DEF Init
<1>3. claims \in Seq(StoredRow) /\ \A c \in DOMAIN claims : claims[c].proposal = 0
  <2>1. /\ Len(initial) \in Nat /\ DOMAIN initial = 1..Len(initial)
        /\ \A c \in DOMAIN initial : initial[c] \in ClaimData
    BY RowsAssumption, LenProperties
  <2>2. \A c \in 1..Len(initial) : /\ ClaimRow(initial[c], 0) \in StoredRow
                                   /\ ClaimRow(initial[c], 0).proposal = 0
    BY <2>1 DEF ClaimRow, StoredRow
  <2> QED
    BY <1>1, <2>1, <2>2
<1>4. NewTurn \in TurnState
  <2>1. Untainted \in Taints
    BY DEF Untainted, Taints, TrustRank, Sensitivities
  <2> QED
    BY <2>1, NothingHeld DEF NewTurn, TurnState, TurnPhases
<1>5. Idle \in DeskState /\ Idle.phase = "idle"
  BY DEF Idle, DeskState, Phases
<1>6. proposals \in Seq(ProposalRow)
  BY <1>2
<1>7. Types
  BY <1>2, <1>3, <1>4, <1>5, <1>6, InputsAssumption DEF Types
<1>8. BreakerBounded
  <2>1. Cardinality(Uncounted) <= Cardinality(Turns)
    BY InputsAssumption, FS_Subset DEF Uncounted
  <2> HIDE DEF Uncounted
  <2> QED
    BY <1>2, <2>1, UncountedSize DEF BreakerBounded
<1>9. ASSUME NEW t \in Turns
      PROVE  TurnInv(t)
  <2>1. /\ turn[t] = NewTurn /\ turn[t].phase = "new" /\ turn[t].created = {}
        /\ turn[t].proposed = {} /\ turn[t].locked = {} /\ turn[t].todo = {}
        /\ turn[t].rejected = 0 /\ turn[t].seen = << >> /\ MessagesOf(t) = {}
    BY <1>2 DEF NewTurn, MessagesOf
  <2>2. "new" \notin Working /\ "new" \notin Forward /\ "new" \notin Closing
    BY DEF Working, Forward, Closing
  <2>3. TurnKnows(t) /\ Filtered(t) /\ Reviewed(t) /\ LocksRespected(t) /\ Recorded(t)
    BY <1>2, <2>1, <2>2 DEF TurnKnows, Filtered, Reviewed, LocksRespected, Faithful, Recorded
  <2>4. Cardinality(Allowed(turn[t].input)) >= 0
    <3>1. Allowed(turn[t].input) = {}
      BY <2>1 DEF NewTurn, NoInput, Allowed
    <3> QED
      BY <3>1, FS_EmptySet
  <2>5. Accounted(t)
    BY <2>1, <2>2, <2>4 DEF Accounted
  <2> QED
    BY <2>3, <2>5 DEF TurnInv
<1>10. \A s \in Desks : DeskKnows(s)
  BY <1>2, <1>5 DEF DeskKnows, At
<1> QED
  BY <1>7, <1>8, <1>9, <1>10 DEF PipelineInv

LEMMA PipelineStep ==
    ASSUME PipelineInv, [Next]_vars
    PROVE  PipelineInv'
<1>1. CASE UNCHANGED vars
  <2>1. UNCHANGED <<proposals, claims, versioned, audit, desk, turn, groups, messages, breaker, edits>>
    BY <1>1 DEF vars, reviewVars, turnVars
  <2>2. Kept /\ \A u \in Turns : NoEntryFor(u)
    BY <2>1, SameTables DEF NoEntryFor
  <2>3. Types' /\ \A s \in Desks : DeskKnows(s)'
    BY <2>1 DEF PipelineInv, Types, DeskKnows, At
  <2>4. \A u \in Turns : SameTurn(u)
    BY <2>1 DEF SameTurn
  <2> QED
    BY <2>1, <2>2, <2>3, <2>4, NoTurn
<1>2. ASSUME NEW s \in Desks, UNCHANGED turnVars,
             \/ create_proposal(s)
             \/ \E p \in DOMAIN proposals : approve_proposal(s, p) \/ reject_proposal(s, p)
             \/ Review(s) \/ Crash(s)
      PROVE  PipelineInv'
  BY <1>2, SubmitStep, OpenStep, HomeStep, DecideStep, DeskCreates, DeskRecords
     DEF Review, approve_proposal, reject_proposal
<1>3. ASSUME NEW t \in Turns, Process(t) \/ Vanish(t)
      PROVE  PipelineInv'
  BY <1>3, BeginStep, RefuseStep, GatesStep, InsertGroupStep, ProposeStep, AdvanceStep, CreateStep,
     VersionStep, GatedStep, MessageStep, IncrementStep, AuditTurnStep, FailureStep, VanishStep
     DEF Process
<1>4. CASE ReviewNext /\ UNCHANGED turnVars
  BY <1>2, <1>4 DEF ReviewNext
<1> QED
  BY <1>1, <1>3, <1>4, EditStep DEF Next

LEMMA PipelineHolds == Spec => []PipelineInv
<1>1. PipelineInv /\ [Next]_vars => PipelineInv'
  BY PipelineStep
<1> QED
  BY <1>1, PipelineInit, PTL DEF Spec

-----------------------------------------------------------------------------
(* The properties                                                          *)

LEMMA InvIsTyped == PipelineInv => TypeOK
<1> SUFFICES ASSUME PipelineInv
             PROVE  TypeOK
  OBVIOUS
<1>1. /\ \A c \in DOMAIN claims : /\ claims[c].data \in ClaimData
                                 /\ claims[c].proposal \in {0} \union DOMAIN proposals
      /\ \A p \in DOMAIN proposals : proposals[p].data \in ClaimData
  BY RowTypes DEF PipelineInv, Types
<1>2. breaker \in 0 .. Cardinality(Turns)
  <2> HIDE DEF Uncounted
  <2> QED
    BY UncountedSize DEF PipelineInv, BreakerBounded
<1>3. ASSUME NEW t \in Turns
      PROVE  /\ turn[t].phase \in TurnPhases
             /\ turn[t].created \subseteq DOMAIN claims
             /\ turn[t].proposed \subseteq DOMAIN proposals
             /\ turn[t].todo \subseteq DOMAIN turn[t].input.claims
             /\ turn[t].rejected \in 0 .. Cardinality(Allowed(turn[t].input))
  <2>1. turn[t] \in TurnState /\ TurnInv(t)
    BY DEF PipelineInv, Types
  <2>2. turn[t].rejected \in 0 .. Cardinality(Allowed(turn[t].input))
    BY <2>1, FiniteSets DEF TurnInv, Accounted, TurnState
  <2> QED
    BY <2>1, <2>2 DEF TurnInv, TurnKnows, TurnState, Allowed
<1> QED
  BY <1>1, <1>2, <1>3 DEF PipelineInv, Types, TypeOK

LEMMA InvIsReviewed == PipelineInv => NothingUnreviewed
BY DEF PipelineInv, TurnInv, Reviewed, NothingUnreviewed, Trusted, Clean

LEMMA InvIsFiltered == PipelineInv => FilteredStaysOut
BY DEF PipelineInv, TurnInv, Filtered, FilteredStaysOut, Written, Permitted

LEMMA InvRespectsLocks == PipelineInv => LockedBeforeTurn
BY DEF PipelineInv, TurnInv, LocksRespected, LockedBeforeTurn, Uncontradicted

LEMMA InvIsComplete == PipelineInv => ProcessedIsComplete
<1> SUFFICES ASSUME PipelineInv, NEW t \in Turns, <<"turn_processed", t>> \in audit
             PROVE  /\ Cardinality(turn[t].created) + Cardinality(turn[t].proposed)
                         + turn[t].rejected = Cardinality(Allowed(turn[t].input))
                    /\ turn[t].created \subseteq versioned
                    /\ {m \in messages : m[1] = t} = Remembered(t)
                    /\ <<"turn_failed", t>> \notin audit
  BY DEF ProcessedIsComplete
<1>1. turn[t].phase = "done" /\ TurnInv(t) /\ turn[t] \in TurnState
  BY DEF PipelineInv, TurnInv, Recorded, Types
<1>2. "done" \in Working /\ "done" \in Closing /\ "done" \notin Forward
  BY DEF Working, Closing, Forward
<1>3. /\ turn[t].todo = {} /\ InHand(t) = 0
      /\ Cardinality(turn[t].created) + Cardinality(turn[t].proposed) + turn[t].rejected
           + Cardinality(turn[t].todo) + InHand(t) = Cardinality(Allowed(turn[t].input))
  BY <1>1, <1>2 DEF TurnInv, Accounted, InHand
<1>4. Cardinality(turn[t].todo) = 0
  BY <1>3, FS_EmptySet
<1>5. Cardinality(turn[t].created) + Cardinality(turn[t].proposed) + turn[t].rejected
        = Cardinality(Allowed(turn[t].input))
  <2>1. turn[t].rejected \in Nat
    BY <1>1 DEF TurnState
  <2> QED
    BY <1>3, <1>4, <2>1, FiniteSets
<1> QED
  BY <1>1, <1>2, <1>5 DEF TurnInv, Recorded, MessagesOf

\* Whatever turns, desks and the user commit in between, what a turn of
\* TurnService._finalize_turn leaves in the memory and in the inbox has passed the
\* gates, the taint of the whole turn, the sensitivity filter and the locks that
\* the turn found and nobody has released since.
THEOREM NothingPassesTheGates == Spec => []MemoryIsGated
<1>1. PipelineInv => MemoryIsGated
  BY InvIsTyped, InvIsReviewed, InvIsFiltered, InvRespectsLocks DEF MemoryIsGated
<1> QED
  BY <1>1, PipelineHolds, PTL

\* A turn that _finalize_turn reports as processed has created, proposed or rejected
\* each claim that passed the filter, versioned what it created, and stored the question
\* and, if there is any text in it, the answer.
THEOREM ReportsAreTrue == Spec => []ProcessedIsComplete
BY InvIsComplete, PipelineHolds, PTL

-----------------------------------------------------------------------------
(* The inbox without turns, with any number of desks                       *)

Decided(p) == proposals[p].status # "pending"

\* What a desk relies on in each of its phases, whatever other desks do.
DeskInv(s) ==
    /\ ~At(s, "idle") => desk[s].proposal \in DOMAIN proposals
    /\ desk[s].phase \in {"create", "version", "claim_audit", "approved", "rejected"}
         => Decided(desk[s].proposal)
    /\ desk[s].phase \in {"version", "claim_audit", "approved"}
         => desk[s].claim \in ClaimsFrom(desk[s].proposal)
    /\ desk[s].phase \in {"claim_audit", "approved"} => desk[s].claim \in versioned

\* The inductive invariant.  No decision is ever undone, no claim removed and
\* no version lost, so what DeskInv says of one desk survives all the others.
ReviewInv ==
    /\ ReviewTypeOK
    /\ desk \in [Desks -> DeskState]
    /\ \A s \in Desks : DeskInv(s)
    /\ PendingHasNoClaim
    /\ AuditedApprovalHasClaim

\* The tables only grow, and a proposal never becomes pending again.
TablesGrow ==
    /\ DOMAIN proposals \subseteq DOMAIN proposals'
    /\ \A p \in DOMAIN proposals : Decided(p) => Decided(p)'
    /\ DOMAIN claims \subseteq DOMAIN claims'
    /\ \A c \in DOMAIN claims : claims'[c] = claims[c]
    /\ versioned \subseteq versioned'

LEMMA ReviewTables ==
    ASSUME ReviewTypeOK
    PROVE  /\ proposals \in Seq(ProposalRow)
           /\ DOMAIN proposals = 1 .. Len(proposals) /\ Len(proposals) \in Nat
           /\ DOMAIN claims = 1 .. Len(claims) /\ Len(claims) \in Nat
           /\ \A c \in DOMAIN claims : /\ claims[c].data \in ClaimData
                                       /\ claims[c].proposal \in DOMAIN proposals
           /\ \A p \in DOMAIN proposals : proposals[p] \in ProposalRow
<1>1. proposals \in Seq(ProposalRow)
  BY DEF ReviewTypeOK, ProposalRow
<1>2. claims \in Seq([data : ClaimData, proposal : DOMAIN proposals])
  BY DEF ReviewTypeOK
<1>3. \A c \in DOMAIN claims : claims[c] \in [data : ClaimData, proposal : DOMAIN proposals]
  BY <1>2, LenProperties
<1>4. \A p \in DOMAIN proposals : proposals[p] \in ProposalRow
  BY <1>1, LenProperties
<1> QED
  BY <1>1, <1>2, <1>3, <1>4, LenProperties

\* A desk that does not move keeps what it relies on.
LEMMA ReviewOthers ==
    ASSUME NEW s \in Desks, DeskInv(s), TablesGrow, desk'[s] = desk[s]
    PROVE  DeskInv(s)'
<1>1. \A p : ClaimsFrom(p) \subseteq ClaimsFrom(p)'
  BY DEF TablesGrow, ClaimsFrom
<1> QED
  BY <1>1 DEF DeskInv, At, TablesGrow

\* A desk that is done relies on nothing.
LEMMA IdleDesk ==
    ASSUME NEW s \in Desks, desk'[s] = Idle
    PROVE  DeskInv(s)'
BY DEF DeskInv, At, Idle

\* An entry of an approval that was there keeps its versioned claim.
LEMMA ApprovalsKept ==
    ASSUME AuditedApprovalHasClaim, TablesGrow,
           ReviewTypeOK,
           NEW p, <<"memory_confirmed", p>> \in audit
    PROVE  (ClaimsFrom(p) \cap versioned # {})'
<1>1. p \in DOMAIN proposals
  BY DEF ReviewTypeOK
<1>2. ClaimsFrom(p) \cap versioned # {}
  BY <1>1 DEF AuditedApprovalHasClaim
<1> QED
  BY <1>2 DEF TablesGrow, ClaimsFrom

\* The desk of s goes to another state and all other desks stay.
MovesDesk(s, to) == desk' = [desk EXCEPT ![s] = to]

\* A step of one desk: what is left to show is what it does itself.
LEMMA OneReview ==
    ASSUME ReviewInv, NEW s \in Desks, NEW to \in DeskState, MovesDesk(s, to),
           TablesGrow, ReviewTypeOK', DeskInv(s)',
           PendingHasNoClaim', AuditedApprovalHasClaim'
    PROVE  ReviewInv'
<1>1. desk' \in [Desks -> DeskState]
  BY DEF ReviewInv, MovesDesk
<1>2. ASSUME NEW t \in Desks PROVE DeskInv(t)'
  <2>1. CASE t = s
    BY <2>1
  <2>2. CASE t # s
    BY <2>2, ReviewOthers DEF ReviewInv, MovesDesk
  <2> QED
    BY <2>1, <2>2
<1> QED
  BY <1>1, <1>2 DEF ReviewInv

\* A step that touches no proposal and no claim: the invariant depends on the
\* desk and on the two sets that grow.
LEMMA TablesStay ==
    ASSUME ReviewInv, UNCHANGED <<proposals, claims>>, versioned \subseteq versioned'
    PROVE  /\ TablesGrow
           /\ PendingHasNoClaim'
           /\ \A p \in DOMAIN proposals :
                <<"memory_confirmed", p>> \in audit => (ClaimsFrom(p) \cap versioned # {})'
<1>1. \A p : ClaimsFrom(p)' = ClaimsFrom(p)
  BY DEF ClaimsFrom
<1> QED
  BY <1>1 DEF ReviewInv, TablesGrow, PendingHasNoClaim, AuditedApprovalHasClaim, Decided

\* One lemma per kind of step.

LEMMA ReviewBegins == ReviewInit => ReviewInv
<1> SUFFICES ASSUME ReviewInit PROVE ReviewInv
  OBVIOUS
<1>1. ReviewTypeOK
  BY BoundsAssumption DEF ReviewInit, ReviewTypeOK, Idle, At, Phases
<1>2. Idle \in DeskState
  BY DEF Idle, DeskState, Phases
<1> QED
  BY <1>1, <1>2 DEF ReviewInit, ReviewInv, DeskInv, At, Idle, PendingHasNoClaim,
     AuditedApprovalHasClaim

\* A proposal is inserted: nothing can refer to it yet.
LEMMA ReviewSubmits ==
    ASSUME ReviewInv, NEW s \in Desks, create_proposal(s)
    PROVE  ReviewInv'
<1> DEFINE n == Len(proposals) + 1
           to == [phase |-> "submitted", proposal |-> n, claim |-> 0]
<1>1. PICK data \in ClaimData : proposals' = Append(proposals, Proposal(data))
  BY DEF create_proposal, InsertProposal
<1>2. /\ proposals \in Seq(ProposalRow) /\ Len(proposals) \in Nat
      /\ DOMAIN proposals = 1 .. Len(proposals)
      /\ \A c \in DOMAIN claims : claims[c].proposal \in DOMAIN proposals
  BY ReviewTables DEF ReviewInv
<1>3. Proposal(data) \in ProposalRow /\ Proposal(data).status = "pending"
  BY DEF Proposal, ProposalRow, Statuses
<1>4. /\ proposals' \in Seq(ProposalRow) /\ Len(proposals') = n
      /\ DOMAIN proposals' = 1 .. n
      /\ \A p \in 1 .. Len(proposals) : proposals'[p] = proposals[p]
      /\ proposals'[n] = Proposal(data)
  BY <1>1, <1>2, <1>3, AppendProperties
<1>5. TablesGrow
  BY <1>2, <1>4 DEF TablesGrow, Decided, create_proposal
<1>6. to \in DeskState /\ MovesDesk(s, to)
  BY <1>2 DEF create_proposal, MovesDesk, DeskState, Phases
<1>7. desk'[s] = to
  BY <1>6 DEF MovesDesk, ReviewInv
<1>8. ReviewTypeOK'
  <2>1. claims' \in Seq([data : ClaimData, proposal : DOMAIN proposals])'
    <3>1. [data : ClaimData, proposal : DOMAIN proposals]
            \subseteq [data : ClaimData, proposal : DOMAIN proposals']
      BY <1>5 DEF TablesGrow
    <3>2. claims' \in Seq([data : ClaimData, proposal : DOMAIN proposals])
      BY DEF create_proposal, ReviewInv, ReviewTypeOK
    <3> QED
      BY <3>1, <3>2, SeqMonotonic
  <2>2. Len(proposals') <= MaxProposals
    BY <1>2, <1>4, BoundsAssumption DEF create_proposal
  <2>3. \A t \in Desks :
          /\ desk'[t].phase \in Phases
          /\ ~At(t, "idle")' => desk'[t].proposal \in DOMAIN proposals'
          /\ desk'[t].phase \in {"version", "claim_audit", "approved"}
               => desk'[t].claim \in DOMAIN claims'
    BY <1>2, <1>4, <1>6, <1>7 DEF MovesDesk, ReviewInv, ReviewTypeOK, At, Phases,
       create_proposal
  <2> QED
    BY <1>4, <1>5, <2>1, <2>2, <2>3 DEF ReviewInv, ReviewTypeOK, ProposalRow,
       create_proposal, TablesGrow
<1>9. DeskInv(s)'
  BY <1>4, <1>2, <1>7 DEF DeskInv, At
<1>10. \A p : ClaimsFrom(p)' = ClaimsFrom(p)
  BY DEF ClaimsFrom, create_proposal
<1>11. PendingHasNoClaim'
  <2>1. ClaimsFrom(n) = {}
    BY <1>2 DEF ClaimsFrom
  <2> QED
    BY <2>1, <1>2, <1>4, <1>10 DEF PendingHasNoClaim, ReviewInv
<1>12. AuditedApprovalHasClaim'
  BY <1>5, ApprovalsKept DEF AuditedApprovalHasClaim, ReviewInv, create_proposal
<1> HIDE DEF to, n
<1> QED
  BY <1>5, <1>6, <1>8, <1>9, <1>11, <1>12, OneReview

\* After a step of one desk all desks have their types.
LEMMA ReviewDesks ==
    ASSUME ReviewInv, NEW s \in Desks, NEW to \in DeskState, MovesDesk(s, to),
           TablesGrow, DeskInv(s)'
    PROVE  \A t \in Desks :
             /\ desk'[t].phase \in Phases
             /\ ~At(t, "idle")' => desk'[t].proposal \in DOMAIN proposals'
             /\ desk'[t].phase \in {"version", "claim_audit", "approved"}
                  => desk'[t].claim \in DOMAIN claims'
<1> SUFFICES ASSUME NEW t \in Desks
             PROVE  /\ desk'[t].phase \in Phases
                    /\ ~At(t, "idle")' => desk'[t].proposal \in DOMAIN proposals'
                    /\ desk'[t].phase \in {"version", "claim_audit", "approved"}
                         => desk'[t].claim \in DOMAIN claims'
  OBVIOUS
<1>1. CASE t = s
  BY <1>1 DEF MovesDesk, ReviewInv, DeskInv, DeskState, ClaimsFrom
<1>2. CASE t # s
  <2>1. desk'[t] = desk[t]
    BY <1>2 DEF MovesDesk, ReviewInv
  <2> QED
    BY <2>1 DEF ReviewInv, ReviewTypeOK, TablesGrow, At
<1> QED
  BY <1>1, <1>2

\* The steps of a request that change no row: opening it, the audit entries,
\* the version, and its death.
LEMMA ReviewIsQuiet ==
    ASSUME ReviewInv, NEW s \in Desks, NEW p \in DOMAIN proposals,
           \/ Open(s, p, "approve") \/ Open(s, p, "reject")
           \/ AuditSubmission(s) \/ RecordVersion(s) \/ AuditClaim(s)
           \/ AuditApproval(s) \/ AuditRejection(s) \/ Crash(s)
    PROVE  ReviewInv'
<1>1. UNCHANGED <<proposals, claims>> /\ versioned \subseteq versioned'
  BY DEF Open, AuditSubmission, RecordVersion, AuditClaim, AuditApproval,
     AuditRejection, Crash
<1>2. /\ TablesGrow
      /\ PendingHasNoClaim'
      /\ \A q \in DOMAIN proposals :
           <<"memory_confirmed", q>> \in audit => (ClaimsFrom(q) \cap versioned # {})'
  BY <1>1, TablesStay
<1>3. Idle \in DeskState /\ desk \in [Desks -> DeskState] /\ desk[s] \in DeskState
  BY DEF Idle, DeskState, Phases, ReviewInv
<1>4. /\ DOMAIN proposals = 1 .. Len(proposals) /\ Len(proposals) \in Nat
  BY ReviewTables DEF ReviewInv
<1>5. \A q : ClaimsFrom(q)' = ClaimsFrom(q)
  BY <1>1 DEF ClaimsFrom
<1> DEFINE Done(to) == /\ to \in DeskState /\ MovesDesk(s, to) /\ DeskInv(s)'
                       /\ versioned' \subseteq DOMAIN claims
                       /\ requests' \in 0 .. MaxRequests
                       /\ \A e \in audit' \ audit :
                            \/ e[1] = "claim_created" /\ e[2] \in DOMAIN claims
                            \/ /\ e[1] \in {"proposal_created", "memory_confirmed",
                                            "memory_rejected"}
                               /\ e[2] \in DOMAIN proposals
                       /\ \A q : <<"memory_confirmed", q>> \in audit' \ audit
                                   => ClaimsFrom(q) \cap versioned # {}
<1>6. ASSUME NEW to, Done(to) PROVE ReviewInv'
  <2>1. ReviewTypeOK'
    <3>1. \A t \in Desks :
             /\ desk'[t].phase \in Phases
             /\ ~At(t, "idle")' => desk'[t].proposal \in DOMAIN proposals'
             /\ desk'[t].phase \in {"version", "claim_audit", "approved"}
                  => desk'[t].claim \in DOMAIN claims'
      BY <1>2, <1>6, ReviewDesks
    <3> QED
      BY <3>1, <1>1, <1>6 DEF ReviewInv, ReviewTypeOK
  <2>2. AuditedApprovalHasClaim'
    BY <1>1, <1>2, <1>5, <1>6 DEF AuditedApprovalHasClaim
  <2> QED
    BY <1>2, <1>6, <2>1, <2>2, OneReview
<1>7. requests \in 0 .. MaxRequests /\ versioned \subseteq DOMAIN claims
  BY DEF ReviewInv, ReviewTypeOK
<1>8. /\ ~At(s, "idle") => desk[s].proposal \in DOMAIN proposals
      /\ DeskInv(s)
      /\ \A c \in DOMAIN claims : ClaimsFrom(claims[c].proposal) # {}
  BY DEF ReviewInv, DeskInv, ClaimsFrom
<1>9. CASE \E phase \in {"approve", "reject"} : Open(s, p, phase)
  <2>1. PICK phase \in {"approve", "reject"} : Open(s, p, phase)
    BY <1>9
  <2> DEFINE to == [phase |-> phase, proposal |-> p, claim |-> 0]
  <2>2. to \in DeskState /\ MovesDesk(s, to) /\ desk'[s] = to
    BY <2>1, <1>3, <1>4 DEF Open, MovesDesk, DeskState, Phases
  <2>3. DeskInv(s)'
    BY <2>2, <1>1 DEF DeskInv, At
  <2>4. requests' \in 0 .. MaxRequests
    BY <2>1, <1>7, BoundsAssumption DEF Open
  <2> HIDE DEF to
  <2>5. Done(to)
    BY <2>1, <2>2, <2>3, <2>4, <1>7 DEF Open
  <2> QED
    BY <2>5, <1>6
<1>10. CASE AuditSubmission(s) \/ AuditApproval(s) \/ AuditRejection(s) \/ Crash(s)
  <2>1. MovesDesk(s, Idle) /\ desk'[s] = Idle
    BY <1>10, <1>3 DEF AuditSubmission, AuditApproval, AuditRejection, Crash, MovesDesk
  <2>2. DeskInv(s)'
    BY <2>1, IdleDesk
  <2>3. AuditApproval(s) => ClaimsFrom(desk[s].proposal) \cap versioned # {}
    BY <1>8 DEF AuditApproval, At, DeskInv
  <2>4. /\ \A e \in audit' \ audit :
             /\ e[1] \in {"proposal_created", "memory_confirmed", "memory_rejected"}
             /\ e[2] \in DOMAIN proposals
        /\ requests' = requests /\ versioned' = versioned
    BY <1>10, <1>8 DEF AuditSubmission, AuditApproval, AuditRejection, Crash, Log, At
  <2>5. \A q : <<"memory_confirmed", q>> \in audit' \ audit
                 => ClaimsFrom(q) \cap versioned # {}
    BY <1>10, <2>3 DEF AuditSubmission, AuditApproval, AuditRejection, Crash, Log
  <2>6. Done(Idle)
    BY <2>1, <2>2, <2>4, <2>5, <1>3, <1>7
  <2> QED
    BY <2>6, <1>6
<1>11. CASE RecordVersion(s) \/ AuditClaim(s)
  <2>1. PICK phase \in {"claim_audit", "approved"} :
          /\ Go(s, phase)
          /\ phase = "approved" => AuditClaim(s)
          /\ phase = "claim_audit" => RecordVersion(s)
    BY <1>11 DEF RecordVersion, AuditClaim
  <2> DEFINE to == [desk[s] EXCEPT !.phase = phase]
  <2>2. to \in DeskState /\ MovesDesk(s, to) /\ desk'[s] = to
    BY <2>1, <1>3 DEF Go, MovesDesk, DeskState, Phases
  <2>3. /\ to.phase = phase /\ to.proposal = desk[s].proposal
        /\ to.claim = desk[s].claim
    BY <1>3 DEF DeskState
  <2> HIDE DEF to
  <2>4. /\ desk[s].proposal \in DOMAIN proposals /\ Decided(desk[s].proposal)
        /\ desk[s].claim \in ClaimsFrom(desk[s].proposal)
        /\ desk[s].claim \in versioned'
    BY <2>1, <1>8 DEF RecordVersion, AuditClaim, At, DeskInv
  <2>5. DeskInv(s)'
    BY <2>2, <2>3, <2>4, <1>1, <1>5 DEF DeskInv, At, Decided
  <2>6. versioned' \subseteq DOMAIN claims /\ requests' = requests
    BY <1>11, <1>7, <2>4 DEF RecordVersion, AuditClaim, ClaimsFrom
  <2>7. \A e \in audit' \ audit : e = <<"claim_created", desk[s].claim>>
    BY <1>11 DEF RecordVersion, AuditClaim, Log
  <2>8. Done(to)
    BY <2>2, <2>4, <2>5, <2>6, <2>7, <1>7 DEF ClaimsFrom
  <2> QED
    BY <2>8, <1>6
<1> QED
  BY <1>9, <1>10, <1>11

\* The status is written: Confirm and Reject.  The WHERE clause names no
\* status, but neither of them writes "pending".
LEMMA ReviewDecides ==
    ASSUME ReviewInv, NEW s \in Desks, Confirm(s) \/ Reject(s)
    PROVE  ReviewInv'
<1> DEFINE p == desk[s].proposal
<1>1. PICK phase, row :
        /\ phase \in {"create", "rejected"} /\ ~At(s, "idle") /\ Go(s, phase)
        /\ proposals' = [proposals EXCEPT ![p] = row]
        /\ row = IF phase = "create"
                 THEN [proposals[p] EXCEPT !.status = "confirmed",
                                           !.approved = proposals[p].approved \union {s}]
                 ELSE [proposals[p] EXCEPT !.status = "rejected", !.reason = TRUE]
  <2>1. CASE Confirm(s)
    BY <2>1 DEF Confirm, At
  <2>2. CASE Reject(s)
    BY <2>2 DEF Reject, At
  <2> QED
    BY <2>1, <2>2
<1>2. UNCHANGED <<claims, versioned, audit, requests>>
  BY DEF Confirm, Reject
<1>3. /\ proposals \in Seq(ProposalRow) /\ DOMAIN proposals = 1 .. Len(proposals)
      /\ \A c \in DOMAIN claims : claims[c].proposal \in DOMAIN proposals
      /\ p \in DOMAIN proposals /\ proposals[p] \in ProposalRow
  BY <1>1, ReviewTables DEF ReviewInv, DeskInv
<1>4. row \in ProposalRow /\ row.status # "pending"
  BY <1>1, <1>3 DEF ProposalRow, Statuses
<1>5. /\ proposals' \in Seq(ProposalRow) /\ Len(proposals') = Len(proposals)
      /\ DOMAIN proposals' = DOMAIN proposals
      /\ proposals'[p] = row
      /\ \A q \in DOMAIN proposals : q # p => proposals'[q] = proposals[q]
  <2>1. /\ [proposals EXCEPT ![p] = row] \in Seq(ProposalRow)
        /\ Len([proposals EXCEPT ![p] = row]) = Len(proposals)
        /\ \A q \in 1 .. Len(proposals) :
             [proposals EXCEPT ![p] = row][q] = IF q = p THEN row ELSE proposals[q]
    <3>1. p \in 1 .. Len(proposals)
      BY <1>3
    <3> HIDE DEF p
    <3> QED
      BY <3>1, <1>3, <1>4, ExceptSeq
  <2>2. DOMAIN proposals' = DOMAIN proposals
    BY <1>1
  <2> HIDE DEF p
  <2> QED
    BY <2>1, <2>2, <1>1, <1>3
<1>6. TablesGrow
  BY <1>2, <1>4, <1>5 DEF TablesGrow, Decided
<1> DEFINE to == [desk[s] EXCEPT !.phase = phase]
<1>7. desk[s] \in DeskState /\ desk \in [Desks -> DeskState]
  BY DEF ReviewInv
<1>8. /\ to \in DeskState /\ MovesDesk(s, to) /\ desk'[s] = to
      /\ to.phase = phase /\ to.proposal = p
  BY <1>1, <1>7 DEF Go, MovesDesk, DeskState, Phases
<1> HIDE DEF to
<1>9. DeskInv(s)'
  <2>1. phase \in {"create", "rejected"}
    BY <1>1
  <2> QED
    BY <2>1, <1>3, <1>4, <1>5, <1>8 DEF DeskInv, At, Decided
<1>10. ReviewTypeOK'
  <2>1. \A t \in Desks :
             /\ desk'[t].phase \in Phases
             /\ ~At(t, "idle")' => desk'[t].proposal \in DOMAIN proposals'
             /\ desk'[t].phase \in {"version", "claim_audit", "approved"}
                  => desk'[t].claim \in DOMAIN claims'
    BY <1>6, <1>8, <1>9, ReviewDesks
  <2> QED
    BY <2>1, <1>2, <1>5 DEF ReviewInv, ReviewTypeOK, ProposalRow
<1>11. \A q : ClaimsFrom(q)' = ClaimsFrom(q)
  BY <1>2 DEF ClaimsFrom
<1>12. PendingHasNoClaim'
  BY <1>4, <1>5, <1>11 DEF ReviewInv, PendingHasNoClaim
<1>13. AuditedApprovalHasClaim'
  BY <1>2, <1>5, <1>11 DEF ReviewInv, AuditedApprovalHasClaim
<1> QED
  BY <1>6, <1>8, <1>9, <1>10, <1>12, <1>13, OneReview

\* The claim is inserted, for a proposal that its desk has confirmed.
LEMMA ReviewCreates ==
    ASSUME ReviewInv, NEW s \in Desks, CreateClaim(s)
    PROVE  ReviewInv'
<1>0. PICK p, n : p = desk[s].proposal /\ n = Len(claims) + 1
  OBVIOUS
<1> DEFINE row == ClaimRow(proposals[p].data, p)
           Rows == [data : ClaimData, proposal : DOMAIN proposals]
           to == [phase |-> "version", proposal |-> p, claim |-> n]
<1>1. /\ claims' = Append(claims, row)
      /\ MovesDesk(s, to)
      /\ UNCHANGED <<proposals, versioned, audit, requests>>
  BY <1>0 DEF CreateClaim, InsertClaim, MovesDesk
<1>2. p \in DOMAIN proposals /\ Decided(p)
  BY <1>0 DEF CreateClaim, ReviewInv, DeskInv, At
<1>3. /\ claims \in Seq(Rows) /\ DOMAIN claims = 1 .. Len(claims) /\ Len(claims) \in Nat
      /\ proposals[p] \in ProposalRow
  BY <1>2, ReviewTables DEF ReviewInv, ReviewTypeOK
<1>4. row \in Rows /\ row.proposal = p
  BY <1>2, <1>3 DEF ClaimRow, ProposalRow
<1>5. /\ claims' \in Seq(Rows) /\ Len(claims') = n /\ DOMAIN claims' = 1 .. n
      /\ claims'[n] = row
      /\ \A c \in DOMAIN claims : claims'[c] = claims[c]
  BY <1>0, <1>1, <1>3, <1>4, AppendProperties
<1>6. TablesGrow
  BY <1>1, <1>3, <1>5 DEF TablesGrow, Decided
<1>7. desk[s] \in DeskState /\ desk \in [Desks -> DeskState]
  BY DEF ReviewInv
<1>8. /\ to \in DeskState /\ desk'[s] = to
      /\ to.phase = "version" /\ to.proposal = p /\ to.claim = n
  <2>1. p \in Nat /\ n \in Nat
    BY <1>0, <1>3, <1>7 DEF DeskState
  <2>2. desk'[s] = to
    BY <1>1, <1>7 DEF MovesDesk
  <2> QED
    BY <2>1, <2>2 DEF DeskState, Phases
<1>9. /\ n \in ClaimsFrom(p)'
      /\ \A q : q # p => ClaimsFrom(q)' = ClaimsFrom(q)
  <2>1. DOMAIN claims' = DOMAIN claims \union {n} /\ claims'[n].proposal = p
    BY <1>0, <1>3, <1>4, <1>5
  <2> HIDE DEF row
  <2>2. \A c \in DOMAIN claims' : c # n => c \in DOMAIN claims /\ claims'[c] = claims[c]
    BY <2>1, <1>5
  <2>3. ASSUME NEW q, q # p PROVE ClaimsFrom(q)' = ClaimsFrom(q)
    <3>1. \A c : c \in ClaimsFrom(q)' => c \in ClaimsFrom(q)
      BY <2>1, <2>2, <2>3 DEF ClaimsFrom
    <3>2. \A c : c \in ClaimsFrom(q) => c \in ClaimsFrom(q)'
      BY <2>1, <1>5 DEF ClaimsFrom
    <3> QED
      BY <3>1, <3>2
  <2> QED
    BY <2>1, <2>3 DEF ClaimsFrom
<1> HIDE DEF to, row
<1>10. DeskInv(s)'
  BY <1>1, <1>2, <1>8, <1>9 DEF DeskInv, At, Decided
<1>11. ReviewTypeOK'
  <2>1. \A t \in Desks :
             /\ desk'[t].phase \in Phases
             /\ ~At(t, "idle")' => desk'[t].proposal \in DOMAIN proposals'
             /\ desk'[t].phase \in {"version", "claim_audit", "approved"}
                  => desk'[t].claim \in DOMAIN claims'
    BY <1>1, <1>6, <1>8, <1>10, ReviewDesks
  <2> QED
    BY <2>1, <1>1, <1>5, <1>6 DEF ReviewInv, ReviewTypeOK, TablesGrow
<1>12. PendingHasNoClaim'
  BY <1>1, <1>2, <1>9 DEF ReviewInv, PendingHasNoClaim, Decided
<1>13. AuditedApprovalHasClaim'
  BY <1>1, <1>6, ApprovalsKept DEF AuditedApprovalHasClaim, ReviewInv
<1> QED
  BY <1>1, <1>6, <1>8, <1>10, <1>11, <1>12, <1>13, OneReview

LEMMA ReviewGoesOn == ReviewInv /\ [ReviewNext]_reviewVars => ReviewInv'
<1> SUFFICES ASSUME ReviewInv, [ReviewNext]_reviewVars PROVE ReviewInv'
  OBVIOUS
<1>1. CASE UNCHANGED reviewVars
  BY <1>1 DEF reviewVars, ReviewInv, ReviewTypeOK, DeskInv, PendingHasNoClaim,
     AuditedApprovalHasClaim, ClaimsFrom, Decided, At
<1>2. ASSUME NEW s \in Desks, create_proposal(s) PROVE ReviewInv'
  BY <1>2, ReviewSubmits
<1>3. ASSUME NEW s \in Desks, NEW p \in DOMAIN proposals,
             approve_proposal(s, p) \/ reject_proposal(s, p)
      PROVE  ReviewInv'
  BY <1>3, ReviewIsQuiet DEF approve_proposal, reject_proposal
<1>4. ASSUME NEW s \in Desks, Review(s) \/ Crash(s) PROVE ReviewInv'
  <2>1. ~At(s, "idle")
    BY <1>4 DEF Review, Crash, AuditSubmission, Confirm, CreateClaim, RecordVersion,
       AuditClaim, AuditApproval, Reject, AuditRejection, At
  <2>2. desk[s].proposal \in DOMAIN proposals
    BY <2>1 DEF ReviewInv, DeskInv
  <2> QED
    BY <1>4, <2>2, ReviewIsQuiet, ReviewDecides, ReviewCreates DEF Review
<1> QED
  BY <1>1, <1>2, <1>3, <1>4 DEF ReviewNext

LEMMA ReviewHolds == ReviewSpec => []ReviewInv
BY ReviewBegins, ReviewGoesOn, PTL DEF ReviewSpec

\* Every variable of the inbox keeps its type (ProposalService).
THEOREM InboxTyping == ReviewSpec => []ReviewTypeOK
<1>1. ReviewInv => ReviewTypeOK
  BY DEF ReviewInv
<1> QED
  BY <1>1, ReviewHolds, PTL

\* What is still in the inbox has not been remembered, however many desks
\* approve and reject it and wherever they die: approve_proposal commits the
\* decision before the claim, and no transaction takes a decision back.
THEOREM PendingIsUnremembered == ReviewSpec => []PendingHasNoClaim
<1>1. ReviewInv => PendingHasNoClaim
  BY DEF ReviewInv
<1> QED
  BY <1>1, ReviewHolds, PTL

\* The audit trail says "approved" only of a proposal that has a versioned
\* claim: approve_proposal writes the entry after _persist_claim is through.
THEOREM ApprovalsAreKept == ReviewSpec => []AuditedApprovalHasClaim
<1>1. ReviewInv => AuditedApprovalHasClaim
  BY DEF ReviewInv
<1> QED
  BY <1>1, ReviewHolds, PTL

-----------------------------------------------------------------------------
(* The inbox as its deciders understand it, with turns and without         *)

InboxOf == [p \in DOMAIN proposals |-> Entry(p)]

InboxStep == [Inbox!Next]_InboxOf

\* The desks that have approved the proposal and not stored its claim yet.
Creating(p) == {s \in Desks : desk[s].phase = "create" /\ desk[s].proposal = p}

\* Each claim, also one that is still to be stored, answers to an approval of
\* its own, and a desk that has approved does not look at it as pending again.
Answered(p) ==
    /\ proposals[p].status = "pending" => proposals[p].approved = {}
    /\ IsFiniteSet(proposals[p].approved)
    /\ Creating(p) \subseteq proposals[p].approved
    /\ Cardinality(ClaimsFrom(p)) + Cardinality(Creating(p))
         <= Cardinality(proposals[p].approved)
    /\ \A s \in Looking(p) : desk[s].phase = "approve" => s \notin proposals[p].approved

AllAnswered == \A p \in DOMAIN proposals : Answered(p)

\* What both invariants say of the tables and the desks.
InboxTypes ==
    /\ proposals \in Seq(ProposalRow) /\ claims \in Seq(StoredRow)
    /\ \A c \in DOMAIN claims : claims[c].proposal \in {0} \union DOMAIN proposals
    /\ desk \in [Desks -> DeskState]
    /\ \A s \in Desks : desk[s].phase # "idle" => desk[s].proposal \in DOMAIN proposals

LEMMA PipelineTypes == PipelineInv => InboxTypes
BY DEF PipelineInv, Types, DeskKnows, At, InboxTypes

LEMMA ReviewTypes == ReviewInv => InboxTypes
<1> SUFFICES ASSUME ReviewInv
             PROVE  InboxTypes
  OBVIOUS
<1>1. /\ proposals \in Seq(ProposalRow) /\ DOMAIN proposals \subseteq Nat
      /\ \A c \in DOMAIN claims : claims[c].proposal \in DOMAIN proposals
  BY ReviewTables DEF ReviewInv
<1>2. claims \in Seq(StoredRow)
  <2>1. [data : ClaimData, proposal : DOMAIN proposals] \subseteq StoredRow
    BY <1>1 DEF StoredRow
  <2>2. claims \in Seq([data : ClaimData, proposal : DOMAIN proposals])
    BY DEF ReviewInv, ReviewTypeOK
  <2> QED
    BY <2>1, <2>2, SeqMonotonic
<1> QED
  BY <1>1, <1>2 DEF InboxTypes, ReviewInv, DeskInv, At

LEMMA InboxFacts ==
    ASSUME InboxTypes
    PROVE  /\ Len(proposals) \in Nat /\ DOMAIN proposals = 1..Len(proposals)
           /\ \A p \in DOMAIN proposals : proposals[p] \in ProposalRow
           /\ Len(claims) \in Nat /\ DOMAIN claims = 1..Len(claims)
           /\ \A p : IsFiniteSet(ClaimsFrom(p)) /\ Cardinality(ClaimsFrom(p)) \in Nat
<1>1. /\ Len(proposals) \in Nat /\ DOMAIN proposals = 1..Len(proposals)
      /\ \A p \in DOMAIN proposals : proposals[p] \in ProposalRow
      /\ Len(claims) \in Nat /\ DOMAIN claims = 1..Len(claims)
  BY LenProperties DEF InboxTypes
<1>2. IsFiniteSet(DOMAIN claims)
  BY <1>1, FS_Interval
<1>3. \A p : IsFiniteSet(ClaimsFrom(p))
  BY <1>2, FS_Subset DEF ClaimsFrom
<1> QED
  BY <1>1, <1>3, FS_CardinalityType

\* Nobody who decides the proposal or is about to store its claim has moved,
\* but for those who have stopped doing so.
Undisturbed(p) ==
    \A s \in Desks : \/ desk'[s] = desk[s]
                     \/ s \notin Looking(p) \union Looking(p)' \union Creating(p)'

LEMMA EntryStays ==
    ASSUME InboxTypes, NEW p \in DOMAIN proposals, Answered(p), proposals'[p] = proposals[p],
           ClaimsFrom(p)' = ClaimsFrom(p), Undisturbed(p)
    PROVE  Answered(p)' /\ Entry(p)' = Entry(p)
<1>1. Looking(p)' = Looking(p) /\ Creating(p)' \subseteq Creating(p)
  BY DEF Undisturbed, Looking, Creating
<1>2. /\ Cardinality(Creating(p)') <= Cardinality(Creating(p))
      /\ Cardinality(Creating(p)') \in Nat /\ Cardinality(Creating(p)) \in Nat
      /\ Cardinality(proposals[p].approved) \in Nat
  <2>1. IsFiniteSet(proposals[p].approved) /\ Creating(p) \subseteq proposals[p].approved
    BY DEF Answered
  <2>2. IsFiniteSet(Creating(p))
    BY <2>1, FS_Subset
  <2>3. IsFiniteSet(Creating(p)') /\ Cardinality(Creating(p)') <= Cardinality(Creating(p))
    BY <1>1, <2>2, FS_Subset
  <2> QED
    BY <2>1, <2>2, <2>3, FS_CardinalityType
<1>3. Cardinality(ClaimsFrom(p)) \in Nat
  BY InboxFacts
<1>4. Cardinality(ClaimsFrom(p)') + Cardinality(Creating(p)')
        <= Cardinality(proposals'[p].approved)
  <2> DEFINE made == Cardinality(ClaimsFrom(p))
             before == Cardinality(Creating(p))
             after == Cardinality(Creating(p)')
             most == Cardinality(proposals[p].approved)
  <2>1. /\ made \in Nat /\ before \in Nat /\ after \in Nat /\ most \in Nat
        /\ after <= before /\ made + before <= most
    BY <1>2, <1>3 DEF Answered
  <2> HIDE DEF made, before, after, most
  <2>2. made + after <= most
    BY <2>1
  <2> QED
    BY <2>2 DEF made, after, most
<1>5. ASSUME NEW s \in Looking(p)', desk'[s].phase = "approve"
      PROVE  s \notin proposals'[p].approved
  <2>1. s \in Looking(p) /\ s \in Desks
    BY <1>1, <1>5 DEF Looking
  <2>2. desk'[s] = desk[s]
    BY <2>1 DEF Undisturbed
  <2> QED
    BY <1>5, <2>1, <2>2 DEF Answered
<1>6. Answered(p)'
  BY <1>1, <1>4, <1>5 DEF Answered
<1>7. Entry(p)' = Entry(p)
  BY <1>1 DEF Entry
<1> QED
  BY <1>6, <1>7

\* A step after which one proposal may have another entry.
LEMMA InboxChanges ==
    ASSUME InboxTypes, AllAnswered, NEW p \in DOMAIN proposals, DOMAIN proposals' = DOMAIN proposals,
           \A q \in DOMAIN proposals : q # p => /\ proposals'[q] = proposals[q]
                                                /\ ClaimsFrom(q)' = ClaimsFrom(q)
                                                /\ Undisturbed(q),
           Answered(p)'
    PROVE  AllAnswered' /\ InboxOf' = [InboxOf EXCEPT ![p] = Entry(p)']
<1>1. \A q \in DOMAIN proposals : q # p => Answered(q)' /\ Entry(q)' = Entry(q)
  BY EntryStays DEF AllAnswered
<1>2. AllAnswered'
  BY <1>1 DEF AllAnswered
<1>3. InboxOf' = [InboxOf EXCEPT ![p] = Entry(p)']
  BY <1>1 DEF InboxOf
<1> QED
  BY <1>2, <1>3

\* A step the inbox does not see.
LEMMA InboxQuiet ==
    ASSUME InboxTypes, AllAnswered, UNCHANGED proposals,
           \A p \in DOMAIN proposals : ClaimsFrom(p)' = ClaimsFrom(p),
           \A s \in Desks : \/ desk'[s] = desk[s]
                            \/ /\ desk[s].phase \notin {"approve", "reject"}
                               /\ desk'[s].phase \notin {"approve", "reject", "create"}
    PROVE  AllAnswered' /\ InboxStep
<1>1. \A p \in DOMAIN proposals : Undisturbed(p)
  BY DEF Undisturbed, Looking, Creating
<1>2. \A p \in DOMAIN proposals : Answered(p)' /\ Entry(p)' = Entry(p)
  BY <1>1, EntryStays DEF AllAnswered
<1>3. UNCHANGED InboxOf
  BY <1>2 DEF InboxOf
<1> QED
  BY <1>2, <1>3 DEF AllAnswered, InboxStep

\* A desk has read a pending proposal, or goes away without a decision.
LEMMA InboxLooks ==
    ASSUME InboxTypes, AllAnswered, NEW s \in Desks, NEW p \in DOMAIN proposals,
           Open(s, p, "approve") \/ Open(s, p, "reject")
    PROVE  AllAnswered' /\ InboxStep
<1>1. /\ UNCHANGED <<proposals, claims>> /\ desk[s].phase = "idle"
      /\ proposals[p].status = "pending" /\ desk \in [Desks -> DeskState]
      /\ desk'[s].phase \in {"approve", "reject"} /\ desk'[s].proposal = p
      /\ \A r \in Desks : r # s => desk'[r] = desk[r]
  BY DEF Open, At, InboxTypes
<1>2. \A q : ClaimsFrom(q)' = ClaimsFrom(q)
  BY <1>1 DEF ClaimsFrom
<1>3. Looking(p)' = Looking(p) \union {s} /\ Creating(p)' = Creating(p)
  BY <1>1 DEF Looking, Creating
<1>4. Answered(p) /\ proposals[p].approved = {}
  BY <1>1 DEF AllAnswered, Answered
<1>5. Answered(p)'
  BY <1>1, <1>2, <1>3, <1>4 DEF Answered
<1>6. \A q \in DOMAIN proposals : q # p => Undisturbed(q)
  BY <1>1 DEF Undisturbed, Looking, Creating
<1>7. AllAnswered' /\ InboxOf' = [InboxOf EXCEPT ![p] = Entry(p)']
  BY <1>1, <1>2, <1>5, <1>6, InboxChanges
<1>8. Entry(p)' = [Entry(p) EXCEPT !.open = Entry(p).open \union {s}]
  BY <1>1, <1>2, <1>3 DEF Entry
<1>9. InboxOf[p] = Entry(p) /\ Entry(p).status = "pending" /\ DOMAIN InboxOf = DOMAIN proposals
  BY <1>1 DEF InboxOf, Entry
<1>10. Inbox!Look(p, s)
  BY <1>7, <1>8, <1>9 DEF Inbox!Look, Inbox!Becomes, InboxOf
<1> QED
  BY <1>7, <1>10 DEF InboxStep, Inbox!Next

LEMMA InboxLeaves ==
    ASSUME InboxTypes, AllAnswered, NEW s \in Desks, desk[s].phase \in {"approve", "reject"},
           UNCHANGED <<proposals, claims>>, desk' = [desk EXCEPT ![s] = Idle]
    PROVE  AllAnswered' /\ InboxStep
<1>0. PICK p : p = desk[s].proposal
  OBVIOUS
<1>1. /\ p \in DOMAIN proposals /\ desk \in [Desks -> DeskState]
      /\ desk'[s].phase = "idle" /\ \A r \in Desks : r # s => desk'[r] = desk[r]
  BY <1>0 DEF InboxTypes, Idle
<1>2. \A q : ClaimsFrom(q)' = ClaimsFrom(q)
  BY DEF ClaimsFrom
<1>3. Looking(p)' = Looking(p) \ {s} /\ Creating(p)' = Creating(p) /\ s \in Looking(p)
  BY <1>0, <1>1 DEF Looking, Creating
<1>4. Answered(p)'
  BY <1>1, <1>2, <1>3 DEF AllAnswered, Answered
<1>5. \A q \in DOMAIN proposals : q # p => Undisturbed(q)
  BY <1>0, <1>1 DEF Undisturbed, Looking, Creating
<1>6. AllAnswered' /\ InboxOf' = [InboxOf EXCEPT ![p] = Entry(p)']
  BY <1>1, <1>2, <1>4, <1>5, InboxChanges
<1>7. Entry(p)' = [Entry(p) EXCEPT !.open = Entry(p).open \ {s}] /\ Entry(p).open = Looking(p)
  BY <1>2, <1>3 DEF Entry
<1>8. InboxOf[p] = Entry(p) /\ DOMAIN InboxOf = DOMAIN proposals
  BY <1>1 DEF InboxOf
<1>9. Inbox!Leave(p, s)
  BY <1>3, <1>6, <1>7, <1>8 DEF Inbox!Leave, Inbox!Becomes, InboxOf
<1> QED
  BY <1>1, <1>6, <1>9 DEF InboxStep, Inbox!Next

LEMMA InboxApproves ==
    ASSUME InboxTypes, AllAnswered, NEW s \in Desks, Confirm(s)
    PROVE  AllAnswered' /\ InboxStep
<1>0. PICK p : p = desk[s].proposal
  OBVIOUS
<1>1. /\ desk[s].phase = "approve" /\ p \in DOMAIN proposals /\ desk \in [Desks -> DeskState]
      /\ proposals[p] \in ProposalRow /\ UNCHANGED claims
  BY <1>0, InboxFacts DEF Confirm, At, InboxTypes
<1> DEFINE row == [proposals[p] EXCEPT !.status = "confirmed",
                                       !.approved = proposals[p].approved \union {s}]
<1>2. /\ row.status = "confirmed" /\ row.approved = proposals[p].approved \union {s}
  BY <1>1 DEF ProposalRow
<1>3. proposals' = [proposals EXCEPT ![p] = row] /\ desk'[s].phase = "create"
      /\ desk'[s].proposal = p /\ \A r \in Desks : r # s => desk'[r] = desk[r]
  BY <1>0, <1>1 DEF Confirm, Go, DeskState
<1> HIDE DEF row
<1>4. /\ DOMAIN proposals' = DOMAIN proposals /\ proposals'[p] = row
      /\ \A q \in DOMAIN proposals : q # p => proposals'[q] = proposals[q]
  BY <1>1, <1>3
<1>5. \A q : ClaimsFrom(q)' = ClaimsFrom(q)
  BY <1>1 DEF ClaimsFrom
<1>6. /\ Looking(p)' = Looking(p) \ {s} /\ Creating(p)' = Creating(p) \union {s}
      /\ s \in Looking(p) /\ s \notin Creating(p)
  BY <1>0, <1>1, <1>3 DEF Looking, Creating
<1>7. Answered(p) /\ s \notin proposals[p].approved
  BY <1>1, <1>6 DEF AllAnswered, Answered
<1>8. Answered(p)'
  <2>1. /\ IsFiniteSet(proposals[p].approved) /\ IsFiniteSet(Creating(p))
        /\ Cardinality(ClaimsFrom(p)) \in Nat
    BY <1>7, InboxFacts, FS_Subset DEF Answered
  <2>2. /\ Cardinality(proposals[p].approved \union {s}) = Cardinality(proposals[p].approved) + 1
        /\ Cardinality(Creating(p) \union {s}) = Cardinality(Creating(p)) + 1
        /\ IsFiniteSet(proposals[p].approved \union {s})
        /\ Cardinality(proposals[p].approved) \in Nat /\ Cardinality(Creating(p)) \in Nat
    BY <1>6, <1>7, <2>1, FS_AddElement, FS_CardinalityType
  <2> DEFINE made == Cardinality(ClaimsFrom(p))
             coming == Cardinality(Creating(p))
             most == Cardinality(proposals[p].approved)
  <2>3. made \in Nat /\ coming \in Nat /\ most \in Nat /\ made + coming <= most
    BY <1>7, <2>1, <2>2 DEF Answered
  <2> HIDE DEF made, coming, most
  <2>4. made + (coming + 1) <= most + 1
    BY <2>3
  <2>5. Cardinality(ClaimsFrom(p)') + Cardinality(Creating(p)') <= Cardinality(row.approved)
    BY <1>2, <1>5, <1>6, <2>2, <2>4 DEF made, coming, most
  <2>6. \A r \in Looking(p)' : desk'[r].phase = "approve" => r \notin row.approved
    BY <1>2, <1>3, <1>6, <1>7 DEF Answered, Looking
  <2>7. Creating(p)' \subseteq row.approved /\ IsFiniteSet(row.approved)
    BY <1>2, <1>6, <1>7, <2>2 DEF Answered
  <2> QED
    BY <1>2, <1>4, <2>5, <2>6, <2>7 DEF Answered
<1>9. \A q \in DOMAIN proposals : q # p => Undisturbed(q)
  BY <1>0, <1>3 DEF Undisturbed, Looking, Creating
<1>10. AllAnswered' /\ InboxOf' = [InboxOf EXCEPT ![p] = Entry(p)']
  BY <1>1, <1>4, <1>5, <1>8, <1>9, InboxChanges
<1>11. /\ Entry(p)' = [status |-> "confirmed", open |-> Entry(p).open \ {s},
                       approved |-> Entry(p).approved \union {s}, copies |-> Entry(p).copies]
       /\ Entry(p).open = Looking(p) /\ Entry(p).approved = proposals[p].approved
  <2>1. Entry(p)' = [status |-> "confirmed", open |-> Looking(p) \ {s},
                     approved |-> proposals[p].approved \union {s},
                     copies |-> Cardinality(ClaimsFrom(p))]
    <3>1. /\ proposals'[p].status = "confirmed"
          /\ proposals'[p].approved = proposals[p].approved \union {s}
      BY <1>2, <1>4
    <3>2. ClaimsFrom(p)' = ClaimsFrom(p) /\ Looking(p)' = Looking(p) \ {s}
      BY <1>5, <1>6
    <3> QED
      BY <3>1, <3>2 DEF Entry
  <2>2. /\ Entry(p).open = Looking(p) /\ Entry(p).approved = proposals[p].approved
        /\ Entry(p).copies = Cardinality(ClaimsFrom(p))
    BY DEF Entry
  <2> QED
    BY <2>1, <2>2
<1>12. InboxOf[p] = Entry(p) /\ DOMAIN InboxOf = DOMAIN proposals
  BY <1>1 DEF InboxOf
<1>13. Inbox!Approve(p, s)
  <2>1. /\ s \in InboxOf[p].open \ InboxOf[p].approved
        /\ InboxOf' = [InboxOf EXCEPT ![p] =
                         [status |-> "confirmed", open |-> InboxOf[p].open \ {s},
                          approved |-> InboxOf[p].approved \union {s},
                          copies |-> InboxOf[p].copies]]
    BY <1>6, <1>7, <1>10, <1>11, <1>12
  <2> QED
    BY <2>1 DEF Inbox!Approve, Inbox!Becomes, InboxOf
<1> QED
  BY <1>1, <1>10, <1>13 DEF InboxStep, Inbox!Next

LEMMA InboxRejects ==
    ASSUME InboxTypes, AllAnswered, NEW s \in Desks, Reject(s)
    PROVE  AllAnswered' /\ InboxStep
<1>0. PICK p : p = desk[s].proposal
  OBVIOUS
<1>1. /\ desk[s].phase = "reject" /\ p \in DOMAIN proposals /\ desk \in [Desks -> DeskState]
      /\ proposals[p] \in ProposalRow /\ UNCHANGED claims
  BY <1>0, InboxFacts DEF Reject, At, InboxTypes
<1> DEFINE row == [proposals[p] EXCEPT !.status = "rejected", !.reason = TRUE]
<1>2. row.status = "rejected" /\ row.approved = proposals[p].approved
  BY <1>1 DEF ProposalRow
<1>3. proposals' = [proposals EXCEPT ![p] = row] /\ desk'[s].phase = "rejected"
      /\ \A r \in Desks : r # s => desk'[r] = desk[r]
  BY <1>0, <1>1 DEF Reject, Go, DeskState
<1> HIDE DEF row
<1>4. /\ DOMAIN proposals' = DOMAIN proposals /\ proposals'[p] = row
      /\ \A q \in DOMAIN proposals : q # p => proposals'[q] = proposals[q]
  BY <1>1, <1>3
<1>5. \A q : ClaimsFrom(q)' = ClaimsFrom(q)
  BY <1>1 DEF ClaimsFrom
<1>6. /\ Looking(p)' = Looking(p) \ {s} /\ Creating(p)' = Creating(p) /\ s \in Looking(p)
  BY <1>0, <1>1, <1>3 DEF Looking, Creating
<1>7. Answered(p)'
  <2>1. Answered(p) /\ ClaimsFrom(p)' = ClaimsFrom(p) /\ Creating(p)' = Creating(p)
    BY <1>1, <1>5, <1>6 DEF AllAnswered
  <2>2. \A r \in Looking(p)' : desk'[r].phase = "approve" => r \notin row.approved
    BY <1>2, <1>3, <1>6, <2>1 DEF Answered, Looking
  <2> QED
    BY <1>2, <1>4, <2>1, <2>2 DEF Answered
<1>8. \A q \in DOMAIN proposals : q # p => Undisturbed(q)
  BY <1>0, <1>1, <1>3 DEF Undisturbed, Looking, Creating
<1>9. AllAnswered' /\ InboxOf' = [InboxOf EXCEPT ![p] = Entry(p)']
  BY <1>1, <1>4, <1>5, <1>7, <1>8, InboxChanges
<1>10. /\ Entry(p)' = [status |-> "rejected", open |-> Entry(p).open \ {s},
                       approved |-> Entry(p).approved, copies |-> Entry(p).copies]
       /\ Entry(p).open = Looking(p)
  <2>1. Entry(p)' = [status |-> "rejected", open |-> Looking(p) \ {s},
                     approved |-> proposals[p].approved,
                     copies |-> Cardinality(ClaimsFrom(p))]
    <3>1. /\ proposals'[p].status = "rejected"
          /\ proposals'[p].approved = proposals[p].approved
      BY <1>2, <1>4
    <3>2. ClaimsFrom(p)' = ClaimsFrom(p) /\ Looking(p)' = Looking(p) \ {s}
      BY <1>5, <1>6
    <3> QED
      BY <3>1, <3>2 DEF Entry
  <2>2. /\ Entry(p).open = Looking(p) /\ Entry(p).approved = proposals[p].approved
        /\ Entry(p).copies = Cardinality(ClaimsFrom(p))
    BY DEF Entry
  <2> QED
    BY <2>1, <2>2
<1>11. InboxOf[p] = Entry(p) /\ DOMAIN InboxOf = DOMAIN proposals
  BY <1>1 DEF InboxOf
<1>12. Inbox!Reject(p, s)
  <2>1. /\ s \in InboxOf[p].open
        /\ InboxOf' = [InboxOf EXCEPT ![p] =
                         [status |-> "rejected", open |-> InboxOf[p].open \ {s},
                          approved |-> InboxOf[p].approved, copies |-> InboxOf[p].copies]]
    BY <1>6, <1>9, <1>10, <1>11
  <2> QED
    BY <2>1 DEF Inbox!Reject, Inbox!Becomes, InboxOf
<1> QED
  BY <1>1, <1>9, <1>12 DEF InboxStep, Inbox!Next

\* A row more in the table of claims.
LEMMA ClaimAdded ==
    ASSUME InboxTypes, NEW d \in ClaimData, NEW p \in {0} \union DOMAIN proposals, InsertClaim(d, p)
    PROVE  /\ \A q : q # p => ClaimsFrom(q)' = ClaimsFrom(q)
           /\ Cardinality(ClaimsFrom(p)') = Cardinality(ClaimsFrom(p)) + 1
<1>0. PICK new : new = Len(claims) + 1
  OBVIOUS
<1>1. /\ claims \in Seq(StoredRow) /\ DOMAIN claims = 1..Len(claims) /\ Len(claims) \in Nat
      /\ p \in Nat /\ IsFiniteSet(ClaimsFrom(p))
  BY InboxFacts DEF InboxTypes
<1>2. ClaimRow(d, p) \in StoredRow /\ ClaimRow(d, p).proposal = p
  BY <1>1 DEF ClaimRow, StoredRow
<1>3. claims' = Append(claims, ClaimRow(d, p))
  BY DEF InsertClaim
<1> HIDE DEF StoredRow
<1>4. /\ DOMAIN claims' = 1..new /\ claims'[new] = ClaimRow(d, p)
      /\ \A c \in 1..Len(claims) : claims'[c] = claims[c]
  BY <1>0, <1>1, <1>2, <1>3, AppendProperties
<1>5. /\ DOMAIN claims' = DOMAIN claims \union {new} /\ new \notin DOMAIN claims
      /\ claims'[new].proposal = p /\ \A c \in DOMAIN claims : claims'[c] = claims[c]
  BY <1>0, <1>1, <1>2, <1>4
<1>6. ClaimsFrom(p)' = ClaimsFrom(p) \union {new} /\ new \notin ClaimsFrom(p)
  BY <1>5 DEF ClaimsFrom
<1>7. \A q : q # p => ClaimsFrom(q)' = ClaimsFrom(q)
  BY <1>5 DEF ClaimsFrom
<1> QED
  BY <1>1, <1>6, <1>7, FS_AddElement

LEMMA InboxStores ==
    ASSUME InboxTypes, AllAnswered, NEW s \in Desks, CreateClaim(s)
    PROVE  AllAnswered' /\ InboxStep
<1>0. PICK p : p = desk[s].proposal
  OBVIOUS
<1>1. /\ desk[s].phase = "create" /\ p \in DOMAIN proposals /\ desk \in [Desks -> DeskState]
      /\ proposals[p].data \in ClaimData /\ UNCHANGED proposals
      /\ InsertClaim(proposals[p].data, p)
  BY <1>0, InboxFacts DEF CreateClaim, At, InboxTypes, ProposalRow
<1>2. /\ desk'[s].phase = "version" /\ \A r \in Desks : r # s => desk'[r] = desk[r]
  BY <1>1 DEF CreateClaim
<1>3. /\ \A q : q # p => ClaimsFrom(q)' = ClaimsFrom(q)
      /\ Cardinality(ClaimsFrom(p)') = Cardinality(ClaimsFrom(p)) + 1
  BY <1>1, ClaimAdded
<1>4. /\ Looking(p)' = Looking(p) /\ Creating(p)' = Creating(p) \ {s} /\ s \in Creating(p)
  BY <1>0, <1>1, <1>2 DEF Looking, Creating
<1>5. Answered(p)
  BY <1>1 DEF AllAnswered
<1>6. /\ Cardinality(Creating(p)') = Cardinality(Creating(p)) - 1
      /\ Cardinality(Creating(p)') \in Nat /\ Cardinality(Creating(p)) \in Nat
      /\ Cardinality(ClaimsFrom(p)) \in Nat /\ Cardinality(proposals[p].approved) \in Nat
  <2>1. IsFiniteSet(proposals[p].approved) /\ Creating(p) \subseteq proposals[p].approved
    BY <1>5 DEF Answered
  <2>2. IsFiniteSet(Creating(p))
    BY <2>1, FS_Subset
  <2>3. IsFiniteSet(Creating(p)') /\ Cardinality(Creating(p)') = Cardinality(Creating(p)) - 1
    BY <1>4, <2>2, FS_RemoveElement
  <2> QED
    BY <2>1, <2>2, <2>3, InboxFacts, FS_CardinalityType
<1>7. /\ Cardinality(ClaimsFrom(p)') + Cardinality(Creating(p)') <= Cardinality(proposals[p].approved)
      /\ Cardinality(ClaimsFrom(p)) < Cardinality(proposals[p].approved)
  <2> DEFINE made == Cardinality(ClaimsFrom(p))
             coming == Cardinality(Creating(p))
             left == Cardinality(Creating(p)')
             most == Cardinality(proposals[p].approved)
  <2>1. /\ made \in Nat /\ coming \in Nat /\ most \in Nat /\ left \in Nat
        /\ made + coming <= most /\ left = coming - 1
    BY <1>5, <1>6 DEF Answered
  <2> HIDE DEF made, coming, left, most
  <2>2. (made + 1) + left <= most /\ made < most
    BY <2>1
  <2> QED
    BY <1>3, <2>2 DEF made, left, most
<1>8. Answered(p)'
  BY <1>1, <1>2, <1>4, <1>5, <1>7 DEF Answered, Looking
<1>9. \A q \in DOMAIN proposals : q # p => Undisturbed(q)
  BY <1>0, <1>1, <1>2 DEF Undisturbed, Looking, Creating
<1>10. AllAnswered' /\ InboxOf' = [InboxOf EXCEPT ![p] = Entry(p)']
  BY <1>1, <1>3, <1>8, <1>9, InboxChanges
<1>11. /\ Entry(p)' = [status |-> Entry(p).status, open |-> Entry(p).open,
                       approved |-> Entry(p).approved, copies |-> Entry(p).copies + 1]
       /\ Entry(p).copies = Cardinality(ClaimsFrom(p))
       /\ Entry(p).approved = proposals[p].approved
  BY <1>1, <1>3, <1>4 DEF Entry
<1>12. InboxOf[p] = Entry(p) /\ DOMAIN InboxOf = DOMAIN proposals
  BY <1>1 DEF InboxOf
<1>13. Inbox!Store(p)
  <2>1. /\ InboxOf[p].copies < Cardinality(InboxOf[p].approved)
        /\ InboxOf' = [InboxOf EXCEPT ![p] =
                         [status |-> InboxOf[p].status, open |-> InboxOf[p].open,
                          approved |-> InboxOf[p].approved,
                          copies |-> InboxOf[p].copies + 1]]
    BY <1>7, <1>10, <1>11, <1>12
  <2> DEFINE e == [status |-> InboxOf[p].status, open |-> InboxOf[p].open,
                   approved |-> InboxOf[p].approved, copies |-> InboxOf[p].copies + 1]
  <2>2. Inbox!Becomes(p, e) <=> InboxOf' = [InboxOf EXCEPT ![p] = e]
    <3> HIDE DEF e
    <3> QED
      BY DEF Inbox!Becomes, InboxOf
  <2>3. Inbox!Store(p) <=> /\ InboxOf[p].copies < Cardinality(InboxOf[p].approved)
                           /\ Inbox!Becomes(p, e)
    BY Zenon DEF Inbox!Store, InboxOf, Inbox!Cardinality, Cardinality
  <2> QED
    BY <2>1, <2>2, <2>3
<1> QED
  BY <1>1, <1>10, <1>13 DEF InboxStep, Inbox!Next

EntryRow == [status : Statuses, open : SUBSET Desks, approved : SUBSET Desks, copies : Nat]

LEMMA InboxIsSequence ==
    ASSUME InboxTypes
    PROVE  InboxOf \in Seq(EntryRow) /\ Len(InboxOf) = Len(proposals)
<1>1. ASSUME NEW p \in DOMAIN proposals
      PROVE  Entry(p) \in EntryRow
  <2>1. proposals[p].status \in Statuses /\ proposals[p].approved \in SUBSET Desks
    BY <1>1, InboxFacts DEF ProposalRow
  <2>2. Looking(p) \in SUBSET Desks /\ Cardinality(ClaimsFrom(p)) \in Nat
    BY InboxFacts DEF Looking
  <2> QED
    BY <2>1, <2>2 DEF Entry, EntryRow
<1>2. Len(proposals) \in Nat /\ DOMAIN proposals = 1..Len(proposals)
  BY InboxFacts
<1> HIDE DEF EntryRow
<1> QED
  BY <1>1, <1>2 DEF InboxOf

LEMMA InboxGrows ==
    ASSUME InboxTypes, InboxTypes', AllAnswered, NEW d \in ClaimData, InsertProposal(d),
           UNCHANGED claims,
           \A s \in Desks : \/ desk'[s] = desk[s]
                            \/ desk[s].phase = "idle" /\ desk'[s].phase = "submitted"
    PROVE  AllAnswered' /\ InboxStep
<1>0. PICK new : new = Len(proposals) + 1
  OBVIOUS
<1>1. /\ proposals \in Seq(ProposalRow) /\ Len(proposals) \in Nat
      /\ DOMAIN proposals = 1..Len(proposals)
      /\ \A c \in DOMAIN claims : claims[c].proposal \in {0} \union DOMAIN proposals
      /\ \A s \in Desks : desk[s].phase # "idle" => desk[s].proposal \in DOMAIN proposals
  BY InboxFacts DEF InboxTypes
<1>2. Proposal(d) \in ProposalRow /\ Proposal(d).status = "pending" /\ Proposal(d).approved = {}
  BY DEF Proposal, ProposalRow, Statuses
<1>3. proposals' = Append(proposals, Proposal(d))
  BY DEF InsertProposal
<1>4. /\ Len(proposals') = new /\ DOMAIN proposals' = 1..new /\ proposals'[new] = Proposal(d)
      /\ \A p \in 1..Len(proposals) : proposals'[p] = proposals[p]
  BY <1>0, <1>1, <1>2, <1>3, AppendProperties
<1>5. /\ DOMAIN proposals' = DOMAIN proposals \union {new} /\ new \notin DOMAIN proposals
      /\ new \in Nat /\ new # 0
  BY <1>0, <1>1, <1>4
<1>6. \A p : ClaimsFrom(p)' = ClaimsFrom(p)
  BY DEF ClaimsFrom
<1>7. ClaimsFrom(new) = {} /\ Looking(new)' = {} /\ Creating(new)' = {}
  BY <1>1, <1>5 DEF ClaimsFrom, Looking, Creating
<1>8. Cardinality({}) = 0 /\ IsFiniteSet({})
  BY FS_EmptySet
<1>9. Answered(new)'
  <2>1. proposals'[new].approved = {} /\ ClaimsFrom(new)' = {}
    BY <1>2, <1>4, <1>6, <1>7
  <2>2. Cardinality(ClaimsFrom(new)') + Cardinality(Creating(new)')
          <= Cardinality(proposals'[new].approved)
    <3>1. 0 + 0 <= 0
      OBVIOUS
    <3> QED
      BY <1>7, <1>8, <2>1, <3>1
  <2> QED
    BY <1>7, <1>8, <2>1, <2>2 DEF Answered
<1>10. \A p \in DOMAIN proposals : Undisturbed(p)
  BY DEF Undisturbed, Looking, Creating
<1>11. \A p \in DOMAIN proposals : Answered(p)' /\ Entry(p)' = Entry(p)
  BY <1>1, <1>4, <1>6, <1>10, EntryStays DEF AllAnswered
<1>12. AllAnswered'
  BY <1>5, <1>9, <1>11 DEF AllAnswered
<1> DEFINE e == [status |-> "pending", open |-> {}, approved |-> {}, copies |-> 0]
<1>13. Entry(new)' = e /\ e \in EntryRow
  BY <1>2, <1>4, <1>6, <1>7, <1>8 DEF Entry, EntryRow, Statuses
<1> HIDE DEF e
<1>14. InboxOf' = Append(InboxOf, e)
  <2> DEFINE f == InboxOf'
             g == InboxOf
  <2>1. /\ g \in Seq(EntryRow) /\ Len(g) = Len(proposals)
        /\ f \in Seq(EntryRow) /\ Len(f) = new
    <3>1. (InboxOf \in Seq(EntryRow) /\ Len(InboxOf) = Len(proposals))'
      BY InboxIsSequence, PTL
    <3> QED
      BY <1>4, <3>1, InboxIsSequence DEF EntryRow
  <2>2. \A p \in 1..Len(proposals) : f[p] = g[p]
    BY <1>1, <1>5, <1>11 DEF InboxOf
  <2>3. f[new] = e
    BY <1>5, <1>13 DEF InboxOf
  <2> HIDE DEF f, g, EntryRow
  <2>4. /\ Append(g, e) \in Seq(EntryRow) /\ Len(Append(g, e)) = new /\ Append(g, e)[new] = e
        /\ \A p \in 1..Len(proposals) : Append(g, e)[p] = g[p]
    BY <1>0, <1>13, <2>1, AppendProperties
  <2>5. \A p \in 1..new : f[p] = Append(g, e)[p]
    BY <1>0, <1>1, <2>2, <2>3, <2>4
  <2>6. f = Append(g, e)
    BY <2>1, <2>4, <2>5, SeqEqual
  <2> QED
    BY <2>6 DEF f, g
<1>15. Inbox!Submit
  BY <1>14 DEF Inbox!Submit, InboxOf, e
<1> QED
  BY <1>12, <1>15 DEF InboxStep, Inbox!Next

LEMMA InboxDeskStep ==
    ASSUME InboxTypes, InboxTypes', AllAnswered, NEW s \in Desks,
           \/ create_proposal(s)
           \/ \E p \in DOMAIN proposals : approve_proposal(s, p) \/ reject_proposal(s, p)
           \/ Review(s) \/ Crash(s)
    PROVE  AllAnswered' /\ InboxStep
<1>0. desk \in [Desks -> DeskState]
  BY DEF InboxTypes
<1>1. CASE create_proposal(s)
  <2>1. PICK d \in ClaimData : InsertProposal(d)
    BY <1>1 DEF create_proposal
  <2>2. /\ UNCHANGED claims /\ desk[s].phase = "idle" /\ desk'[s].phase = "submitted"
        /\ \A r \in Desks : r # s => desk'[r] = desk[r]
    BY <1>0, <1>1 DEF create_proposal, At
  <2> QED
    BY <2>1, <2>2, InboxGrows
<1>2. CASE AuditSubmission(s) \/ AuditApproval(s) \/ AuditRejection(s) \/ Crash(s)
  <2>1. UNCHANGED <<proposals, claims>> /\ desk' = [desk EXCEPT ![s] = Idle]
    BY <1>2 DEF AuditSubmission, AuditApproval, AuditRejection, Crash
  <2>2. CASE desk[s].phase \in {"approve", "reject"}
    BY <2>1, <2>2, InboxLeaves
  <2>3. CASE desk[s].phase \notin {"approve", "reject"}
    <3>1. desk'[s].phase = "idle" /\ \A r \in Desks : r # s => desk'[r] = desk[r]
      BY <1>0, <2>1 DEF Idle
    <3>2. \A q : ClaimsFrom(q)' = ClaimsFrom(q)
      BY <2>1 DEF ClaimsFrom
    <3> QED
      BY <2>1, <2>3, <3>1, <3>2, InboxQuiet
  <2> QED
    BY <2>2, <2>3
<1>3. CASE RecordVersion(s) \/ AuditClaim(s)
  <2>1. /\ UNCHANGED <<proposals, claims>> /\ desk[s].phase \in {"version", "claim_audit"}
        /\ desk'[s].phase \in {"claim_audit", "approved"}
        /\ \A r \in Desks : r # s => desk'[r] = desk[r]
    BY <1>0, <1>3 DEF RecordVersion, AuditClaim, At, Go, DeskState
  <2>2. \A q : ClaimsFrom(q)' = ClaimsFrom(q)
    BY <2>1 DEF ClaimsFrom
  <2> QED
    BY <2>1, <2>2, InboxQuiet
<1> QED
  BY <1>1, <1>2, <1>3, InboxLooks, InboxApproves, InboxRejects, InboxStores
     DEF Review, approve_proposal, reject_proposal

LEMMA InboxTurnStep ==
    ASSUME PipelineInv, PipelineInv', AllAnswered, NEW t \in Turns, Process(t) \/ Vanish(t)
    PROVE  AllAnswered' /\ InboxStep
<1>1. InboxTypes /\ InboxTypes'
  BY PipelineTypes, PTL
<1>2. CASE Propose(t)
  <2>1. /\ turn[t].phase = "propose" /\ InsertProposal(Stored(t)) /\ UNCHANGED <<claims, desk>>
    BY <1>2 DEF Propose, In
  <2>2. Stored(t) \in ClaimData
    BY <2>1, StoredKeeps
  <2> QED
    BY <1>1, <2>1, <2>2, InboxGrows
<1>3. CASE Create(t)
  <2>1. /\ turn[t].phase = "create" /\ InsertClaim(Stored(t), 0) /\ UNCHANGED <<proposals, desk>>
    BY <1>3 DEF Create, In
  <2>2. Stored(t) \in ClaimData
    BY <2>1, StoredKeeps
  <2>3. 0 \notin DOMAIN proposals
    BY <1>1, InboxFacts
  <2>4. \A p \in DOMAIN proposals : ClaimsFrom(p)' = ClaimsFrom(p)
    BY <1>1, <2>1, <2>2, <2>3, ClaimAdded
  <2> QED
    BY <1>1, <2>1, <2>4, InboxQuiet
<1>4. CASE UNCHANGED <<proposals, claims, desk>>
  <2>1. \A q \in DOMAIN proposals : ClaimsFrom(q)' = ClaimsFrom(q)
    BY <1>4 DEF ClaimsFrom
  <2> QED
    BY <1>1, <1>4, <2>1, InboxQuiet
<1>5. Propose(t) \/ Create(t) \/ UNCHANGED <<proposals, claims, desk>>
  BY DEF Process, Begin, Refuse, Gates, InsertGroup, AuditProposal, Version, AuditCreated, Gated,
         AppendUser, AppendAssistant, AppendMessage, Increment, AuditTurn, _audit_failure, Vanish,
         reviewVars
<1> QED
  BY <1>2, <1>3, <1>4, <1>5

LEMMA EditKeepsOrigin ==
    ASSUME PipelineInv, NEW c \in DOMAIN claims, NEW edit \in Edits, Edit(c, edit)
    PROVE  \A p \in DOMAIN proposals : ClaimsFrom(p)' = ClaimsFrom(p)
<1> DEFINE row == [claims[c] EXCEPT !.data = Edited(claims[c].data, edit)]
<1>1. claims' = [claims EXCEPT ![c] = row]
  BY DEF Edit
<1>2. claims[c] \in StoredRow /\ claims \in Seq(StoredRow)
  BY RowTypes DEF PipelineInv, Types
<1>3. row.proposal = claims[c].proposal
  BY <1>2 DEF StoredRow
<1> HIDE DEF row
<1>4. /\ DOMAIN claims' = DOMAIN claims /\ claims'[c] = row
      /\ \A d \in DOMAIN claims : d # c => claims'[d] = claims[d]
  BY <1>1, <1>2
<1>5. \A d \in DOMAIN claims : claims'[d].proposal = claims[d].proposal
  BY <1>3, <1>4
<1> QED
  BY <1>4, <1>5 DEF ClaimsFrom

LEMMA PipelineAnswers ==
    ASSUME PipelineInv, PipelineInv', AllAnswered, [Next]_vars
    PROVE  AllAnswered' /\ InboxStep
<1>0. InboxTypes /\ InboxTypes'
  BY PipelineTypes, PTL
<1>1. CASE UNCHANGED vars
  <2>1. UNCHANGED <<proposals, claims, desk>>
    BY <1>1 DEF vars, reviewVars
  <2>2. \A q \in DOMAIN proposals : ClaimsFrom(q)' = ClaimsFrom(q)
    BY <2>1 DEF ClaimsFrom
  <2> QED
    BY <1>0, <2>1, <2>2, InboxQuiet
<1>2. CASE ReviewNext /\ UNCHANGED turnVars
  BY <1>0, <1>2, InboxDeskStep DEF ReviewNext
<1>3. CASE \E t \in Turns : Process(t) \/ Vanish(t)
  BY <1>3, InboxTurnStep
<1>4. ASSUME NEW c \in DOMAIN claims, NEW edit \in Edits, Edit(c, edit)
      PROVE  AllAnswered' /\ InboxStep
  <2>1. UNCHANGED <<proposals, desk>>
    BY <1>4 DEF Edit
  <2> QED
    BY <1>0, <1>4, <2>1, EditKeepsOrigin, InboxQuiet
<1> QED
  BY <1>1, <1>2, <1>3, <1>4 DEF Next

LEMMA ReviewAnswers ==
    ASSUME ReviewInv, ReviewInv', AllAnswered, [ReviewNext]_reviewVars
    PROVE  AllAnswered' /\ InboxStep
<1>0. InboxTypes /\ InboxTypes'
  BY ReviewTypes, PTL
<1>1. CASE UNCHANGED reviewVars
  <2>1. UNCHANGED <<proposals, claims, desk>>
    BY <1>1 DEF reviewVars
  <2>2. \A q \in DOMAIN proposals : ClaimsFrom(q)' = ClaimsFrom(q)
    BY <2>1 DEF ClaimsFrom
  <2> QED
    BY <1>0, <2>1, <2>2, InboxQuiet
<1>2. CASE ReviewNext
  BY <1>0, <1>2, InboxDeskStep DEF ReviewNext
<1> QED
  BY <1>1, <1>2

LEMMA EmptyInbox == proposals = << >> => AllAnswered /\ Inbox!Init
<1> SUFFICES ASSUME proposals = << >>
             PROVE  AllAnswered /\ Inbox!Init
  OBVIOUS
<1>1. DOMAIN proposals = {}
  OBVIOUS
<1>2. \A f : DOMAIN f = {} /\ f = [p \in {} |-> f[p]] => f = << >>
  BY EmptySeq
<1> QED
  BY <1>1, <1>2 DEF AllAnswered, Inbox!Init

\* The inbox of ProposalService, with any number of desks that decide the same
\* proposals, overlap and die: only who read a proposal as pending decides it,
\* none approves it twice, and it becomes no more claims than it has approvals
\* (OZY_WRITE_GATES, G4).
THEOREM DecisionsAreAnswered == ReviewSpec => ImplementsMemoryInbox
<1>1. ReviewInit => AllAnswered /\ Inbox!Init
  BY EmptyInbox DEF ReviewInit
<1>2. ReviewInv /\ ReviewInv' /\ AllAnswered /\ [ReviewNext]_reviewVars
        => AllAnswered' /\ InboxStep
  BY ReviewAnswers
<1> QED
  BY <1>1, <1>2, ReviewHolds, PTL
     DEF ReviewSpec, ImplementsMemoryInbox, Inbox!Spec, InboxStep, InboxOf

\* The same of the inbox that turns fill: whatever any number of turns propose
\* and remember next to the desks, whoever edits claims, and wherever a request
\* or a turn stops, it is the abstract MemoryInbox.
THEOREM InboxIsKept == Spec => ImplementsMemoryInbox
<1>1. Init => AllAnswered /\ Inbox!Init
  BY EmptyInbox DEF Init
<1>2. PipelineInv /\ PipelineInv' /\ AllAnswered /\ [Next]_vars
        => AllAnswered' /\ InboxStep
  BY PipelineAnswers
<1> QED
  BY <1>1, <1>2, PipelineHolds, PTL
     DEF Spec, ImplementsMemoryInbox, Inbox!Spec, InboxStep, InboxOf
=============================================================================
