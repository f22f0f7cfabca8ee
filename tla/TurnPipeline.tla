---------------------------- MODULE TurnPipeline ----------------------------
(***************************************************************************)
(* TurnService: what a turn does with the claims that were extracted from  *)
(* it.  Composes the write gates with the proposal inbox: turns write      *)
(* claims and proposals, desks review the proposals, and the user edits    *)
(* claims, all on the same tables and interleaved transaction by           *)
(* transaction.                                                            *)
(*                                                                         *)
(* A turn takes its claims one after the other.  For each it reads the     *)
(* current claims of the same subject and decides (Gates); then it writes  *)
(* what it decided, in transactions of their own.  Any exception ends the  *)
(* turn, keeps what is committed and is recorded in the audit trail.       *)
(***************************************************************************)
EXTENDS ProposalReview, WriteGates

CONSTANTS
    Turns,          \* the turns, one session each
    Inputs,         \* Inputs[t]: what turn t may be given; see TurnInput
    InitialClaims,  \* the claims tables to start from, as sequences of ClaimData
    Edits,          \* subset of {"lock", "unlock", "confirm", "retract",
                    \* "archive", "supersede"}
    MaxEdits,       \* bound: edits of claims by others than turns and desks
    MayVanish       \* turns that end without a trace: process killed, or the
                    \* client of a stream gone (CancelledError)

VARIABLES
    turn,      \* turn[t]: the state of turn t
    groups,    \* conflict_groups: the turn that recorded it
    messages,  \* conversation messages: turn and role
    breaker,   \* the circuit breaker's count of processed turns
    edits      \* number of edits so far

turnVars == <<turn, groups, messages, breaker, edits>>
vars == <<reviewVars, turnVars>>

-----------------------------------------------------------------------------

\* The model's answer to the turn: provider, consent, whether it has any text
\* (answer), the extracted claims.
TurnInput == [local : BOOLEAN, encrypted : BOOLEAN, intent : {"general_turn"},
              allow_s3_cloud_fallback : BOOLEAN, chat : BOOLEAN,
              answer : BOOLEAN, claims : Seq(ClaimData)]

ASSUME InputsAssumption ==
    /\ \A t \in Turns : Inputs[t] \subseteq TurnInput
    /\ IsFiniteSet(Turns)
    /\ MaxEdits \in Nat

\* The columns the gates look at.
ClaimColumns ==
    [subject : STRING, attribute : STRING, well_formed : BOOLEAN,
     sensitivity : Sensitivities, handling_policy : STRING,
     trust_level : DOMAIN TrustRank, source_type : STRING, source_ref : STRING,
     verification_state : STRING, user_locked : BOOLEAN, lifecycle : STRING,
     valid_from : Nat]

\* todo: the places of the claims that passed the filter and are still to be
\* taken; at: the place of the last one taken; seen: the rows of claims the
\* turn holds, as it loaded them.  locked is history: the claims that were
\* locked when the turn began and that nobody has released since.
NoInput == [claims |-> << >>]

NewTurn == [phase |-> "new", input |-> NoInput, todo |-> {}, at |-> 0,
            taint |-> Untainted, foreign |-> FALSE, id |-> 0, seen |-> << >>,
            locked |-> {}, created |-> {}, proposed |-> {}, rejected |-> 0]

\* Claims that are neither superseded nor retracted; archived ones are listed.
Current(c) == claims[c].data.verification_state \notin {"superseded", "retracted"}

CurrentClaims == {c \in DOMAIN claims : Current(c)}

SameSubject(d) == {c \in CurrentClaims : claims[c].data.subject = d.subject}

Init ==
    /\ proposals = << >>
    /\ audit = {}
    /\ desk = [s \in Desks |-> Idle]
    /\ requests = 0
    /\ \E initial \in InitialClaims :
         claims = [c \in DOMAIN initial |-> ClaimRow(initial[c], 0)]
    /\ versioned = DOMAIN claims
    /\ turn = [t \in Turns |-> NewTurn]
    /\ groups = {}
    /\ messages = {}
    /\ breaker = 0
    /\ edits = 0

-----------------------------------------------------------------------------
(* Preparation                                                             *)

In(t, phase) == turn[t].phase = phase

\* Mutant: the taint of the claims that passed the filter.
TaintOfAllowedOnly(input) ==
    compute_taint({input.claims[i] :
                     i \in {j \in DOMAIN input.claims :
                              filter_claims(input.claims[j], input)}})

\* The taint is that of everything extracted, filtered claims included.
Taint(input) == compute_taint({input.claims[i] : i \in DOMAIN input.claims})

\* filter_claims over the list; the order stays.
Allowed(input) == {i \in DOMAIN input.claims : filter_claims(input.claims[i], input)}

\* The provider has answered and claims are extracted: _finalize_turn begins.
Begin(t) ==
    /\ In(t, "new")
    /\ \E input \in Inputs[t] :
         turn' = [turn EXCEPT ![t] =
           [@ EXCEPT !.phase = "gates", !.input = input,
                     !.todo = Allowed(input),
                     !.taint = Taint(input),
                     !.locked = {c \in CurrentClaims :
                                   claims[c].data.user_locked}]]
    /\ UNCHANGED <<reviewVars, groups, messages, breaker, edits>>

\* Kill switch, circuit breaker, no provider, a failing provider.
Refuse(t) ==
    /\ In(t, "new")
    /\ turn' = [turn EXCEPT ![t] = [@ EXCEPT !.phase = "failing"]]
    /\ UNCHANGED <<reviewVars, groups, messages, breaker, edits>>

-----------------------------------------------------------------------------
(* The gates, claim by claim                                               *)

Extracted(t, i) == turn[t].input.claims[i]

Proposed(t, i) == Tentative(Extracted(t, i))

\* source_ref is the id of the turn unless the claim names another source.
Stored(t) == [Proposed(t, turn[t].at) EXCEPT !.source_ref =
                IF @ = "none" THEN "turn" ELSE @]

\* The query finds the rows that are current now, but the session hands out a
\* row it still holds as it was loaded (no expiry on commit, no
\* populate_existing).
View(t, c) == IF c \in DOMAIN turn[t].seen THEN turn[t].seen[c] ELSE claims[c].data

\* Held after the query: its result, and the claim that was created last.
LastCreated(t) == {c \in turn[t].created : \A other \in turn[t].created : other <= c}

Loaded(t, i) ==
    IF validate_schema(Extracted(t, i))
    THEN [c \in SameSubject(Proposed(t, i)) \union LastCreated(t) |-> View(t, c)]
    ELSE turn[t].seen

\* Lifecycle("archived") raises ValueError for any current claim of the subject.
Unreadable(t, d) == \E c \in SameSubject(d) : View(t, c).lifecycle = "archived"

Conflict(t, d) == detect_conflicts(d, {View(t, c) : c \in SameSubject(d)})

Rejects(t, i) ==
    \/ ~validate_schema(Extracted(t, i))
    \/ /\ ~Unreadable(t, Proposed(t, i))
       /\ Conflict(t, Proposed(t, i)) # "InvariantViolation"
       /\ check_tainted_action(turn[t].taint) = "Block"

Aborts(t, i) ==
    /\ validate_schema(Extracted(t, i))
    /\ \/ Unreadable(t, Proposed(t, i))
       \/ Conflict(t, Proposed(t, i)) = "InvariantViolation"

requires_hitl(t, i) ==
    \/ Conflict(t, Proposed(t, i)) = "ConflictGroup"
    \/ ~check_provenance(Proposed(t, i))
    \/ resolve_approval(Proposed(t, i).sensitivity) = "EscalatedTo"
    \/ check_tainted_action(turn[t].taint) = "Escalate"

\* A group names its claims by their source_ref; one without is left out, and
\* the id of a turn is not the id of a claim.
NamesForeignClaim(d) ==
    \E c \in SameSubject(d) : /\ claims_match(d, claims[c].data)
                              /\ claims[c].data.source_ref # "none"

NextPhase(t, i) ==
    IF Aborts(t, i) THEN "failing"
    ELSE IF Conflict(t, Proposed(t, i)) = "ConflictGroup" THEN "group"
    ELSE IF requires_hitl(t, i) THEN "propose"
    ELSE "create"

\* The next claim in the order of the list.
Gates(t) ==
    /\ In(t, "gates")
    /\ \E i \in turn[t].todo :
         /\ \A j \in turn[t].todo : i <= j
         /\ \/ /\ Rejects(t, i)
               /\ turn' = [turn EXCEPT ![t] =
                    [@ EXCEPT !.todo = turn[t].todo \ {i}, !.at = i,
                              !.seen = Loaded(t, i),
                              !.rejected = turn[t].rejected + 1]]
            \/ /\ ~Rejects(t, i)
               /\ turn' = [turn EXCEPT ![t] =
                    [@ EXCEPT !.todo = turn[t].todo \ {i}, !.at = i,
                              !.seen = Loaded(t, i),
                              !.phase = NextPhase(t, i),
                              !.foreign = NamesForeignClaim(Proposed(t, i))]]
    /\ UNCHANGED <<reviewVars, groups, messages, breaker, edits>>

-----------------------------------------------------------------------------
(* Writing what was decided                                                *)

\* The foreign key of conflict_group_claims refuses a group that names
\* something else than claims; the IntegrityError ends the turn.
InsertGroup(t) ==
    /\ In(t, "group")
    /\ groups' = IF turn[t].foreign THEN groups ELSE groups \union {t}
    /\ turn' = [turn EXCEPT ![t] =
                  [@ EXCEPT !.phase = IF turn[t].foreign THEN "failing"
                                      ELSE "propose"]]
    /\ UNCHANGED <<reviewVars, messages, breaker, edits>>

Propose(t) ==
    /\ In(t, "propose")
    /\ InsertProposal(Stored(t))
    /\ turn' = [turn EXCEPT ![t] =
                  [@ EXCEPT !.phase = "proposed", !.id = Len(proposals) + 1,
                            !.proposed = turn[t].proposed \union {Len(proposals) + 1}]]
    /\ UNCHANGED <<claims, versioned, audit, desk, requests,
                   groups, messages, breaker, edits>>

\* The next claim.
Advance(t) == turn' = [turn EXCEPT ![t] = [@ EXCEPT !.phase = "gates"]]

AuditProposal(t) ==
    /\ In(t, "proposed")
    /\ Log("proposal_created", turn[t].id)
    /\ Advance(t)
    /\ UNCHANGED <<proposals, claims, versioned, desk, requests,
                   groups, messages, breaker, edits>>

\* The rows the turn holds once it has created another claim.
WithCreated(t) ==
    [c \in DOMAIN turn[t].seen \union {Len(claims) + 1} |->
       IF c = Len(claims) + 1 THEN Stored(t) ELSE turn[t].seen[c]]

\* Mutant: only the claim is written, no version.
CreateUnversioned(t) ==
    /\ In(t, "create")
    /\ InsertClaim(Stored(t), 0)
    /\ turn' = [turn EXCEPT ![t] =
                  [@ EXCEPT !.phase = "claim_audit", !.id = Len(claims) + 1,
                            !.seen = WithCreated(t),
                            !.created = turn[t].created \union {Len(claims) + 1}]]
    /\ UNCHANGED <<proposals, versioned, audit, desk, requests,
                   groups, messages, breaker, edits>>

Create(t) ==
    /\ In(t, "create")
    /\ InsertClaim(Stored(t), 0)
    /\ turn' = [turn EXCEPT ![t] =
                  [@ EXCEPT !.phase = "version", !.id = Len(claims) + 1,
                            !.seen = WithCreated(t),
                            !.created = turn[t].created \union {Len(claims) + 1}]]
    /\ UNCHANGED <<proposals, versioned, audit, desk, requests,
                   groups, messages, breaker, edits>>

Version(t) ==
    /\ In(t, "version")
    /\ versioned' = versioned \union {turn[t].id}
    /\ turn' = [turn EXCEPT ![t] = [@ EXCEPT !.phase = "claim_audit"]]
    /\ UNCHANGED <<proposals, claims, audit, desk, requests,
                   groups, messages, breaker, edits>>

AuditCreated(t) ==
    /\ In(t, "claim_audit")
    /\ Log("claim_created", turn[t].id)
    /\ Advance(t)
    /\ UNCHANGED <<proposals, claims, versioned, desk, requests,
                   groups, messages, breaker, edits>>

-----------------------------------------------------------------------------
(* The end of a turn                                                       *)

\* Each message is a commit of its own.
AppendMessage(t, role, from, to) ==
    /\ In(t, from)
    /\ messages' = messages \union {<<t, role>>}
    /\ turn' = [turn EXCEPT ![t] = [@ EXCEPT !.phase = to]]
    /\ UNCHANGED <<reviewVars, groups, breaker, edits>>

\* The rows held are of no use any more.
Gated(t) ==
    /\ In(t, "gates")
    /\ turn[t].todo = {}
    /\ turn' = [turn EXCEPT ![t] =
                  [@ EXCEPT !.phase = IF turn[t].input.chat THEN "user" ELSE "count",
                            !.seen = << >>]]
    /\ UNCHANGED <<reviewVars, groups, messages, breaker, edits>>

\* An answer without text is not stored.
AppendUser(t) ==
    AppendMessage(t, "user", "user",
                  IF turn[t].input.answer THEN "assistant" ELSE "count")

AppendAssistant(t) == AppendMessage(t, "assistant", "assistant", "count")

Increment(t) ==
    /\ In(t, "count")
    /\ breaker' = breaker + 1
    /\ turn' = [turn EXCEPT ![t] = [@ EXCEPT !.phase = "audit"]]
    /\ UNCHANGED <<reviewVars, groups, messages, edits>>

AuditTurn(t) ==
    /\ In(t, "audit")
    /\ Log("turn_processed", t)
    /\ turn' = [turn EXCEPT ![t] = [@ EXCEPT !.phase = "done"]]
    /\ UNCHANGED <<proposals, claims, versioned, desk, requests,
                   groups, messages, breaker, edits>>

\* Mutant: the failure entry is written on the broken session and lost.
FailureNotAudited(t) ==
    /\ In(t, "failing")
    /\ turn' = [turn EXCEPT ![t] = [@ EXCEPT !.phase = "failed"]]
    /\ UNCHANGED <<reviewVars, groups, messages, breaker, edits>>

_audit_failure(t) ==
    /\ In(t, "failing")
    /\ Log("turn_failed", t)
    /\ turn' = [turn EXCEPT ![t] = [@ EXCEPT !.phase = "failed"]]
    /\ UNCHANGED <<proposals, claims, versioned, desk, requests,
                   groups, messages, breaker, edits>>

\* `except Exception` does not see a CancelledError, and nothing sees a kill.
Vanish(t) ==
    /\ t \in MayVanish
    /\ turn[t].phase \notin {"new", "done", "failed", "gone"}
    /\ turn' = [turn EXCEPT ![t] = [@ EXCEPT !.phase = "gone"]]
    /\ UNCHANGED <<reviewVars, groups, messages, breaker, edits>>

-----------------------------------------------------------------------------
(* Everybody else who changes claims                                       *)

Edited(d, edit) ==
    CASE edit = "lock" -> [d EXCEPT !.user_locked = TRUE]
      [] edit = "unlock" -> [d EXCEPT !.user_locked = FALSE]
      [] edit = "confirm" -> [d EXCEPT !.verification_state = "confirmed"]
      [] edit = "retract" -> [d EXCEPT !.verification_state = "retracted"]
      [] edit = "archive" -> [d EXCEPT !.lifecycle = "archived"]
      [] edit = "supersede" -> [d EXCEPT !.verification_state = "superseded"]

\* After these the claim is free to be contradicted.
Releases == {"unlock", "retract", "supersede"}

\* The table holds no other claims than the ones that may be proposed, under
\* whatever source and after whatever edit.
ASSUME RowsAssumption ==
    /\ ClaimData \subseteq ClaimColumns
    /\ InitialClaims \subseteq Seq(ClaimData)
    /\ Edits \subseteq {"lock", "unlock", "confirm", "retract", "archive", "supersede"}
    /\ \A d \in ClaimData :
         /\ Tentative(d) \in ClaimData
         /\ [d EXCEPT !.source_ref = "turn"] \in ClaimData
         /\ \A edit \in Edits : Edited(d, edit) \in ClaimData

\* An operation of ClaimService, or the UPDATE of the consolidation or of the
\* memory write, reduced to the transaction that changes the claim
\* (ClaimLifecycle and MemoryWrite have them).  Their checks were made on a row
\* read earlier, so each may meet a row in any state.  Changes of columns the
\* gates do not look at are left out.
Edit(c, edit) ==
    /\ edits < MaxEdits
    /\ claims' = [claims EXCEPT ![c] = [@ EXCEPT !.data = Edited(claims[c].data, edit)]]
    /\ turn' = [t \in Turns |->
                  [turn[t] EXCEPT !.locked = IF edit \in Releases THEN @ \ {c} ELSE @]]
    /\ edits' = edits + 1
    /\ UNCHANGED <<proposals, versioned, audit, desk, requests,
                   groups, messages, breaker>>

-----------------------------------------------------------------------------

Process(t) ==
    \/ Begin(t) \/ Refuse(t)
    \/ Gates(t) \/ InsertGroup(t)
    \/ Propose(t) \/ AuditProposal(t)
    \/ Create(t) \/ Version(t) \/ AuditCreated(t)
    \/ Gated(t) \/ AppendUser(t) \/ AppendAssistant(t)
    \/ Increment(t) \/ AuditTurn(t) \/ _audit_failure(t)

Next ==
    \/ ReviewNext /\ UNCHANGED turnVars
    \/ \E t \in Turns : Process(t) \/ Vanish(t)
    \/ \E c \in DOMAIN claims, edit \in Edits : Edit(c, edit)

Spec == Init /\ [][Next]_vars

\* The event loop resumes a coroutine whose query has come back.
FairSpec == Spec /\ \A t \in Turns : WF_vars(Process(t))

-----------------------------------------------------------------------------
(* Properties                                                              *)

TurnPhases == {"new", "gates", "group", "propose", "proposed", "create",
               "version", "claim_audit", "user", "assistant", "count", "audit",
               "done", "failing", "failed", "gone"}

\* The type of what a turn adds to the inbox.
TypeOK ==
    /\ \A c \in DOMAIN claims : /\ claims[c].data \in ClaimData
                               /\ claims[c].proposal \in {0} \union DOMAIN proposals
    /\ \A p \in DOMAIN proposals : proposals[p].data \in ClaimData
    /\ versioned \subseteq DOMAIN claims
    /\ \A t \in Turns :
         /\ turn[t].phase \in TurnPhases
         /\ turn[t].created \subseteq DOMAIN claims
         /\ turn[t].proposed \subseteq DOMAIN proposals
         /\ turn[t].todo \subseteq DOMAIN turn[t].input.claims
         /\ turn[t].rejected \in 0 .. Cardinality(Allowed(turn[t].input))
    /\ groups \subseteq Turns
    /\ messages \subseteq Turns \X {"user", "assistant"}
    /\ breaker \in 0 .. Cardinality(Turns)
    /\ edits \in 0 .. MaxEdits

\* Everything the turn has put into the memory or into the inbox.
Written(t) == {claims[c].data : c \in turn[t].created}
                \union {proposals[p].data : p \in turn[t].proposed}

\* A claim enters the memory without a person only if the user said so, it is
\* well-formed and at most S2, and nothing else in the turn was untrusted or
\* more sensitive: the gates look at one claim, the taint at all of them.
NothingUnreviewed ==
    \A t \in Turns : \A c \in turn[t].created :
      /\ claims[c].data.well_formed
      /\ claims[c].data.source_type \in {"user_explicit", "user_confirmed"}
      /\ \A i \in DOMAIN turn[t].input.claims :
           /\ turn[t].input.claims[i].trust_level # "T0"
           /\ ~AtLeast(turn[t].input.claims[i].sensitivity, "S3")

\* What the provider of the turn may not see is not remembered on its word,
\* neither as a claim nor as a proposal: S4 never (SENSITIVITY_ROUTING.md).
FilteredStaysOut ==
    \A t \in Turns : \A d \in Written(t) :
      /\ d.sensitivity # "S4"
      /\ d.sensitivity = "S3" => \/ turn[t].input.local
                                \/ turn[t].input.allow_s3_cloud_fallback
      /\ d.sensitivity = "S2" => turn[t].input.encrypted

\* A claim that was locked before the turn began is not contradicted by the
\* turn, not even by a proposal, unless somebody has unlocked, retracted or
\* superseded it since.
LockedBeforeTurn ==
    \A t \in Turns : \A c \in turn[t].locked :
      \A p \in turn[t].proposed, d \in turn[t].created :
        /\ ~claims_match(proposals[p].data, claims[c].data)
        /\ ~claims_match(claims[d].data, claims[c].data)

\* What the conversation keeps of a turn.
Remembered(t) ==
    IF ~turn[t].input.chat THEN {}
    ELSE {<<t, "user">>} \union
           (IF turn[t].input.answer THEN {<<t, "assistant">>} ELSE {})

\* A turn is reported as processed only if each claim that passed the filter
\* was created with a version, proposed, or rejected, and the conversation has
\* exactly the question and the answer, if there is one; a turn that failed is
\* not counted as processed as well.
ProcessedIsComplete ==
    \A t \in Turns :
      /\ <<"turn_processed", t>> \in audit =>
           /\ Cardinality(turn[t].created) + Cardinality(turn[t].proposed)
                + turn[t].rejected = Cardinality(Allowed(turn[t].input))
           /\ turn[t].created \subseteq versioned
           /\ {m \in messages : m[1] = t} = Remembered(t)
           /\ <<"turn_failed", t>> \notin audit

\* Every turn that is not cut off ends in the audit trail, also when one of
\* its transactions fails.
TurnsGetAudited ==
    \A t \in Turns \ MayVanish :
      <>(<<"turn_processed", t>> \in audit \/ <<"turn_failed", t>> \in audit)

\* What a turn leaves behind is admissible in every respect the gates, the
\* filter and the locks are there for.
MemoryIsGated == TypeOK /\ NothingUnreviewed /\ FilteredStaysOut /\ LockedBeforeTurn
=============================================================================
