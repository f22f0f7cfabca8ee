--------------------------- MODULE BehavioralRules ---------------------------
(***************************************************************************)
(* The behavioral rules of one user: the lane of memory that changes how   *)
(* the assistant behaves, so that a rule becomes active only by an         *)
(* approval, for thirty days, and unless it conflicts with the rules that  *)
(* are active.                                                             *)
(*                                                                         *)
(* A desk is a request in flight.  Its steps are the statements and        *)
(* commits between which other requests and the nightly cleanup run:       *)
(* SELECT the rule, SELECT the active rules, store the conflicts, UPDATE   *)
(* the rule, write the audit entry.                                        *)
(***************************************************************************)
EXTENDS Integers, FiniteSets, FiniteSetsExt

CONSTANTS
    Rules,          \* the rules that may be proposed
    Proposed,       \* those that wait for review at the start
    content,        \* content[r]: what rule r says; see RuleSpec
    Desks,          \* concurrent requests
    DomainCap,      \* DEFAULT_DOMAIN_RULE_CAP
    GlobalCap,      \* DEFAULT_GLOBAL_RULE_CAP
    ArtifactBudget, \* DEFAULT_DOMAIN_ARTIFACT_BUDGET
    MaxRequests,    \* bound: requests that write
    MayVanish       \* desks whose request may be cut off at any await

\* terms: the stemmed keywords of the trigger; action: "none" without one.
RuleSpec == [domain : STRING, terms : SUBSET STRING, action : STRING,
             polarity : {"affirm", "negate"}, cost : Nat]

ASSUME RulesAssumption ==
    /\ IsFiniteSet(Rules) /\ IsFiniteSet(Desks)
    /\ Proposed \subseteq Rules
    /\ \A r \in Rules : content[r] \in RuleSpec
    /\ DomainCap \in Nat \ {0} /\ GlobalCap \in Nat \ {0} /\ ArtifactBudget \in Nat
    /\ MaxRequests \in Nat /\ MayVanish \subseteq Desks

VARIABLES
    rule,       \* rule[r]: its row: status, and what has become of expires_at
    stored,     \* stored[r]: the behavioral_rule_conflicts that name it
    trail,      \* trail[r]: the decisions about it that have an audit entry
    desk,       \* desk[d]: the request handled there
    requests,   \* number of requests so far
    has_claims, \* the user has a claim, so the nightly job runs for them
    overlapped, \* history: the pairs of rules that were under approval at once
    lost        \* history: the rules whose request vanished before its audit

vars == <<rule, stored, trail, desk, requests, has_claims, overlapped, lost>>

-----------------------------------------------------------------------------
(* memory/rules.py                                                         *)

triggers_overlap(r, s) == content[r].terms \cap content[s].terms # {}

is_triggered(r, query) == content[r].terms \cap query # {}

Contradicts(r, s) ==
    /\ content[r].action # "none"
    /\ content[r].action = content[s].action
    /\ content[r].polarity # content[s].polarity

SameDomain(r, active) == {s \in active : content[s].domain = content[r].domain}

\* The conflicts of r with the active rules.  Two caps and their counts differ
\* only in the text, so they are one conflict.
detect_conflicts(r, active) ==
    {[type |-> IF Contradicts(r, s) THEN "direct" ELSE "interaction", other |-> {s}] :
        s \in {t \in active : triggers_overlap(r, t)}}
    \union {c \in {[type |-> "cap", other |-> {}]} :
              \/ Cardinality(SameDomain(r, active)) >= DomainCap
              \/ Cardinality(active) >= GlobalCap}
    \union {c \in {[type |-> "budget", other |-> {}]} :
              MapThenSumSet(LAMBDA s : content[s].cost,
                            SameDomain(r, active) \union {r}) > ArtifactBudget}

Hard(conflicts) == \E c \in conflicts : c.type \in {"direct", "cap"}
Soft(conflicts) == \E c \in conflicts : c.type \in {"interaction", "budget"}

-----------------------------------------------------------------------------
(* State                                                                   *)

Statuses == {"none", "pending", "active", "rejected", "retired"}

\* expires: "unset", or whether the thirty days of an approval are over.
BehavioralRule == [status : Statuses, expires : {"unset", "ahead", "past"}]

BehavioralRuleConflict ==
    [type : {"direct", "interaction", "cap", "budget"}, other : SUBSET Rules]

Active == {r \in Rules : rule[r].status = "active"}

\* The audit entry that each decision leaves.
EntryOf == [active |-> "memory_confirmed", rejected |-> "memory_rejected",
            retired |-> "memory_retracted"]

Decisions == {"memory_confirmed", "memory_rejected", "memory_retracted"}
Events == Decisions \union {"action_executed", "action_blocked"}

Phases == {"active", "store", "update", "reject", "retire", "audit"}

\* seen: the active rules the request has read.  event: the entry to write.
Idle == [phase |-> "idle"]

Request(phase, op, r, override_soft) ==
    [phase |-> phase, op |-> op, rule |-> r, override_soft |-> override_soft,
     seen |-> {}, event |-> "none"]

RequestType == [phase : Phases, op : {"propose", "approve", "reject", "retire"},
                rule : Rules, override_soft : BOOLEAN, seen : SUBSET Rules,
                event : Events \union {"none"}]

At(d, phase) == desk[d].phase = phase
Busy(d) == ~At(d, "idle")

Go(d, request) == desk' = [desk EXCEPT ![d] = request]
End(d) == Go(d, Idle)
Audit(d, event) ==
    Go(d, [phase |-> "audit", op |-> desk[d].op, rule |-> desk[d].rule,
           override_soft |-> desk[d].override_soft, seen |-> {}, event |-> event])

\* The other entries are written, but no property looks at them.
Record(r, event) == trail' = [trail EXCEPT ![r] = @ \union ({event} \cap Decisions)]

Init ==
    /\ rule = [r \in Rules |->
                 [status |-> IF r \in Proposed THEN "pending" ELSE "none",
                  expires |-> "unset"]]
    /\ stored = [r \in Rules |-> {}]
    /\ trail = [r \in Rules |-> {}]
    /\ desk = [d \in Desks |-> Idle]
    /\ requests = 0
    /\ has_claims = FALSE
    /\ overlapped = {}
    /\ lost = {}

-----------------------------------------------------------------------------
(* Requests                                                                *)

Begin(d) ==
    /\ ~Busy(d)
    /\ requests < MaxRequests
    /\ requests' = requests + 1

\* Only an observation may propose; anything else is refused without a write.
propose_rule(d, r) ==
    /\ Begin(d)
    /\ rule[r].status = "none"
    /\ rule' = [rule EXCEPT ![r] = [status |-> "pending", expires |-> "unset"]]
    /\ Go(d, Request("active", "propose", r, FALSE))
    /\ UNCHANGED <<stored, trail, has_claims, overlapped, lost>>

\* _get_rule and the test of its status; 404 and 409 end the request.
approve_rule(d, r, override_soft) ==
    /\ Begin(d)
    /\ rule[r].status = "pending"
    /\ Go(d, Request("active", "approve", r, override_soft))
    /\ UNCHANGED <<rule, stored, trail, has_claims, overlapped, lost>>

reject_rule(d, r) ==
    /\ Begin(d)
    /\ rule[r].status = "pending"
    /\ Go(d, Request("reject", "reject", r, FALSE))
    /\ UNCHANGED <<rule, stored, trail, has_claims, overlapped, lost>>

retire_rule(d, r) ==
    /\ Begin(d)
    /\ rule[r].status \in {"pending", "active"}
    /\ Go(d, Request("retire", "retire", r, FALSE))
    /\ UNCHANGED <<rule, stored, trail, has_claims, overlapped, lost>>

\* list_rules(status="active"), without the rule itself.
SelectActive(d) ==
    /\ At(d, "active")
    /\ Go(d, [desk[d] EXCEPT !.phase = "store", !.seen = Active \ {desk[d].rule}])
    /\ UNCHANGED <<rule, stored, trail, requests, has_claims, overlapped, lost>>

\* Mutant: an approval relies on the conflicts found when the rule was proposed.
StoreConflictsOnce(d) ==
    /\ At(d, "store")
    /\ LET r == desk[d].rule
           conflicts == IF desk[d].op = "propose" THEN detect_conflicts(r, desk[d].seen)
                        ELSE stored[r]
       IN /\ stored' = [stored EXCEPT ![r] = conflicts]
          /\ \/ desk[d].op = "propose" /\ Audit(d, "action_executed")
             \/ desk[d].op = "approve" /\ Hard(conflicts) /\ Audit(d, "action_blocked")
             \/ /\ desk[d].op = "approve"
                /\ ~Hard(conflicts)
                /\ IF Soft(conflicts) /\ ~desk[d].override_soft THEN End(d)
                   ELSE Go(d, [desk[d] EXCEPT !.phase = "update"])
    /\ UNCHANGED <<rule, trail, requests, has_claims, overlapped, lost>>

\* _detect_and_store_conflicts: what was stored before counts again, whether
\* or not the other rule is still active.  Then the judgement of an approval.
StoreConflicts(d) ==
    /\ At(d, "store")
    /\ LET r == desk[d].rule
           conflicts == stored[r] \union detect_conflicts(r, desk[d].seen)
       IN /\ stored' = [stored EXCEPT ![r] = conflicts]
          /\ \/ desk[d].op = "propose" /\ Audit(d, "action_executed")
             \/ desk[d].op = "approve" /\ Hard(conflicts) /\ Audit(d, "action_blocked")
             \/ /\ desk[d].op = "approve"
                /\ ~Hard(conflicts)
                /\ IF Soft(conflicts) /\ ~desk[d].override_soft THEN End(d)
                   ELSE Go(d, [desk[d] EXCEPT !.phase = "update"])
    /\ UNCHANGED <<rule, trail, requests, has_claims, overlapped, lost>>

\* The rules other desks are about to activate without having seen r.
Unseen(d) ==
    {desk[e].rule : e \in {f \in Desks \ {d} :
       /\ desk[f].phase \in {"store", "update"} /\ desk[f].op = "approve"
       /\ desk[d].rule \notin desk[f].seen}}

\* Mutant: the activation is taken as audited already.
ActivateSilently(d) ==
    /\ At(d, "update")
    /\ rule' = [rule EXCEPT ![desk[d].rule] = [status |-> "active", expires |-> "ahead"]]
    /\ overlapped' = overlapped \union {{desk[d].rule, s} : s \in Unseen(d)}
    /\ End(d)
    /\ UNCHANGED <<stored, trail, requests, has_claims, lost>>

\* The UPDATE names the rule, not the status it was read with: a rule decided
\* in the meantime becomes active all the same.
Activate(d) ==
    /\ At(d, "update")
    /\ rule' = [rule EXCEPT ![desk[d].rule] = [status |-> "active", expires |-> "ahead"]]
    /\ overlapped' = overlapped \union {{desk[d].rule, s} : s \in Unseen(d)}
    /\ Audit(d, "memory_confirmed")
    /\ UNCHANGED <<stored, trail, requests, has_claims, lost>>

Reject(d) ==
    /\ At(d, "reject")
    /\ rule' = [rule EXCEPT ![desk[d].rule] = [@ EXCEPT !.status = "rejected"]]
    /\ Audit(d, "memory_rejected")
    /\ UNCHANGED <<stored, trail, requests, has_claims, overlapped, lost>>

\* _retire_internal: the audit entry and the status are one commit.
Retire(d) ==
    /\ At(d, "retire")
    /\ rule' = [rule EXCEPT ![desk[d].rule] = [@ EXCEPT !.status = "retired"]]
    /\ Record(desk[d].rule, "memory_retracted")
    /\ End(d)
    /\ UNCHANGED <<stored, requests, has_claims, overlapped, lost>>

WriteAudit(d) ==
    /\ At(d, "audit")
    /\ Record(desk[d].rule, desk[d].event)
    /\ End(d)
    /\ UNCHANGED <<rule, stored, requests, has_claims, overlapped, lost>>

\* The client is gone or the process dies: what is not committed is not done.
Vanish(d) ==
    /\ d \in MayVanish
    /\ Busy(d)
    /\ lost' = IF At(d, "audit") THEN lost \union {desk[d].rule} ELSE lost
    /\ End(d)
    /\ UNCHANGED <<rule, stored, trail, requests, has_claims, overlapped>>

-----------------------------------------------------------------------------
(* Time and the nightly job                                                *)

\* Thirty days after an approval.
TtlEnds(r) ==
    /\ rule[r].expires = "ahead"
    /\ rule' = [rule EXCEPT ![r] = [@ EXCEPT !.expires = "past"]]
    /\ UNCHANGED <<stored, trail, desk, requests, has_claims, overlapped, lost>>

FirstClaim ==
    /\ ~has_claims
    /\ has_claims' = TRUE
    /\ UNCHANGED <<rule, stored, trail, desk, requests, overlapped, lost>>

\* run_memory_cleanup_all_task runs for the users with claims; one UPDATE sends
\* expired rules back to review.
cleanup_expired ==
    /\ has_claims
    /\ \E r \in Active : rule[r].expires = "past"
    /\ rule' = [r \in Rules |->
                  IF rule[r].status = "active" /\ rule[r].expires = "past"
                  THEN [status |-> "pending", expires |-> "past"]
                  ELSE rule[r]]
    /\ UNCHANGED <<stored, trail, desk, requests, has_claims, overlapped, lost>>

\* The rules a turn puts into its prompt: expiry counts at once, not at night.
_load_triggered_rules(query) ==
    {r \in Active : rule[r].expires = "ahead" /\ is_triggered(r, query)}

-----------------------------------------------------------------------------

Serve(d) ==
    \/ SelectActive(d) \/ StoreConflicts(d)
    \/ Activate(d) \/ Reject(d) \/ Retire(d) \/ WriteAudit(d)

RuleStep ==
    \/ \E d \in Desks, r \in Rules :
         \/ propose_rule(d, r) \/ reject_rule(d, r) \/ retire_rule(d, r)
         \/ \E override_soft \in BOOLEAN : approve_rule(d, r, override_soft)
    \/ \E d \in Desks : Serve(d) \/ Vanish(d)
    \/ \E r \in Rules : TtlEnds(r)
    \/ FirstClaim

\* MemoryGraph has the whole nightly transaction and its fairness.
Next == RuleStep \/ cleanup_expired

Spec == Init /\ [][Next]_vars

-----------------------------------------------------------------------------
(* Properties                                                              *)

\* The types of the rows and of the requests; a desk that writes an audit
\* entry knows which.
TypeOK ==
    /\ rule \in [Rules -> BehavioralRule]
    /\ stored \in [Rules -> SUBSET BehavioralRuleConflict]
    /\ trail \in [Rules -> SUBSET Decisions]
    /\ desk \in [Desks -> RequestType \union {Idle}]
    /\ \A d \in Desks : At(d, "audit") => desk[d].event \in Events
    /\ requests \in 0 .. MaxRequests
    /\ has_claims \in BOOLEAN
    /\ overlapped \subseteq SUBSET Rules
    /\ lost \subseteq Rules

\* The caps limit drift although approvals count the active rules before they
\* add one: a cap is passed only by approvals that overlapped.
RuleCaps ==
    LET Excused(S) == \E r, s \in S : r # s /\ {r, s} \in overlapped
    IN /\ \A r \in Rules :
            Cardinality(SameDomain(r, Active)) > DomainCap => Excused(SameDomain(r, Active))
       /\ Cardinality(Active) > GlobalCap => Excused(Active)

\* No prompt holds two rules that contradict each other about one keyword,
\* over expiry, review and retirement, unless their approvals overlapped:
\* neither desk has then seen the other's rule.
NoContradictingAdvice ==
    \A r \in Rules : \A term \in content[r].terms :
      \A s \in _load_triggered_rules({term}) :
        r \in Active /\ Contradicts(r, s) => {r, s} \in overlapped

\* Every decision about a rule has its audit entry, is about to write it, or
\* the request was cut off after the commit of the rule.
DecisionsAudited ==
    \A r \in Rules : \A outcome \in DOMAIN EntryOf :
      rule[r].status = outcome =>
        \/ EntryOf[outcome] \in trail[r]
        \/ \E d \in Desks : desk[d].phase = "audit" /\ desk[d].rule = r
                            /\ desk[d].event = EntryOf[outcome]
        \/ r \in lost

\* A rule whose thirty days are over does not stay active: the nightly job of
\* a user with claims sends it back to review.
ReviewedMonthly ==
    \A r \in Rules :
      has_claims /\ r \in Active /\ rule[r].expires = "past"
        ~> ~(r \in Active /\ rule[r].expires = "past")

\* The active rules may be used together: a prompt neither holds too many of
\* them nor two that contradict each other, but for approvals that overlapped.
ActiveRulesAgree == TypeOK /\ RuleCaps /\ NoContradictingAdvice
=============================================================================
