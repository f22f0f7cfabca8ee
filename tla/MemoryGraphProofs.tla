-------------------------- MODULE MemoryGraphProofs --------------------------
(***************************************************************************)
(* Proofs about BehavioralRules and MemoryGraph for every set of rules,    *)
(* desks, names and relations and every cap: what approvals that overlap   *)
(* may do to the set of active rules, the audit trail of decisions, and    *)
(* the foreign keys of the graph.                                          *)
(***************************************************************************)
EXTENDS MemoryGraph, TLAPS, FiniteSetTheorems

-----------------------------------------------------------------------------
(* The inductive invariant                                                 *)

\* A request that approves and has read the active rules.
Judging(d) == desk[d].phase \in {"store", "update"} /\ desk[d].op = "approve"

\* What has become active since such a request read is on record as overlapping
\* with it.
OverlapsNoted(d) ==
    Judging(d) => \A s \in Active \ (desk[d].seen \union {desk[d].rule}) :
                     {desk[d].rule, s} \in overlapped

\* A request that is about to activate its rule has found no hard conflict with
\* what it has read.
Passed(d) ==
    At(d, "update") =>
      LET r == desk[d].rule
          seen == desk[d].seen
      IN /\ desk[d].op = "approve"
         /\ \A s \in seen : ~(triggers_overlap(r, s) /\ Contradicts(r, s))
         /\ Cardinality(SameDomain(r, seen)) < DomainCap
         /\ Cardinality(seen) < GlobalCap

\* NoContradictingAdvice without the prompt: expired rules are in it as well.
ActiveAgree ==
    \A r, s \in Active : triggers_overlap(r, s) /\ Contradicts(r, s) => {r, s} \in overlapped

Excused(S) == \E r, s \in S : r # s /\ {r, s} \in overlapped
OneDomain(S) == \A r, s \in S : content[r].domain = content[s].domain

\* RuleCaps for every set of active rules, and so for what is left when some of
\* them are rejected, retired or sent back to review: of the rules that passed
\* a cap, each set that is still too large holds an overlap of its own.
CapsOfAllSubsets ==
    \A S \in SUBSET Active :
      \/ Excused(S)
      \/ Cardinality(S) <= GlobalCap /\ (OneDomain(S) => Cardinality(S) <= DomainCap)

RulesInv ==
    /\ TypeOK
    /\ \A d \in Desks : OverlapsNoted(d) /\ Passed(d)
    /\ ActiveAgree
    /\ CapsOfAllSubsets
    /\ DecisionsAudited

-----------------------------------------------------------------------------
(* Types                                                                   *)

LEMMA FiniteRules ==
    ASSUME NEW S \in SUBSET Rules
    PROVE  IsFiniteSet(S) /\ Cardinality(S) \in Nat
BY RulesAssumption, FS_Subset, FS_CardinalityType

LEMMA BusyDesk ==
    ASSUME TypeOK, NEW d \in Desks, Busy(d)
    PROVE  desk[d] \in RequestType
BY DEF TypeOK, Busy, At, Idle

LEMMA ConflictsType ==
    ASSUME NEW r \in Rules, NEW seen \in SUBSET Rules
    PROVE  detect_conflicts(r, seen) \subseteq BehavioralRuleConflict
<1> SUFFICES ASSUME NEW c \in detect_conflicts(r, seen)
             PROVE  c \in BehavioralRuleConflict
  OBVIOUS
<1>1. \/ \E s \in seen : \/ c = [type |-> "direct", other |-> {s}]
                         \/ c = [type |-> "interaction", other |-> {s}]
      \/ c = [type |-> "cap", other |-> {}]
      \/ c = [type |-> "budget", other |-> {}]
  BY DEF detect_conflicts
<1> QED
  BY <1>1 DEF BehavioralRuleConflict

\* A desk takes another request record.
LEMMA GoType ==
    ASSUME TypeOK, NEW d \in Desks, NEW x \in RequestType \union {Idle}, Go(d, x),
           x.phase = "audit" => x.event \in Events
    PROVE  /\ desk' \in [Desks -> RequestType \union {Idle}]
           /\ \A e \in Desks : desk'[e].phase = "audit" => desk'[e].event \in Events
           /\ desk'[d] = x
           /\ \A e \in Desks : e # d => desk'[e] = desk[e]
BY DEF TypeOK, Go, At

LEMMA AuditType ==
    ASSUME TypeOK, NEW d \in Desks, Busy(d), NEW event \in Events, Audit(d, event)
    PROVE  /\ desk' \in [Desks -> RequestType \union {Idle}]
           /\ \A e \in Desks : desk'[e].phase = "audit" => desk'[e].event \in Events
           /\ desk'[d].phase = "audit" /\ desk'[d].event = event
           /\ desk'[d].rule = desk[d].rule
           /\ \A e \in Desks : e # d => desk'[e] = desk[e]
<1> DEFINE x == [phase |-> "audit", op |-> desk[d].op, rule |-> desk[d].rule,
                 override_soft |-> desk[d].override_soft, seen |-> {}, event |-> event]
<1>1. x \in RequestType /\ x.phase = "audit" /\ x.event = event /\ x.rule = desk[d].rule
  BY BusyDesk DEF RequestType, Phases
<1>2. Go(d, x)
  BY DEF Audit
<1> HIDE DEF x
<1> QED
  BY <1>1, <1>2, GoType

\* A request never leaves the bounds and enumerations of its row.
LEMMA RuleRow ==
    ASSUME TypeOK, NEW r \in Rules, NEW row \in BehavioralRule
    PROVE  [rule EXCEPT ![r] = row] \in [Rules -> BehavioralRule]
BY DEF TypeOK

LEMMA TrailType ==
    ASSUME TypeOK, NEW r \in Rules, NEW event, Record(r, event)
    PROVE  /\ trail' \in [Rules -> SUBSET Decisions]
           /\ \A q \in Rules : trail[q] \subseteq trail'[q]
           /\ event \in Decisions => event \in trail'[r]
BY DEF TypeOK, Record

LEMMA RequestStepType ==
    ASSUME TypeOK, NEW d \in Desks, NEW r \in Rules, NEW override_soft \in BOOLEAN,
           \/ propose_rule(d, r) \/ reject_rule(d, r) \/ retire_rule(d, r)
           \/ approve_rule(d, r, override_soft)
    PROVE  /\ TypeOK'
           /\ desk'[d].phase \in {"active", "reject", "retire"}
           /\ \A e \in Desks : e # d => desk'[e] = desk[e]
<1> DEFINE x(phase, op, override) == Request(phase, op, r, override)
<1>1. requests' \in 0 .. MaxRequests
  <2>1. Begin(d)
    BY DEF propose_rule, reject_rule, retire_rule, approve_rule
  <2>2. requests \in 0 .. MaxRequests
    BY DEF TypeOK
  <2> QED
    BY <2>1, <2>2, RulesAssumption DEF Begin
<1>2. ASSUME NEW phase \in {"active", "reject", "retire"}, NEW override \in BOOLEAN,
             NEW op \in {"propose", "approve", "reject", "retire"}, Go(d, x(phase, op, override))
      PROVE  /\ desk' \in [Desks -> RequestType \union {Idle}]
             /\ \A e \in Desks : desk'[e].phase = "audit" => desk'[e].event \in Events
             /\ desk'[d].phase = phase
             /\ \A e \in Desks : e # d => desk'[e] = desk[e]
  <2>1. x(phase, op, override) \in RequestType /\ x(phase, op, override).phase = phase
    BY DEF Request, RequestType, Phases
  <2> HIDE DEF x
  <2> QED
    BY <1>2, <2>1, GoType
<1>3. CASE propose_rule(d, r)
  <2>1. [status |-> "pending", expires |-> "unset"] \in BehavioralRule
    BY DEF BehavioralRule, Statuses
  <2>2. rule' \in [Rules -> BehavioralRule]
    BY <1>3, <2>1, RuleRow DEF propose_rule
  <2>3. Go(d, x("active", "propose", FALSE)) /\ UNCHANGED <<stored, trail, has_claims, overlapped, lost>>
    BY <1>3 DEF propose_rule
  <2> HIDE DEF x
  <2> QED
    BY <1>1, <1>2, <2>2, <2>3 DEF TypeOK, At
<1>4. ASSUME NEW phase \in {"active", "reject", "retire"}, NEW override \in BOOLEAN,
             NEW op \in {"propose", "approve", "reject", "retire"}, Go(d, x(phase, op, override)),
             UNCHANGED <<rule, stored, trail, has_claims, overlapped, lost>>
      PROVE  /\ TypeOK'
             /\ desk'[d].phase = phase
             /\ \A e \in Desks : e # d => desk'[e] = desk[e]
  <2> HIDE DEF x
  <2> QED
    BY <1>1, <1>2, <1>4 DEF TypeOK, At
<1> QED
  BY <1>3, <1>4 DEF reject_rule, retire_rule, approve_rule

-----------------------------------------------------------------------------
(* Conflicts and caps                                                      *)

\* An approval that goes on has found no hard conflict with the rules it read.
LEMMA NoHardConflict ==
    ASSUME NEW r \in Rules, NEW seen \in SUBSET Rules, NEW known,
           ~Hard(known \union detect_conflicts(r, seen))
    PROVE  /\ \A s \in seen : ~(triggers_overlap(r, s) /\ Contradicts(r, s))
           /\ Cardinality(SameDomain(r, seen)) < DomainCap
           /\ Cardinality(seen) < GlobalCap
<1>1. \A c \in detect_conflicts(r, seen) : c.type \notin {"direct", "cap"}
  BY DEF Hard
<1>2. ASSUME NEW s \in seen, triggers_overlap(r, s), Contradicts(r, s)
      PROVE  FALSE
  <2>1. [type |-> "direct", other |-> {s}] \in detect_conflicts(r, seen)
    BY <1>2 DEF detect_conflicts
  <2> QED
    BY <2>1, <1>1
<1>3. ~(\/ Cardinality(SameDomain(r, seen)) >= DomainCap
        \/ Cardinality(seen) >= GlobalCap)
  <2>1. SUFFICES ASSUME \/ Cardinality(SameDomain(r, seen)) >= DomainCap
                        \/ Cardinality(seen) >= GlobalCap
                 PROVE  FALSE
    OBVIOUS
  <2>2. [type |-> "cap", other |-> {}] \in detect_conflicts(r, seen)
    BY <2>1 DEF detect_conflicts
  <2> QED
    BY <2>2, <1>1
<1>4. Cardinality(SameDomain(r, seen)) \in Nat /\ Cardinality(seen) \in Nat
  BY FiniteRules DEF SameDomain
<1> QED
  BY <1>2, <1>3, <1>4, RulesAssumption

\* Steps that activate nothing and judge nothing keep what the requests know and
\* how the active rules agree.
LEMMA QuietStep ==
    ASSUME RulesInv, Active' \subseteq Active, overlapped \subseteq overlapped',
           \A e \in Desks : desk'[e] = desk[e] \/ desk'[e].phase \notin {"store", "update"}
    PROVE  /\ \A d \in Desks : OverlapsNoted(d)' /\ Passed(d)'
           /\ ActiveAgree' /\ CapsOfAllSubsets'
<1>1. ASSUME NEW d \in Desks PROVE OverlapsNoted(d)' /\ Passed(d)'
  <2>1. CASE desk'[d] = desk[d]
    <3>1. OverlapsNoted(d)'
      BY <2>1 DEF RulesInv, OverlapsNoted, Judging
    <3>2. Passed(d)'
      BY <2>1 DEF RulesInv, Passed, At
    <3> QED
      BY <3>1, <3>2
  <2>2. CASE desk'[d].phase \notin {"store", "update"}
    BY <2>2 DEF OverlapsNoted, Judging, Passed, At
  <2> QED
    BY <2>1, <2>2
<1>2. ActiveAgree'
  BY DEF RulesInv, ActiveAgree
<1>3. CapsOfAllSubsets'
  <2> SUFFICES ASSUME NEW S \in SUBSET Active'
               PROVE  \/ Excused(S)'
                      \/ Cardinality(S) <= GlobalCap /\ (OneDomain(S) => Cardinality(S) <= DomainCap)
    BY DEF CapsOfAllSubsets, OneDomain
  <2>1. S \in SUBSET Active
    OBVIOUS
  <2> QED
    BY <2>1 DEF RulesInv, CapsOfAllSubsets, Excused
<1> QED
  BY <1>1, <1>2, <1>3

\* An activation after a judgement: whatever it did not see overlapped with it.
LEMMA ActivateStep ==
    ASSUME RulesInv, NEW d \in Desks, Activate(d)
    PROVE  /\ \A e \in Desks : OverlapsNoted(e)' /\ Passed(e)'
           /\ ActiveAgree' /\ CapsOfAllSubsets'
<1> DEFINE r == desk[d].rule
           seen == desk[d].seen
<1>1. /\ At(d, "update") /\ Busy(d) /\ desk[d] \in RequestType
      /\ r \in Rules /\ seen \in SUBSET Rules
  <2>1. At(d, "update") /\ Busy(d)
    BY DEF Activate, At, Busy
  <2>2. desk[d] \in RequestType
    BY <2>1, BusyDesk DEF RulesInv
  <2> QED
    BY <2>1, <2>2 DEF RequestType
<1>2. /\ desk[d].op = "approve"
      /\ \A s \in seen : ~(triggers_overlap(r, s) /\ Contradicts(r, s))
      /\ Cardinality(SameDomain(r, seen)) < DomainCap
      /\ Cardinality(seen) < GlobalCap
  BY <1>1 DEF RulesInv, Passed
<1>3. \A s \in Active \ (seen \union {r}) : {r, s} \in overlapped
  BY <1>1, <1>2 DEF RulesInv, OverlapsNoted, Judging, At
<1>4. Active' = Active \union {r}
  BY <1>1 DEF Activate, Active, RulesInv, TypeOK
<1>5. overlapped' = overlapped \union {{r, s} : s \in Unseen(d)}
  BY DEF Activate
<1>6. /\ desk'[d].phase = "audit"
      /\ \A e \in Desks : e # d => desk'[e] = desk[e]
  BY <1>1, AuditType DEF Activate, RulesInv, Events, Decisions
<1>7. ASSUME NEW e \in Desks, e # d PROVE OverlapsNoted(e)' /\ Passed(e)'
  <2>1. Passed(e)'
    BY <1>6, <1>7 DEF RulesInv, Passed, At
  <2>2. ASSUME Judging(e), r \notin desk[e].seen
        PROVE  {desk[e].rule, r} \in overlapped'
    <3>1. desk[e].rule \in Unseen(d)
      BY <1>7, <2>2 DEF Unseen, Judging
    <3> QED
      BY <3>1, <1>5
  <2> HIDE DEF r, seen
  <2>3. OverlapsNoted(e)'
    BY <1>4, <1>5, <1>6, <1>7, <2>2 DEF RulesInv, OverlapsNoted, Judging
  <2> QED
    BY <2>1, <2>3
<1>8. OverlapsNoted(d)' /\ Passed(d)'
  BY <1>6 DEF OverlapsNoted, Judging, Passed, At
<1> HIDE DEF r, seen
<1>9. ActiveAgree'
  <2> SUFFICES ASSUME NEW a \in Active', NEW b \in Active', triggers_overlap(a, b), Contradicts(a, b)
               PROVE  {a, b} \in overlapped'
    BY DEF ActiveAgree, triggers_overlap, Contradicts
  <2>1. a # b
    BY DEF Contradicts
  <2>2. triggers_overlap(b, a) /\ Contradicts(b, a)
    BY DEF triggers_overlap, Contradicts
  <2>3. CASE a \in Active /\ b \in Active
    BY <2>3, <1>5 DEF RulesInv, ActiveAgree
  <2>4. CASE a = r /\ b \in Active
    BY <2>1, <2>4, <1>2, <1>3, <1>5
  <2>5. CASE b = r /\ a \in Active
    <3>1. {r, a} \in overlapped'
      BY <2>1, <2>2, <2>5, <1>2, <1>3, <1>5
    <3>2. {a, b} = {r, a}
      BY <2>5
    <3> QED
      BY <3>1, <3>2
  <2> QED
    BY <2>1, <2>3, <2>4, <2>5, <1>4
<1>10. CapsOfAllSubsets'
  <2> SUFFICES ASSUME NEW S \in SUBSET Active'
               PROVE  \/ Excused(S)'
                      \/ Cardinality(S) <= GlobalCap /\ (OneDomain(S) => Cardinality(S) <= DomainCap)
    BY DEF CapsOfAllSubsets, OneDomain
  <2>1. CASE r \notin S
    <3>1. S \in SUBSET Active
      BY <2>1, <1>4
    <3> QED
      BY <3>1, <1>5 DEF RulesInv, CapsOfAllSubsets, Excused
  <2>2. CASE r \in S /\ ~(S \ {r} \subseteq seen)
    <3>1. PICK s \in S : s # r /\ s \notin seen
      BY <2>2
    <3>2. {r, s} \in overlapped'
      BY <3>1, <1>3, <1>4, <1>5
    <3> QED
      BY <2>2, <3>1, <3>2 DEF Excused
  <2>3. CASE r \in S /\ S \ {r} \subseteq seen
    <3>1. S \in SUBSET Rules /\ S \ {r} \in SUBSET Rules /\ SameDomain(r, seen) \in SUBSET Rules
      BY <1>1, <1>4 DEF Active, SameDomain
    <3>2. Cardinality(S) = Cardinality(S \ {r}) + 1
      <4>1. IsFiniteSet(S)
        BY <3>1, FiniteRules
      <4>2. Cardinality(S \ {r}) = IF r \in S THEN Cardinality(S) - 1 ELSE Cardinality(S)
        BY <4>1, FS_RemoveElement
      <4>3. Cardinality(S) \in Nat
        BY <3>1, FiniteRules
      <4> QED
        BY <2>3, <4>2, <4>3
    <3>3. Cardinality(S \ {r}) <= Cardinality(seen)
      BY <2>3, <1>1, FiniteRules, FS_Subset
    <3>4. OneDomain(S) => Cardinality(S \ {r}) <= Cardinality(SameDomain(r, seen))
      <4>1. OneDomain(S) => S \ {r} \in SUBSET SameDomain(r, seen)
        BY <2>3 DEF OneDomain, SameDomain
      <4> QED
        BY <3>1, <4>1, FiniteRules, FS_Subset
    <3>5. /\ Cardinality(S \ {r}) \in Nat /\ Cardinality(seen) \in Nat
          /\ Cardinality(SameDomain(r, seen)) \in Nat
      BY <3>1, <1>1, FiniteRules
    <3> QED
      BY <3>2, <3>3, <3>4, <3>5, <1>2, RulesAssumption
  <2> QED
    BY <2>1, <2>2, <2>3
<1> QED
  BY <1>7, <1>8, <1>9, <1>10

LEMMA SelectActiveStep ==
    ASSUME RulesInv, NEW d \in Desks, SelectActive(d)
    PROVE  /\ TypeOK'
           /\ \A e \in Desks : OverlapsNoted(e)' /\ Passed(e)'
           /\ ActiveAgree' /\ CapsOfAllSubsets'
           /\ \A e \in Desks : At(e, "audit") => desk'[e] = desk[e]
<1> DEFINE x == [desk[d] EXCEPT !.phase = "store", !.seen = Active \ {desk[d].rule}]
<1>1. desk[d] \in RequestType
  BY BusyDesk DEF RulesInv, SelectActive, At, Busy
<1>2. /\ x \in RequestType /\ x.phase = "store" /\ x.op = desk[d].op
      /\ x.rule = desk[d].rule /\ x.seen = Active \ {desk[d].rule}
  BY <1>1 DEF RequestType, Phases, Active
<1>3. /\ Go(d, x)
      /\ UNCHANGED <<rule, stored, trail, requests, has_claims, overlapped, lost>>
  BY DEF SelectActive
<1> HIDE DEF x
<1>4. /\ desk' \in [Desks -> RequestType \union {Idle}]
      /\ \A e \in Desks : desk'[e].phase = "audit" => desk'[e].event \in Events
      /\ desk'[d] = x
      /\ \A e \in Desks : e # d => desk'[e] = desk[e]
  BY <1>2, <1>3, GoType DEF RulesInv
<1>5. TypeOK'
  BY <1>3, <1>4 DEF RulesInv, TypeOK, At
<1>6. Active' = Active
  BY <1>3 DEF Active
<1>7. ASSUME NEW e \in Desks PROVE OverlapsNoted(e)' /\ Passed(e)'
  <2>1. CASE e = d
    BY <2>1, <1>2, <1>4, <1>6 DEF OverlapsNoted, Judging, Passed, At
  <2>2. CASE e # d
    BY <2>2, <1>3, <1>4, <1>6 DEF RulesInv, OverlapsNoted, Judging, Passed, At
  <2> QED
    BY <2>1, <2>2
<1>8. ActiveAgree' /\ CapsOfAllSubsets'
  BY <1>3, <1>6 DEF RulesInv, ActiveAgree, CapsOfAllSubsets, Excused, OneDomain
<1>9. \A e \in Desks : At(e, "audit") => desk'[e] = desk[e]
  BY <1>4 DEF SelectActive, At
<1> QED
  BY <1>5, <1>7, <1>8, <1>9

LEMMA StoreConflictsStep ==
    ASSUME RulesInv, NEW d \in Desks, StoreConflicts(d)
    PROVE  /\ TypeOK'
           /\ \A e \in Desks : OverlapsNoted(e)' /\ Passed(e)'
           /\ ActiveAgree' /\ CapsOfAllSubsets'
           /\ \A e \in Desks : At(e, "audit") => desk'[e] = desk[e]
<1> DEFINE r == desk[d].rule
           seen == desk[d].seen
           conflicts == stored[r] \union detect_conflicts(r, seen)
           next == [desk[d] EXCEPT !.phase = "update"]
<1>1. /\ desk[d] \in RequestType /\ r \in Rules /\ seen \in SUBSET Rules
      /\ Busy(d) /\ At(d, "store") /\ d \in Desks
  <2>1. At(d, "store") /\ Busy(d)
    BY DEF StoreConflicts, At, Busy
  <2> QED
    BY <2>1, BusyDesk DEF RulesInv, RequestType
<1>2. UNCHANGED <<rule, trail, requests, has_claims, overlapped, lost>>
  BY DEF StoreConflicts
<1>3. stored' \in [Rules -> SUBSET BehavioralRuleConflict]
  <2>1. stored' = [stored EXCEPT ![r] = conflicts]
    BY DEF StoreConflicts
  <2> HIDE DEF r, seen
  <2>2. conflicts \in SUBSET BehavioralRuleConflict
    BY <1>1, ConflictsType DEF RulesInv, TypeOK
  <2> HIDE DEF conflicts
  <2> QED
    BY <2>1, <2>2 DEF RulesInv, TypeOK
<1>4. \/ Audit(d, "action_executed") \/ Audit(d, "action_blocked") \/ End(d)
      \/ desk[d].op = "approve" /\ ~Hard(conflicts) /\ Go(d, next)
  BY DEF StoreConflicts
<1>5. Active' = Active
  BY <1>2 DEF Active
<1>6. CASE \/ Audit(d, "action_executed") \/ Audit(d, "action_blocked") \/ End(d)
  <2>1. /\ desk' \in [Desks -> RequestType \union {Idle}]
        /\ \A e \in Desks : desk'[e].phase = "audit" => desk'[e].event \in Events
        /\ desk'[d].phase \in {"audit", "idle"}
        /\ \A e \in Desks : e # d => desk'[e] = desk[e]
    <3>1. CASE Audit(d, "action_executed") \/ Audit(d, "action_blocked")
      BY <3>1, <1>1, AuditType DEF RulesInv, Events
    <3>2. CASE End(d)
      <4>1. Idle.phase = "idle"
        BY DEF Idle
      <4> QED
        BY <3>2, <4>1, GoType DEF End, RulesInv
    <3> QED
      BY <1>6, <3>1, <3>2
  <2>2. TypeOK'
    BY <1>2, <1>3, <2>1 DEF RulesInv, TypeOK, At
  <2>3. \A e \in Desks : desk'[e] = desk[e] \/ desk'[e].phase \notin {"store", "update"}
    BY <2>1
  <2>4. \A e \in Desks : At(e, "audit") => desk'[e] = desk[e]
    BY <1>1, <2>1 DEF At
  <2> QED
    BY <1>2, <1>5, <2>2, <2>3, <2>4, QuietStep
<1>7. CASE desk[d].op = "approve" /\ ~Hard(conflicts) /\ Go(d, next)
  <2>1. /\ next \in RequestType /\ next.phase = "update" /\ next.op = "approve"
        /\ next.rule = r /\ next.seen = seen
    BY <1>1, <1>7 DEF RequestType, Phases
  <2>2. /\ \A s \in seen : ~(triggers_overlap(r, s) /\ Contradicts(r, s))
        /\ Cardinality(SameDomain(r, seen)) < DomainCap
        /\ Cardinality(seen) < GlobalCap
    BY <1>1, <1>7, NoHardConflict
  <2>3. \A s \in Active \ (seen \union {r}) : {r, s} \in overlapped
    BY <1>1, <1>7 DEF RulesInv, OverlapsNoted, Judging, At
  <2> HIDE DEF r, seen, next
  <2>4. /\ desk' \in [Desks -> RequestType \union {Idle}]
        /\ \A e \in Desks : desk'[e].phase = "audit" => desk'[e].event \in Events
        /\ desk'[d] = next
        /\ \A e \in Desks : e # d => desk'[e] = desk[e]
    BY <1>7, <2>1, GoType DEF RulesInv
  <2>5. TypeOK'
    BY <1>2, <1>3, <2>4 DEF RulesInv, TypeOK, At
  <2>6. ASSUME NEW e \in Desks PROVE OverlapsNoted(e)' /\ Passed(e)'
    <3>1. CASE e = d
      BY <3>1, <1>2, <1>5, <2>1, <2>2, <2>3, <2>4
         DEF OverlapsNoted, Judging, Passed, At, SameDomain, triggers_overlap, Contradicts
    <3>2. CASE e # d
      BY <3>2, <1>2, <1>5, <2>4
         DEF RulesInv, OverlapsNoted, Judging, Passed, At, SameDomain, triggers_overlap, Contradicts
    <3> QED
      BY <3>1, <3>2
  <2>7. ActiveAgree' /\ CapsOfAllSubsets'
    BY <1>2, <1>5 DEF RulesInv, ActiveAgree, CapsOfAllSubsets, Excused, OneDomain
  <2>8. \A e \in Desks : At(e, "audit") => desk'[e] = desk[e]
    BY <1>1, <2>4 DEF At
  <2> QED
    BY <2>5, <2>6, <2>7, <2>8
<1> QED
  BY <1>4, <1>6, <1>7

-----------------------------------------------------------------------------
(* The audit entries of decisions                                          *)

\* r has been decided as `outcome`, and that is on record or about to be.
Accounted(r, outcome) ==
    \/ EntryOf[outcome] \in trail[r]
    \/ \E d \in Desks : desk[d].phase = "audit" /\ desk[d].rule = r
                        /\ desk[d].event = EntryOf[outcome]
    \/ r \in lost

\* A decision stays accounted for while nothing is struck off the trail and no
\* audit entry is dropped.
LEMMA StaysAccounted ==
    ASSUME DecisionsAudited,
           \A r \in Rules : trail[r] \subseteq trail'[r],
           lost \subseteq lost',
           \A e \in Desks : At(e, "audit") => desk'[e] = desk[e],
           \A r \in Rules, outcome \in DOMAIN EntryOf :
             rule'[r].status = outcome => rule[r].status = outcome \/ Accounted(r, outcome)'
    PROVE  DecisionsAudited'
<1> SUFFICES ASSUME NEW r \in Rules, NEW outcome \in DOMAIN EntryOf, rule'[r].status = outcome
             PROVE  Accounted(r, outcome)'
  BY DEF DecisionsAudited, Accounted, EntryOf
<1>1. CASE Accounted(r, outcome)
  <2>1. CASE EntryOf[outcome] \in trail[r]
    BY <2>1 DEF Accounted, EntryOf
  <2>2. CASE \E d \in Desks : desk[d].phase = "audit" /\ desk[d].rule = r
                              /\ desk[d].event = EntryOf[outcome]
    BY <2>2 DEF Accounted, At, EntryOf
  <2>3. CASE r \in lost
    BY <2>3 DEF Accounted
  <2> QED
    BY <1>1, <2>1, <2>2, <2>3 DEF Accounted
<1>2. CASE ~Accounted(r, outcome)
  BY <1>2 DEF DecisionsAudited, Accounted
<1> QED
  BY <1>1, <1>2

LEMMA AboutToRecord ==
    ASSUME NEW d \in Desks, NEW r \in Rules, NEW outcome \in DOMAIN EntryOf,
           desk'[d].phase = "audit" /\ desk'[d].rule = r /\ desk'[d].event = EntryOf[outcome]
    PROVE  Accounted(r, outcome)'
BY DEF Accounted, EntryOf

\* A desk writes a decision into the row of its rule and turns to the entry.
LEMMA DecideStep ==
    ASSUME RulesInv, NEW d \in Desks, Busy(d), ~At(d, "audit"), NEW outcome \in DOMAIN EntryOf,
           NEW row \in BehavioralRule, row.status = outcome,
           rule' = [rule EXCEPT ![desk[d].rule] = row],
           Audit(d, EntryOf[outcome]),
           overlapped' \subseteq SUBSET Rules,
           UNCHANGED <<stored, trail, requests, has_claims, lost>>
    PROVE  TypeOK' /\ DecisionsAudited'
<1> DEFINE r == desk[d].rule
<1>1. r \in Rules
  BY BusyDesk DEF RulesInv, RequestType
<1>2. EntryOf[outcome] \in Events /\ EntryOf[outcome] \in Decisions
  BY DEF EntryOf, Events, Decisions
<1>3. /\ desk' \in [Desks -> RequestType \union {Idle}]
      /\ \A e \in Desks : desk'[e].phase = "audit" => desk'[e].event \in Events
      /\ desk'[d].phase = "audit" /\ desk'[d].event = EntryOf[outcome]
      /\ desk'[d].rule = r
      /\ \A e \in Desks : e # d => desk'[e] = desk[e]
  BY <1>2, AuditType DEF RulesInv
<1> HIDE DEF r
<1>4. rule' = [rule EXCEPT ![r] = row] /\ rule' \in [Rules -> BehavioralRule]
  BY <1>1, RuleRow DEF r, RulesInv
<1>5. TypeOK'
  BY <1>3, <1>4 DEF RulesInv, TypeOK, At
<1>6. ASSUME NEW q \in Rules, NEW other \in DOMAIN EntryOf, rule'[q].status = other
      PROVE  rule[q].status = other \/ Accounted(q, other)'
  <2>1. CASE q = r
    <3>1. other = outcome
      BY <1>1, <1>4, <1>6, <2>1 DEF RulesInv, TypeOK
    <3>2. desk'[d].phase = "audit" /\ desk'[d].rule = q /\ desk'[d].event = EntryOf[other]
      BY <1>3, <2>1, <3>1
    <3> QED
      BY <3>2, AboutToRecord
  <2>2. CASE q # r
    <3>1. rule'[q] = rule[q]
      BY <1>4, <2>2 DEF RulesInv, TypeOK
    <3> QED
      BY <3>1, <1>6
  <2> QED
    BY <2>1, <2>2
<1>7. \A q \in Rules, other \in DOMAIN EntryOf :
        rule'[q].status = other => rule[q].status = other \/ Accounted(q, other)'
  BY <1>6
<1>8. DecisionsAudited'
  BY <1>3, <1>7, StaysAccounted DEF RulesInv, At
<1> QED
  BY <1>5, <1>8

LEMMA ServeStep ==
    ASSUME RulesInv, NEW d \in Desks, Serve(d)
    PROVE  RulesInv'
<1>1. CASE SelectActive(d)
  <2>1. DecisionsAudited'
    BY <1>1, SelectActiveStep, StaysAccounted DEF SelectActive, RulesInv
  <2> QED
    BY <1>1, <2>1, SelectActiveStep DEF RulesInv
<1>2. CASE StoreConflicts(d)
  <2>1. DecisionsAudited'
    BY <1>2, StoreConflictsStep, StaysAccounted DEF StoreConflicts, RulesInv
  <2> QED
    BY <1>2, <2>1, StoreConflictsStep DEF RulesInv
<1>3. CASE Activate(d)
  <2> DEFINE row == [status |-> "active", expires |-> "ahead"]
  <2>1. row \in BehavioralRule /\ row.status = "active" /\ "active" \in DOMAIN EntryOf
        /\ EntryOf["active"] = "memory_confirmed"
    BY DEF BehavioralRule, Statuses, EntryOf
  <2>2. Busy(d) /\ ~At(d, "audit") /\ desk[d] \in RequestType
    BY <1>3, BusyDesk DEF Activate, At, Busy, RulesInv
  <2>3. overlapped' \subseteq SUBSET Rules
    <3>1. Unseen(d) \subseteq Rules
      BY BusyDesk DEF Unseen, RulesInv, Busy, At, RequestType
    <3> QED
      BY <1>3, <2>2, <3>1 DEF Activate, RulesInv, TypeOK, RequestType
  <2>4. TypeOK' /\ DecisionsAudited'
    BY <1>3, <2>1, <2>2, <2>3, DecideStep DEF Activate
  <2> QED
    BY <1>3, <2>4, ActivateStep DEF RulesInv
<1>4. CASE Reject(d)
  <2> DEFINE row == [rule[desk[d].rule] EXCEPT !.status = "rejected"]
  <2>1. Busy(d) /\ ~At(d, "audit") /\ desk[d].rule \in Rules
    BY <1>4, BusyDesk DEF Reject, At, Busy, RulesInv, RequestType
  <2>2. row \in BehavioralRule /\ row.status = "rejected" /\ "rejected" \in DOMAIN EntryOf
        /\ EntryOf["rejected"] = "memory_rejected"
    BY <2>1 DEF BehavioralRule, Statuses, EntryOf, RulesInv, TypeOK
  <2>3. rule' = [rule EXCEPT ![desk[d].rule] = row]
    BY <1>4 DEF Reject
  <2>4. /\ Audit(d, "memory_rejected")
        /\ UNCHANGED <<stored, trail, requests, has_claims, overlapped, lost>>
    BY <1>4 DEF Reject
  <2> HIDE DEF row
  <2>5. TypeOK' /\ DecisionsAudited'
    BY <2>1, <2>2, <2>3, <2>4, DecideStep DEF RulesInv, TypeOK
  <2>6. Active' \subseteq Active
    BY <2>1, <2>2, <2>3 DEF Active, RulesInv, TypeOK
  <2>7. \A e \in Desks : desk'[e] = desk[e] \/ desk'[e].phase \notin {"store", "update"}
    BY <2>1, <2>4, AuditType DEF RulesInv, Events, Decisions
  <2> QED
    BY <2>4, <2>5, <2>6, <2>7, QuietStep DEF RulesInv
<1>5. CASE Retire(d)
  <2> DEFINE r == desk[d].rule
             row == [rule[r] EXCEPT !.status = "retired"]
  <2>1. r \in Rules
    BY <1>5, BusyDesk DEF Retire, At, Busy, RulesInv, RequestType
  <2>2. row \in BehavioralRule /\ row.status = "retired"
    BY <2>1 DEF BehavioralRule, Statuses, RulesInv, TypeOK
  <2>3. rule' = [rule EXCEPT ![r] = row]
    BY <1>5 DEF Retire
  <2>4. /\ Record(r, "memory_retracted") /\ End(d) /\ At(d, "retire")
        /\ UNCHANGED <<stored, requests, has_claims, overlapped, lost>>
    BY <1>5 DEF Retire
  <2> HIDE DEF row, r
  <2>5. /\ desk' \in [Desks -> RequestType \union {Idle}]
        /\ \A e \in Desks : desk'[e].phase = "audit" => desk'[e].event \in Events
        /\ desk'[d].phase = "idle"
        /\ \A e \in Desks : e # d => desk'[e] = desk[e]
    <3>1. Idle.phase = "idle"
      BY DEF Idle
    <3> QED
      BY <2>4, <3>1, GoType DEF End, RulesInv
  <2>6. /\ trail' \in [Rules -> SUBSET Decisions]
        /\ \A q \in Rules : trail[q] \subseteq trail'[q]
        /\ "memory_retracted" \in trail'[r]
    BY <2>1, <2>4, TrailType DEF RulesInv, Decisions
  <2>7. rule' \in [Rules -> BehavioralRule]
    BY <2>1, <2>2, <2>3, RuleRow DEF RulesInv
  <2>8. TypeOK'
    BY <2>4, <2>5, <2>6, <2>7 DEF RulesInv, TypeOK, At
  <2>9. Active' \subseteq Active
    BY <2>1, <2>2, <2>3 DEF Active, RulesInv, TypeOK
  <2>10. \A q \in Rules, outcome \in DOMAIN EntryOf :
           rule'[q].status = outcome => rule[q].status = outcome \/ Accounted(q, outcome)'
    BY <2>1, <2>2, <2>3, <2>6 DEF RulesInv, TypeOK, Accounted, EntryOf
  <2>11. DecisionsAudited'
    BY <2>4, <2>5, <2>6, <2>10, StaysAccounted DEF RulesInv, At
  <2> QED
    BY <2>4, <2>5, <2>8, <2>9, <2>11, QuietStep DEF RulesInv
<1>6. CASE WriteAudit(d)
  <2> DEFINE r == desk[d].rule
  <2>1. desk[d] \in RequestType /\ r \in Rules
    BY <1>6, BusyDesk DEF WriteAudit, At, Busy, RulesInv, RequestType
  <2>2. /\ Record(r, desk[d].event) /\ End(d) /\ At(d, "audit")
        /\ UNCHANGED <<rule, stored, requests, has_claims, overlapped, lost>>
    BY <1>6 DEF WriteAudit
  <2>3. /\ desk' \in [Desks -> RequestType \union {Idle}]
        /\ \A e \in Desks : desk'[e].phase = "audit" => desk'[e].event \in Events
        /\ desk'[d].phase = "idle"
        /\ \A e \in Desks : e # d => desk'[e] = desk[e]
    <3>1. Idle.phase = "idle"
      BY DEF Idle
    <3> QED
      BY <2>2, <3>1, GoType DEF End, RulesInv
  <2>4. /\ trail' \in [Rules -> SUBSET Decisions]
        /\ \A q \in Rules : trail[q] \subseteq trail'[q]
        /\ desk[d].event \in Decisions => desk[d].event \in trail'[r]
    BY <2>1, <2>2, TrailType DEF RulesInv
  <2>5. TypeOK'
    BY <2>2, <2>3, <2>4 DEF RulesInv, TypeOK, At
  <2>6. DecisionsAudited'
    <3> SUFFICES ASSUME NEW q \in Rules, NEW outcome \in DOMAIN EntryOf, rule'[q].status = outcome
                 PROVE  Accounted(q, outcome)'
      BY DEF DecisionsAudited, Accounted, EntryOf
    <3>1. EntryOf[outcome] \in Decisions
      BY DEF EntryOf, Decisions
    <3>2. Accounted(q, outcome)
      BY <2>2 DEF RulesInv, DecisionsAudited, Accounted
    <3>3. CASE desk[d].rule = q /\ desk[d].event = EntryOf[outcome]
      BY <3>1, <3>3, <2>4 DEF Accounted, EntryOf
    <3>4. CASE ~(desk[d].rule = q /\ desk[d].event = EntryOf[outcome])
      BY <3>2, <3>4, <2>2, <2>3, <2>4 DEF Accounted, EntryOf
    <3> QED
      BY <3>3, <3>4
  <2>7. Active' = Active
    BY <2>2 DEF Active
  <2> QED
    BY <2>2, <2>3, <2>5, <2>6, <2>7, QuietStep DEF RulesInv
<1> QED
  BY <1>1, <1>2, <1>3, <1>4, <1>5, <1>6 DEF Serve

-----------------------------------------------------------------------------
(* Requests, time and the nightly job                                      *)

LEMMA RequestStep ==
    ASSUME RulesInv, NEW d \in Desks, NEW r \in Rules, NEW override_soft \in BOOLEAN,
           \/ propose_rule(d, r) \/ reject_rule(d, r) \/ retire_rule(d, r)
           \/ approve_rule(d, r, override_soft)
    PROVE  RulesInv'
<1>1. /\ TypeOK'
      /\ desk'[d].phase \in {"active", "reject", "retire"}
      /\ \A e \in Desks : e # d => desk'[e] = desk[e]
  BY RequestStepType DEF RulesInv
<1>2. UNCHANGED <<trail, overlapped, lost>> /\ desk[d].phase = "idle"
  BY DEF propose_rule, reject_rule, retire_rule, approve_rule, Begin, Busy, At
<1>3. \A q \in Rules : rule'[q] = rule[q] \/ rule'[q].status = "pending"
  <2>1. CASE propose_rule(d, r)
    BY <2>1 DEF propose_rule, RulesInv, TypeOK
  <2>2. CASE rule' = rule
    BY <2>2
  <2> QED
    BY <2>1, <2>2 DEF reject_rule, retire_rule, approve_rule
<1>4. Active' \subseteq Active
  BY <1>3 DEF Active
<1>5. DecisionsAudited'
  <2>1. \A e \in Desks : At(e, "audit") => desk'[e] = desk[e]
    BY <1>1, <1>2 DEF At
  <2>2. \A q \in Rules, outcome \in DOMAIN EntryOf :
          rule'[q].status = outcome => rule[q].status = outcome
    BY <1>3 DEF EntryOf
  <2> QED
    BY <1>2, <2>1, <2>2, StaysAccounted DEF RulesInv
<1>6. \A e \in Desks : desk'[e] = desk[e] \/ desk'[e].phase \notin {"store", "update"}
  BY <1>1
<1> QED
  BY <1>1, <1>2, <1>4, <1>5, <1>6, QuietStep DEF RulesInv

LEMMA VanishStep ==
    ASSUME RulesInv, NEW d \in Desks, Vanish(d)
    PROVE  RulesInv'
<1>1. /\ Busy(d) /\ End(d)
      /\ lost' = IF At(d, "audit") THEN lost \union {desk[d].rule} ELSE lost
      /\ UNCHANGED <<rule, stored, trail, requests, has_claims, overlapped>>
  BY DEF Vanish
<1>2. desk[d].rule \in Rules
  BY <1>1, BusyDesk DEF RulesInv, RequestType
<1>3. /\ desk' \in [Desks -> RequestType \union {Idle}]
      /\ \A e \in Desks : desk'[e].phase = "audit" => desk'[e].event \in Events
      /\ desk'[d].phase = "idle"
      /\ \A e \in Desks : e # d => desk'[e] = desk[e]
  <2>1. Idle.phase = "idle"
    BY DEF Idle
  <2> QED
    BY <1>1, <2>1, GoType DEF End, RulesInv
<1>4. lost' \subseteq Rules
  BY <1>1, <1>2 DEF RulesInv, TypeOK
<1>5. TypeOK'
  BY <1>1, <1>3, <1>4 DEF RulesInv, TypeOK, At
<1>6. DecisionsAudited'
  <2> SUFFICES ASSUME NEW q \in Rules, NEW outcome \in DOMAIN EntryOf, rule'[q].status = outcome
               PROVE  Accounted(q, outcome)'
    BY DEF DecisionsAudited, Accounted, EntryOf
  <2>1. Accounted(q, outcome)
    BY <1>1 DEF RulesInv, DecisionsAudited, Accounted
  <2>2. CASE desk[d].rule = q /\ At(d, "audit")
    BY <2>2, <1>1 DEF Accounted
  <2>3. CASE ~(desk[d].rule = q /\ At(d, "audit"))
    BY <2>1, <2>3, <1>1, <1>3 DEF Accounted, EntryOf, At
  <2> QED
    BY <2>2, <2>3
<1>7. Active' = Active
  BY <1>1 DEF Active
<1>8. \A e \in Desks : desk'[e] = desk[e] \/ desk'[e].phase \notin {"store", "update"}
  BY <1>3
<1> QED
  BY <1>1, <1>5, <1>6, <1>7, <1>8, QuietStep DEF RulesInv

\* A step that leaves the desks alone and decides nothing: time, the nightly
\* job, the requests on the graph.
LEMMA BackgroundStep ==
    ASSUME RulesInv,
           rule' \in [Rules -> BehavioralRule],
           \A r \in Rules : rule'[r].status = rule[r].status \/ rule'[r].status = "pending",
           requests' \in 0 .. MaxRequests, has_claims' \in BOOLEAN,
           UNCHANGED <<stored, trail, desk, overlapped, lost>>
    PROVE  RulesInv'
<1>1. TypeOK'
  BY DEF RulesInv, TypeOK, At
<1>2. Active' \subseteq Active
  BY DEF Active
<1>3. \A q \in Rules, outcome \in DOMAIN EntryOf :
        rule'[q].status = outcome => rule[q].status = outcome
  BY DEF EntryOf
<1>4. DecisionsAudited'
  BY <1>3, StaysAccounted DEF RulesInv
<1> QED
  BY <1>1, <1>2, <1>4, QuietStep DEF RulesInv

LEMMA RuleStepKeeps ==
    ASSUME RulesInv, RuleStep
    PROVE  RulesInv'
<1>1. ASSUME NEW d \in Desks, NEW r \in Rules,
             \/ propose_rule(d, r) \/ reject_rule(d, r) \/ retire_rule(d, r)
      PROVE  RulesInv'
  BY <1>1, RequestStep
<1>2. ASSUME NEW d \in Desks, NEW r \in Rules, NEW override_soft \in BOOLEAN,
             approve_rule(d, r, override_soft)
      PROVE  RulesInv'
  BY <1>2, RequestStep
<1>3. ASSUME NEW d \in Desks, Serve(d) \/ Vanish(d)
      PROVE  RulesInv'
  BY <1>3, ServeStep, VanishStep
<1>4. ASSUME NEW r \in Rules, TtlEnds(r)
      PROVE  RulesInv'
  <2>1. rule' \in [Rules -> BehavioralRule]
        /\ \A q \in Rules : rule'[q].status = rule[q].status
    BY <1>4 DEF TtlEnds, RulesInv, TypeOK, BehavioralRule
  <2> QED
    BY <1>4, <2>1, BackgroundStep DEF TtlEnds, RulesInv, TypeOK
<1>5. CASE FirstClaim
  BY <1>5, BackgroundStep DEF FirstClaim, RulesInv, TypeOK
<1> QED
  BY <1>1, <1>2, <1>3, <1>4, <1>5 DEF RuleStep

LEMMA CleanupKeeps ==
    ASSUME RulesInv, cleanup_expired
    PROVE  RulesInv'
<1>1. rule' \in [Rules -> BehavioralRule]
      /\ \A r \in Rules : rule'[r].status = rule[r].status \/ rule'[r].status = "pending"
  BY DEF cleanup_expired, RulesInv, TypeOK, BehavioralRule, Statuses
<1> QED
  BY <1>1, BackgroundStep DEF cleanup_expired, RulesInv, TypeOK

-----------------------------------------------------------------------------
(* The graph                                                               *)

\* The rules and the number of requests under a step of the graph.
LEMMA GraphLeavesRules ==
    ASSUME RulesInv, BeginGraph \/ UNCHANGED requests, UNCHANGED ruleVars
    PROVE  RulesInv'
<1>1. requests' \in 0 .. MaxRequests
  BY RulesAssumption DEF BeginGraph, RulesInv, TypeOK
<1> QED
  BY <1>1, BackgroundStep DEF ruleVars, RulesInv, TypeOK

LEMMA MemoryStepKeepsRules ==
    ASSUME RulesInv, [MemoryNext]_memoryVars
    PROVE  RulesInv'
<1>1. CASE RulesOnly
  BY <1>1, RuleStepKeeps DEF RulesOnly
<1>2. CASE GraphRequests
  <2>1. (BeginGraph \/ UNCHANGED requests) /\ UNCHANGED ruleVars
    BY <1>2 DEF GraphRequests, upsert_entity, SelectEntity, add_relation, add_snippet
  <2> QED
    BY <2>1, GraphLeavesRules
<1>3. CASE GraphTtlEnds
  BY <1>3, GraphLeavesRules DEF GraphTtlEnds
<1>4. CASE cleanup
  <2>1. CASE cleanup_expired
    BY <2>1, CleanupKeeps
  <2>2. CASE UNCHANGED vars
    BY <2>2, GraphLeavesRules DEF vars, ruleVars
  <2> QED
    BY <1>4, <2>1, <2>2 DEF cleanup
<1>5. CASE UNCHANGED memoryVars
  BY <1>5, GraphLeavesRules DEF memoryVars, vars, ruleVars
<1> QED
  BY <1>1, <1>2, <1>3, <1>4, <1>5 DEF MemoryNext

LEMMA GraphStepKeepsKeys ==
    ASSUME GraphTypeOK, [MemoryNext]_memoryVars
    PROVE  GraphTypeOK'
<1>1. CASE UNCHANGED graphVars
  BY <1>1 DEF graphVars, GraphTypeOK, Connected, Exists
<1>2. ASSUME NEW c \in Clients, NEW n \in Names, SelectEntity(c, n)
      PROVE  GraphTypeOK'
  <2>1. Upsert(n, Exists(n)) \in [name : Names, found : BOOLEAN]
    BY DEF Upsert, Exists
  <2> QED
    BY <1>2, <2>1 DEF SelectEntity, GraphTypeOK, Connected, Exists
<1>3. ASSUME NEW c \in Clients, upsert_entity(c)
      PROVE  GraphTypeOK'
  <2>1. entities' \in [Names -> Expiry] /\ \A n \in Names : Exists(n) => Exists(n)'
    BY <1>3 DEF upsert_entity, GraphTypeOK, Expiry, EntityExpiry, Exists
  <2>2. client' \in [Clients -> [name : Names, found : BOOLEAN] \union {NoRequest}]
    BY <1>3 DEF upsert_entity, GraphTypeOK
  <2>3. ASSUME NEW e \in Edges, relations'[e] # "absent"
        PROVE  Connected(e)'
    <3>1. Connected(e) /\ e[1] \in Names /\ e[2] \in Names
      BY <1>3, <2>3, GraphAssumption DEF upsert_entity, GraphTypeOK
    <3> QED
      BY <2>1, <3>1 DEF Connected, Exists
  <2> QED
    BY <1>3, <2>1, <2>2, <2>3 DEF upsert_entity, GraphTypeOK
<1>4. ASSUME NEW e \in Edges, add_relation(e)
      PROVE  GraphTypeOK'
  BY <1>4 DEF add_relation, GraphTypeOK, Expiry, Connected, Exists
<1>5. ASSUME NEW s \in Snippets, add_snippet(s)
      PROVE  GraphTypeOK'
  BY <1>5 DEF add_snippet, GraphTypeOK, Expiry, Connected, Exists
<1>6. CASE GraphTtlEnds
  <2>1. ASSUME NEW n \in Names, Elapses(entities, n), entities' = Elapsed(entities, n),
               UNCHANGED <<relations, snippets, client>>
        PROVE  GraphTypeOK'
    <3>1. entities' \in [Names -> Expiry] /\ \A m \in Names : Exists(m) => Exists(m)'
      BY <2>1 DEF Elapses, Elapsed, GraphTypeOK, Expiry, Exists
    <3>2. ASSUME NEW e \in Edges, relations'[e] # "absent"
          PROVE  Connected(e)'
      <4>1. Connected(e) /\ e[1] \in Names /\ e[2] \in Names
        BY <2>1, <3>2, GraphAssumption DEF GraphTypeOK
      <4> QED
        BY <3>1, <4>1 DEF Connected, Exists
    <3> QED
      BY <2>1, <3>1, <3>2 DEF GraphTypeOK
  <2>2. ASSUME NEW e \in Edges, Elapses(relations, e), relations' = Elapsed(relations, e),
               UNCHANGED <<entities, snippets, client>>
        PROVE  GraphTypeOK'
    BY <2>2 DEF Elapses, Elapsed, GraphTypeOK, Expiry, Connected, Exists
  <2>3. ASSUME NEW s \in Snippets, Elapses(snippets, s), snippets' = Elapsed(snippets, s),
               UNCHANGED <<entities, relations, client>>
        PROVE  GraphTypeOK'
    BY <2>3 DEF Elapses, Elapsed, GraphTypeOK, Expiry, Connected, Exists
  <2> QED
    BY <1>6, <2>1, <2>2, <2>3 DEF GraphTtlEnds
<1>7. CASE cleanup
  <2>1. /\ entities' \in [Names -> Expiry]
        /\ relations' \in [Edges -> Expiry]
        /\ snippets' \in [Snippets -> Expiry]
    BY <1>7 DEF cleanup, _delete_expired, Without, Over, GraphTypeOK, Expiry
  <2>2. \A e \in Edges : relations'[e] # "absent" => Connected(e)'
    BY <1>7 DEF cleanup, _delete_expired
  <2> QED
    BY <1>7, <2>1, <2>2 DEF cleanup, GraphTypeOK
<1> QED
  BY <1>1, <1>2, <1>3, <1>4, <1>5, <1>6, <1>7
     DEF MemoryNext, RulesOnly, GraphRequests, memoryVars

-----------------------------------------------------------------------------
(* The theorems                                                            *)

LEMMA InitRules ==
    ASSUME GraphInit
    PROVE  RulesInv /\ GraphTypeOK
<1>1. Active = {}
  BY DEF GraphInit, Init, Active
<1>2. \A d \in Desks : desk[d].phase = "idle"
  BY DEF GraphInit, Init, Idle
<1>3. TypeOK
  <2>1. rule \in [Rules -> BehavioralRule]
    BY DEF GraphInit, Init, BehavioralRule, Statuses
  <2>2. requests \in 0 .. MaxRequests
    BY RulesAssumption DEF GraphInit, Init
  <2>3. /\ stored \in [Rules -> SUBSET BehavioralRuleConflict]
        /\ trail \in [Rules -> SUBSET Decisions]
        /\ desk \in [Desks -> RequestType \union {Idle}]
        /\ has_claims \in BOOLEAN /\ overlapped \subseteq SUBSET Rules /\ lost \subseteq Rules
    BY DEF GraphInit, Init
  <2> QED
    BY <1>2, <2>1, <2>2, <2>3 DEF TypeOK, At
<1>4. \A d \in Desks : OverlapsNoted(d) /\ Passed(d)
  BY <1>2 DEF OverlapsNoted, Judging, Passed, At
<1>5. ActiveAgree
  BY <1>1 DEF ActiveAgree
<1>6. CapsOfAllSubsets
  <2> SUFFICES ASSUME NEW S \in SUBSET Active
               PROVE  Cardinality(S) <= GlobalCap /\ Cardinality(S) <= DomainCap
    BY DEF CapsOfAllSubsets
  <2>1. S = {}
    BY <1>1
  <2> QED
    BY <2>1, FS_EmptySet, RulesAssumption
<1>7. DecisionsAudited
  BY DEF GraphInit, Init, DecisionsAudited, EntryOf
<1>8. GraphTypeOK
  BY GraphAssumption DEF GraphInit, GraphTypeOK, Expiry
<1> QED
  BY <1>3, <1>4, <1>5, <1>6, <1>7, <1>8 DEF RulesInv

\* What the invariant says of the rules that are active and not expired.
LEMMA RulesInvAgree ==
    ASSUME RulesInv
    PROVE  ActiveRulesAgree
<1>1. RuleCaps
  <2>1. ASSUME NEW r \in Rules, Cardinality(SameDomain(r, Active)) > DomainCap
        PROVE  Excused(SameDomain(r, Active))
    <3> DEFINE S == SameDomain(r, Active)
    <3>1. S \in SUBSET Active /\ S \in SUBSET Rules /\ OneDomain(S)
      BY DEF SameDomain, OneDomain, Active
    <3>2. Cardinality(S) \in Nat
      BY <3>1, FiniteRules
    <3> HIDE DEF S
    <3>3. Excused(S) \/ Cardinality(S) <= DomainCap
      BY <3>1 DEF RulesInv, CapsOfAllSubsets
    <3> QED
      BY <2>1, <3>2, <3>3, RulesAssumption DEF S
  <2>2. ASSUME Cardinality(Active) > GlobalCap
        PROVE  Excused(Active)
    <3>1. Cardinality(Active) \in Nat
      BY FiniteRules DEF Active
    <3>2. Excused(Active) \/ Cardinality(Active) <= GlobalCap
      BY DEF RulesInv, CapsOfAllSubsets
    <3> QED
      BY <2>2, <3>1, <3>2, RulesAssumption
  <2> QED
    BY <2>1, <2>2 DEF RuleCaps, Excused
<1>2. NoContradictingAdvice
  <2> SUFFICES ASSUME NEW r \in Rules, NEW term \in content[r].terms,
                      NEW s \in _load_triggered_rules({term}),
                      r \in Active, Contradicts(r, s)
               PROVE  {r, s} \in overlapped
    BY DEF NoContradictingAdvice
  <2>1. s \in Active /\ triggers_overlap(r, s)
    BY DEF _load_triggered_rules, is_triggered, triggers_overlap
  <2> QED
    BY <2>1 DEF RulesInv, ActiveAgree
<1> QED
  BY <1>1, <1>2 DEF RulesInv, ActiveRulesAgree

LEMMA MemoryInvariant == MemorySpec => [](RulesInv /\ GraphTypeOK)
<1>1. GraphInit => RulesInv /\ GraphTypeOK
  BY InitRules
<1>2. RulesInv /\ GraphTypeOK /\ [MemoryNext]_memoryVars => (RulesInv /\ GraphTypeOK)'
  BY MemoryStepKeepsRules, GraphStepKeepsKeys
<1> QED
  BY <1>1, <1>2, PTL DEF MemorySpec

\* However approvals, rejections, retirements, expiry and the nightly job
\* interleave, the active rules pass no cap and no prompt holds two rules that
\* contradict each other, but for approvals that overlapped; and every relation
\* of the graph keeps both of its entities (memory/rules.py, memory/graph.py).
THEOREM RulesAndGraphAreSound == MemorySpec => []MemoryIsSound
<1>1. RulesInv /\ GraphTypeOK => MemoryIsSound
  BY RulesInvAgree DEF MemoryIsSound
<1> QED
  BY <1>1, MemoryInvariant, PTL

\* Every decision about a rule has its audit entry, is about to write it, or
\* its request was cut off between the two commits (memory/rules.py).
THEOREM DecisionsLeaveAnEntry == MemorySpec => []DecisionsAudited
<1>1. RulesInv => DecisionsAudited
  BY DEF RulesInv
<1> QED
  BY <1>1, MemoryInvariant, PTL
=============================================================================
