------------------------- MODULE TurnServingProofs -------------------------
(***************************************************************************)
(* Proofs about what a turn shows to a provider and how it is served, for  *)
(* every number of requests and rows, every set of keys, limits, budgets   *)
(* and inputs.                                                             *)
(*                                                                         *)
(* TurnServing: what must stay on the machine stays there over every       *)
(* fallback, a streamed answer has one author, and breaker and daily       *)
(* limits let no more pass than there are requests at once.                *)
(*                                                                         *)
(* PromptAssembly: the context fits, withholds what is private, guesses    *)
(* nobody, and selections under a budget keep it and waste none of it.     *)
(***************************************************************************)
EXTENDS TurnServing, PromptAssembly, TLAPS, FiniteSetTheorems, WellFoundedInduction

-----------------------------------------------------------------------------
(* TurnServing: the inductive invariant                                    *)

Providers == Cloud \union Local

Breaker == [count : Nat, ttl : BOOLEAN, tripped : BOOLEAN]

Shared ==
    /\ breaker \in Breaker /\ used \in [Cloud -> Nat]
    /\ killed \in BOOLEAN /\ toggling \in BOOLEAN /\ orphaned \in BOOLEAN
    /\ turns \in 0 .. MaxTurns

\* Phases in which nothing has been answered yet.
Early == {"idle", "trip_key", "count", "trip", "web", "search", "connector", "prepare"}

Asking == {"chat", "extract"}

CallPhases == {"search", "chat", "extract"}

\* No cloud provider is left to whom an enforced turn could fall back.
StaysHome(turn) ==
    turn.phase \in Asking /\ turn.enforced /\ LocalOnly(turn.input.sensitivity)
      => turn.provider \in Local /\ turn.chain \subseteq Local

\* What a turn is about and what the router has decided for it.
TurnKnows(turn) ==
    /\ turn.phase # "idle" => turn.input \in Inputs
    /\ turn.phase \in CallPhases => turn.provider \in Registered
    /\ turn.phase = "chat" => turn.enforced = enforce_local(turn.input)
    /\ turn.phase = "extract" => turn.enforced
    /\ StaysHome(turn)
    /\ turn.phase \in {"web", "search", "connector"} => searches(turn.input)
    /\ turn.phase \in {"search", "connector"} /\ turn.input.sensitivity = "S3"
         => turn.input.allow_s3_live_web

\* Before the first attempt nothing is shown, during it only the provider's own
\* text, and afterwards that of the one whose answer counts.
ShownOnce(turn) ==
    /\ turn.phase \in Early => turn.shown = {}
    /\ turn.phase = "chat" => turn.shown \subseteq {turn.provider}
    /\ turn.phase \notin Early \union {"chat"} => turn.shown \subseteq {turn.answer}

TurnInv(turn) == turn \in SlotType /\ TurnKnows(turn) /\ ShownOnce(turn)

\* The turns that have passed the breaker and are not counted yet.
PassedPhases == {"web", "search", "connector", "prepare", "chat", "extract", "finalize", "incr"}

Passed == {s \in Slots : slot[s].phase \in PassedPhases}

Calls(turn, p) == turn.phase \in CallPhases /\ turn.provider = p

Callers(p) == {s \in Slots : Calls(slot[s], p)}

VelocityInv == breaker.count + Cardinality(Passed) <= MaxActions - 1 + Cardinality(Slots)

LimitInv ==
    \A p \in Cloud : used[p] + Cardinality(Callers(p)) <= TokenLimit - 1 + Cardinality(Slots)

ServingInv ==
    /\ Shared /\ slot \in [Slots -> SlotType] /\ (\A s \in Slots : TurnInv(slot[s]))
    /\ VelocityInv /\ CounterHasDeadline /\ LimitInv

-----------------------------------------------------------------------------
(* Counting requests                                                       *)

LEMMA InputFacts ==
    ASSUME NEW input \in Inputs
    PROVE  /\ input \in TurnInput /\ input.sensitivity \in {"S0", "S1", "S2", "S3", "S4"}
           /\ input.preferred \in Providers \union {"none"}
           /\ preferred_provider(input) \in Providers \union {"none"}
<1>1. input \in TurnInput
  BY ServingAssumption
<1> QED
  BY <1>1 DEF TurnInput, preferred_provider, Providers

LEMMA Sizes ==
    ASSUME NEW A \in SUBSET Slots
    PROVE  /\ IsFiniteSet(A) /\ Cardinality(A) \in Nat /\ Cardinality(A) <= Cardinality(Slots)
           /\ \A s \in Slots : Cardinality(A \ {s}) = IF s \in A THEN Cardinality(A) - 1
                                                      ELSE Cardinality(A)
           /\ \A s \in Slots : s \notin A => Cardinality(A) + 1 <= Cardinality(Slots)
<1>1. IsFiniteSet(Slots)
  BY ServingAssumption
<1>2. IsFiniteSet(A) /\ Cardinality(A) <= Cardinality(Slots)
  BY <1>1, FS_Subset
<1>3. Cardinality(A) \in Nat /\ Cardinality(Slots) \in Nat
  BY <1>1, <1>2, FS_CardinalityType
<1>4. \A s \in Slots : Cardinality(A \ {s}) = IF s \in A THEN Cardinality(A) - 1 ELSE Cardinality(A)
  BY <1>2, FS_RemoveElement
<1>5. ASSUME NEW s \in Slots, s \notin A
      PROVE  Cardinality(A) + 1 <= Cardinality(Slots)
  <2>1. Cardinality(A \union {s}) = Cardinality(A) + 1
    BY <1>2, <1>5, FS_AddElement
  <2>2. A \union {s} \subseteq Slots
    BY <1>5
  <2>3. Cardinality(A \union {s}) <= Cardinality(Slots)
    BY <1>1, <2>2, FS_Subset
  <2> QED
    BY <2>1, <2>3
<1> QED
  BY <1>2, <1>3, <1>4, <1>5

\* A counter and the requests that will raise it: a request joins only while
\* there is room below the limit, and leaves when it counts.
LEMMA Overshoot ==
    ASSUME NEW A \in SUBSET Slots, NEW B \in SUBSET Slots, NEW s \in Slots,
           A \ {s} = B \ {s}, NEW n \in Nat, NEW m \in Nat, NEW limit \in Nat \ {0},
           n + Cardinality(A) <= limit - 1 + Cardinality(Slots),
           \/ m = 0
           \/ m = n /\ (s \in B => s \in A \/ n < limit)
           \/ m = n + 1 /\ s \in A /\ (s \in B => m < limit)
    PROVE  m + Cardinality(B) <= limit - 1 + Cardinality(Slots)
<1> DEFINE a == Cardinality(A)
           b == Cardinality(B)
           r == Cardinality(A \ {s})
           all == Cardinality(Slots)
<1>1. /\ a \in Nat /\ b \in Nat /\ all \in Nat /\ a <= all /\ b <= all
      /\ r = IF s \in A THEN a - 1 ELSE a
  BY Sizes
<1>2. r = IF s \in B THEN b - 1 ELSE b
  BY Sizes
<1> HIDE DEF a, b, r, all
<1>3. n + a <= limit - 1 + all
  BY DEF a, all
<1>4. m + b <= limit - 1 + all
  BY <1>1, <1>2, <1>3
<1> QED
  BY <1>4 DEF b, all

-----------------------------------------------------------------------------
(* One request moves on                                                    *)

LEMMA IdleTurn == TurnInv(Idle) /\ Idle.phase = "idle" /\ \A p : ~Calls(Idle, p)
<1>1. Idle \in SlotType /\ Idle.phase = "idle" /\ Idle.shown = {}
  BY DEF Idle, SlotType, Phases
<1> QED
  BY <1>1 DEF TurnInv, TurnKnows, ShownOnce, StaysHome, Early, CallPhases, Asking, Calls

LEMMA SlotMoves ==
    ASSUME ServingInv, NEW s \in Slots, NEW x, TurnInv(x), slot' = [slot EXCEPT ![s] = x],
           Shared', CounterHasDeadline',
           \/ /\ breaker'.count = breaker.count
              /\ x.phase \in PassedPhases => \/ slot[s].phase \in PassedPhases
                                             \/ breaker.count < MaxActions
           \/ /\ breaker'.count = breaker.count + 1
              /\ slot[s].phase \in PassedPhases /\ x.phase \notin PassedPhases,
           \A p \in Cloud : \/ /\ used'[p] = used[p]
                               /\ Calls(x, p) => Calls(slot[s], p) \/ used[p] < TokenLimit
                            \/ /\ used'[p] = used[p] + 1 /\ Calls(slot[s], p)
                               /\ Calls(x, p) => used'[p] < TokenLimit
    PROVE  ServingInv'
<1>1. /\ slot' \in [Slots -> SlotType] /\ slot'[s] = x
      /\ \A t \in Slots : t # s => slot'[t] = slot[t]
  <2>1. x \in SlotType /\ slot \in [Slots -> SlotType]
    BY DEF TurnInv, ServingInv
  <2> HIDE DEF SlotType
  <2> QED
    BY <2>1
<1>2. \A t \in Slots : TurnInv(slot'[t])
  BY <1>1 DEF ServingInv
<1>3. /\ breaker.count \in Nat /\ breaker'.count \in Nat /\ MaxActions \in Nat \ {0}
      /\ TokenLimit \in Nat \ {0}
      /\ \A p \in Cloud : used[p] \in Nat /\ used'[p] \in Nat
  BY ServingAssumption DEF ServingInv, Shared, Breaker
<1>4. VelocityInv'
  <2> DEFINE A == Passed
             B == {t \in Slots : slot'[t].phase \in PassedPhases}
  <2>1. A \in SUBSET Slots /\ B \in SUBSET Slots /\ A \ {s} = B \ {s}
    BY <1>1 DEF Passed
  <2>2. (s \in A <=> slot[s].phase \in PassedPhases) /\ (s \in B <=> x.phase \in PassedPhases)
    BY <1>1 DEF Passed
  <2>3. breaker.count + Cardinality(A) <= MaxActions - 1 + Cardinality(Slots)
    BY DEF ServingInv, VelocityInv
  <2> HIDE DEF A, B
  <2>4. breaker'.count + Cardinality(B) <= MaxActions - 1 + Cardinality(Slots)
    BY <1>3, <2>1, <2>2, <2>3, Overshoot
  <2> QED
    BY <2>4 DEF B, VelocityInv, Passed
<1>5. ASSUME NEW p \in Cloud
      PROVE  used'[p] + Cardinality(Callers(p)') <= TokenLimit - 1 + Cardinality(Slots)
  <2> DEFINE A == Callers(p)
             B == {t \in Slots : Calls(slot'[t], p)}
  <2>1. A \in SUBSET Slots /\ B \in SUBSET Slots /\ A \ {s} = B \ {s}
    BY <1>1 DEF Callers
  <2>2. (s \in A <=> Calls(slot[s], p)) /\ (s \in B <=> Calls(x, p))
    BY <1>1 DEF Callers
  <2>3. used[p] + Cardinality(A) <= TokenLimit - 1 + Cardinality(Slots)
    BY DEF ServingInv, LimitInv
  <2>4. Callers(p)' = B
    BY DEF Callers
  <2> HIDE DEF A, B
  <2>5. used'[p] + Cardinality(B) <= TokenLimit - 1 + Cardinality(Slots)
    BY <1>3, <2>1, <2>2, <2>3, Overshoot
  <2> QED
    BY <2>4, <2>5
<1> QED
  BY <1>1, <1>2, <1>4, <1>5 DEF ServingInv, LimitInv

\* As long as the breaker is not touched and nobody leaves before EXPIRE.
LEMMA DeadlineStays ==
    ASSUME ServingInv, UNCHANGED <<breaker, orphaned>>, NEW s \in Slots, NEW x,
           slot' = [slot EXCEPT ![s] = x], slot[s].phase # "expire"
    PROVE  CounterHasDeadline'
BY DEF ServingInv, CounterHasDeadline, At

\* A step of a request that calls nobody new.
LEMMA QuietMove ==
    ASSUME ServingInv, NEW s \in Slots, NEW x, TurnInv(x), slot' = [slot EXCEPT ![s] = x],
           UNCHANGED <<breaker, used, killed, toggling, orphaned>>, turns' \in 0 .. MaxTurns,
           slot[s].phase # "expire",
           x.phase \in PassedPhases => \/ slot[s].phase \in PassedPhases
                                       \/ breaker.count < MaxActions,
           \A p \in Cloud : Calls(x, p) => Calls(slot[s], p) \/ used[p] < TokenLimit
    PROVE  ServingInv'
<1>1. Shared'
  BY DEF ServingInv, Shared
<1> QED
  BY <1>1, SlotMoves, DeadlineStays

LEMMA TurnFacts ==
    ASSUME ServingInv, NEW s \in Slots
    PROVE  /\ TurnInv(slot[s]) /\ slot[s] \in SlotType /\ TurnKnows(slot[s]) /\ ShownOnce(slot[s])
           /\ turns \in 0 .. MaxTurns /\ breaker.count \in Nat
BY DEF ServingInv, TurnInv, Shared, Breaker

LEMMA ProcessTurnStep ==
    ASSUME ServingInv, NEW s \in Slots, process_turn(s)
    PROVE  ServingInv'
<1>0. /\ turns' = turns + 1 /\ turns < MaxTurns /\ slot[s].phase = "idle"
      /\ UNCHANGED <<breaker, used, killed, toggling, orphaned>>
  BY DEF process_turn, At
<1>1. turns' \in 0 .. MaxTurns
  BY <1>0, ServingAssumption DEF ServingInv, Shared
<1>2. CASE UNCHANGED slot
  <2>1. slot' = [slot EXCEPT ![s] = slot[s]] /\ TurnInv(slot[s])
    BY <1>2 DEF ServingInv
  <2> QED
    BY <1>0, <1>1, <2>1, QuietMove
<1>3. ASSUME NEW input \in Inputs,
             slot' = [slot EXCEPT ![s] = [Idle EXCEPT !.phase = "trip_key", !.input = input]]
      PROVE  ServingInv'
  <2> DEFINE x == [Idle EXCEPT !.phase = "trip_key", !.input = input]
  <2>1. x \in SlotType /\ x.phase = "trip_key" /\ x.input = input /\ x.shown = {}
    BY DEF Idle, SlotType, Phases
  <2> HIDE DEF x
  <2>2. TurnInv(x) /\ \A p : ~Calls(x, p)
    BY <2>1 DEF TurnInv, TurnKnows, ShownOnce, StaysHome, Early, CallPhases, Asking, Calls
  <2>3. x.phase \notin PassedPhases
    BY <2>1 DEF PassedPhases
  <2> QED
    BY <1>0, <1>1, <1>3, <2>2, <2>3, QuietMove DEF x
<1> QED
  BY <1>2, <1>3 DEF process_turn

\* The turn is over.
LEMMA EndStep ==
    ASSUME ServingInv, NEW s \in Slots, End(s), slot[s].phase # "expire",
           UNCHANGED <<breaker, used, killed, toggling, turns, orphaned>>
    PROVE  ServingInv'
BY IdleTurn, TurnFacts, QuietMove DEF End, PassedPhases

\* A step that changes nothing but the phase.
LEMMA PhaseFields ==
    ASSUME ServingInv, NEW s \in Slots, NEW phase \in Phases, Go(s, phase)
    PROVE  \E x : /\ slot' = [slot EXCEPT ![s] = x] /\ x \in SlotType /\ x.phase = phase
                  /\ x.input = slot[s].input /\ x.chain = slot[s].chain
                  /\ x.provider = slot[s].provider /\ x.enforced = slot[s].enforced
                  /\ x.shown = slot[s].shown /\ x.answer = slot[s].answer
<1> DEFINE x == [slot[s] EXCEPT !.phase = phase]
<1>1. slot[s] \in SlotType
  BY TurnFacts
<1>2. /\ x \in SlotType /\ x.phase = phase
      /\ x.input = slot[s].input /\ x.chain = slot[s].chain
      /\ x.provider = slot[s].provider /\ x.enforced = slot[s].enforced
      /\ x.shown = slot[s].shown /\ x.answer = slot[s].answer
  BY <1>1 DEF SlotType
<1>3. slot' = [slot EXCEPT ![s] = x]
  BY DEF Go
<1> HIDE DEF x
<1> QED
  BY <1>2, <1>3

LEMMA EarlyStep ==
    ASSUME ServingInv, NEW s \in Slots, NEW phase \in Phases, Go(s, phase),
           slot[s].phase \in {"trip_key", "count", "web", "connector"},
           phase \in Early \ {"idle", "search"},
           phase \in {"web", "connector"} => searches(slot[s].input),
           phase = "connector" /\ slot[s].input.sensitivity = "S3"
             => slot[s].input.allow_s3_live_web,
           phase \in PassedPhases => slot[s].phase \in PassedPhases \/ breaker.count < MaxActions,
           UNCHANGED <<breaker, used, killed, toggling, turns, orphaned>>
    PROVE  ServingInv'
<1>1. PICK x : /\ slot' = [slot EXCEPT ![s] = x] /\ x \in SlotType /\ x.phase = phase
               /\ x.input = slot[s].input /\ x.shown = slot[s].shown
  BY PhaseFields
<1>2. /\ slot[s].input \in Inputs /\ slot[s].shown = {} /\ turns' \in 0 .. MaxTurns
  BY TurnFacts DEF TurnKnows, ShownOnce, Early
<1>3. phase \in {"trip_key", "count", "trip", "web", "connector", "prepare"}
  BY DEF Early
<1>4. TurnInv(x) /\ \A p : ~Calls(x, p)
  BY <1>1, <1>2, <1>3
     DEF TurnInv, TurnKnows, ShownOnce, StaysHome, Early, CallPhases, Asking, Calls
<1> QED
  BY <1>1, <1>2, <1>4, QuietMove

LEMMA AdmissionStep ==
    ASSUME ServingInv, NEW s \in Slots,
           GetTripKey(s) \/ GetCount(s) \/ Trip(s) \/ _search_with_connector(s)
    PROVE  ServingInv'
<1>1. CASE GetTripKey(s)
  <2>1. /\ slot[s].phase = "trip_key" /\ (End(s) \/ Go(s, "count"))
        /\ UNCHANGED <<breaker, used, killed, toggling, turns, orphaned>>
    BY <1>1 DEF GetTripKey, At
  <2>2. /\ "count" \in Phases /\ "count" \in Early \ {"idle", "search"}
        /\ "count" \notin PassedPhases
    BY DEF Phases, Early, PassedPhases
  <2>3. CASE Go(s, "count")
    BY <2>1, <2>2, <2>3, EarlyStep
  <2> QED
    BY <2>1, <2>3, EndStep
<1>2. CASE GetCount(s)
  <2>1. /\ slot[s].phase = "count"
        /\ UNCHANGED <<breaker, used, killed, toggling, turns, orphaned>>
    BY <1>2 DEF GetCount, At
  <2>2. PICK phase \in {"trip", "web", "prepare"} :
          /\ Go(s, phase) /\ (phase = "web" => searches(slot[s].input))
          /\ phase \in {"web", "prepare"} => ~(breaker.count >= MaxActions)
    BY <1>2 DEF GetCount
  <2>3. breaker.count \in Nat /\ MaxActions \in Nat
    BY TurnFacts, ServingAssumption
  <2>4. /\ phase \in Phases /\ phase \in Early \ {"idle", "search"} /\ phase # "connector"
        /\ phase \in PassedPhases => breaker.count < MaxActions
    BY <2>2, <2>3 DEF Phases, Early, PassedPhases
  <2> QED
    BY <2>1, <2>2, <2>4, EarlyStep
<1>3. CASE Trip(s)
  <2>1. /\ slot[s].phase = "trip" /\ slot' = [slot EXCEPT ![s] = Idle]
        /\ breaker' = [breaker EXCEPT !.tripped = TRUE]
        /\ UNCHANGED <<used, killed, toggling, turns, orphaned>>
    BY <1>3 DEF Trip, At, End
  <2>2. breaker \in Breaker /\ Shared
    BY DEF ServingInv, Shared
  <2>3. /\ breaker' \in Breaker /\ breaker'.count = breaker.count /\ breaker'.ttl = breaker.ttl
    BY <2>1, <2>2 DEF Breaker
  <2>4. Shared'
    BY <2>1, <2>2, <2>3 DEF Shared
  <2>5. CounterHasDeadline'
    BY <2>1, <2>3 DEF ServingInv, CounterHasDeadline, At
  <2> QED
    BY <2>1, <2>3, <2>4, <2>5, IdleTurn, SlotMoves DEF PassedPhases
<1>4. CASE _search_with_connector(s)
  <2>1. /\ slot[s].phase = "connector" /\ Go(s, "prepare")
        /\ UNCHANGED <<breaker, used, killed, toggling, turns, orphaned>>
    BY <1>4 DEF _search_with_connector, At
  <2> QED
    BY <2>1, EarlyStep DEF Phases, Early, PassedPhases
<1> QED
  BY <1>1, <1>2, <1>3, <1>4

\* What a turn may look like after its last call.
LEMMA LateMove ==
    ASSUME ServingInv, NEW s \in Slots, NEW x, x \in SlotType, x.phase \in {"finalize", "incr", "expire"},
           x.input \in Inputs, x.shown \subseteq {x.answer}
    PROVE  TurnInv(x) /\ \A p : ~Calls(x, p)
BY DEF TurnInv, TurnKnows, ShownOnce, StaysHome, Early, CallPhases, Asking, Calls

LEMMA FinalizeStep ==
    ASSUME ServingInv, NEW s \in Slots, _finalize_turn(s)
    PROVE  ServingInv'
<1>1. /\ slot[s].phase = "finalize" /\ (End(s) \/ Go(s, "incr"))
      /\ UNCHANGED <<breaker, used, killed, toggling, turns, orphaned>>
  BY DEF _finalize_turn, At
<1>2. CASE Go(s, "incr")
  <2>1. PICK x : /\ slot' = [slot EXCEPT ![s] = x] /\ x \in SlotType /\ x.phase = "incr"
                 /\ x.input = slot[s].input /\ x.shown = slot[s].shown
                 /\ x.answer = slot[s].answer
    BY <1>2, PhaseFields DEF Phases
  <2>2. slot[s].input \in Inputs /\ slot[s].shown \subseteq {slot[s].answer}
    BY <1>1, TurnFacts DEF TurnKnows, ShownOnce, Early
  <2>3. turns' \in 0 .. MaxTurns
    BY <1>1, TurnFacts
  <2>4. TurnInv(x) /\ \A p : ~Calls(x, p)
    BY <2>1, <2>2, LateMove
  <2>5. slot[s].phase # "expire" /\ slot[s].phase \in PassedPhases
    BY <1>1 DEF PassedPhases
  <2> QED
    BY <1>1, <2>1, <2>3, <2>4, <2>5, QuietMove
<1> QED
  BY <1>1, <1>2, EndStep

LEMMA IncrementStep ==
    ASSUME ServingInv, NEW s \in Slots, Increment(s)
    PROVE  ServingInv'
<1>1. /\ slot[s].phase = "incr" /\ breaker' = [breaker EXCEPT !.count = breaker.count + 1]
      /\ UNCHANGED <<used, killed, toggling, turns, orphaned>>
      /\ IF breaker.count = 0 THEN Go(s, "expire") ELSE End(s)
  BY DEF Increment, At
<1>2. breaker \in Breaker /\ Shared
  BY DEF ServingInv, Shared
<1>3. /\ breaker' \in Breaker /\ breaker'.count = breaker.count + 1 /\ breaker'.ttl = breaker.ttl
  BY <1>1, <1>2 DEF Breaker
<1>4. Shared'
  BY <1>1, <1>2, <1>3 DEF Shared
<1>5. PICK x : /\ slot' = [slot EXCEPT ![s] = x] /\ TurnInv(x) /\ \A p : ~Calls(x, p)
               /\ x.phase \in {"idle", "expire"}
               /\ breaker.count = 0 => x.phase = "expire"
  <2>1. CASE breaker.count = 0
    <3>1. PICK x : /\ slot' = [slot EXCEPT ![s] = x] /\ x \in SlotType /\ x.phase = "expire"
                   /\ x.input = slot[s].input /\ x.shown = slot[s].shown
                   /\ x.answer = slot[s].answer
      BY <1>1, <2>1, PhaseFields DEF Phases
    <3>2. slot[s].input \in Inputs /\ slot[s].shown \subseteq {slot[s].answer}
      BY <1>1, TurnFacts DEF TurnKnows, ShownOnce, Early
    <3> QED
      BY <3>1, <3>2, LateMove
  <2>2. CASE breaker.count # 0
    BY <1>1, <2>2, IdleTurn DEF End
  <2> QED
    BY <2>1, <2>2
<1>6. slot \in [Slots -> SlotType] /\ CounterHasDeadline
  BY DEF ServingInv
<1>7. slot'[s] = x /\ \A t \in Slots : t # s => slot'[t] = slot[t]
  <2> HIDE DEF SlotType
  <2> QED
    BY <1>5, <1>6
<1>8. CounterHasDeadline'
  <2>1. CASE breaker.count = 0
    BY <1>5, <1>7, <2>1 DEF CounterHasDeadline, At
  <2>2. CASE breaker.count # 0
    <3>1. breaker.count > 0
      BY <1>2, <2>2 DEF Breaker
    <3>2. ~breaker.ttl => orphaned \/ \E t \in Slots : t # s /\ slot[t].phase = "expire"
      BY <1>1, <1>6, <3>1 DEF CounterHasDeadline, At
    <3> QED
      BY <1>1, <1>3, <1>7, <3>2 DEF CounterHasDeadline, At
  <2> QED
    BY <2>1, <2>2
<1>9. slot[s].phase \in PassedPhases /\ x.phase \notin PassedPhases
  BY <1>1, <1>5 DEF PassedPhases
<1> QED
  BY <1>1, <1>3, <1>4, <1>5, <1>8, <1>9, SlotMoves

LEMMA ExpireStep ==
    ASSUME ServingInv, NEW s \in Slots, Expire(s)
    PROVE  ServingInv'
<1>1. /\ slot[s].phase = "expire" /\ breaker' = [breaker EXCEPT !.ttl = TRUE]
      /\ UNCHANGED <<used, killed, toggling, turns, orphaned>>
      /\ slot' = [slot EXCEPT ![s] = Idle]
  BY DEF Expire, At, End
<1>2. breaker \in Breaker /\ Shared
  BY DEF ServingInv, Shared
<1>3. /\ breaker' \in Breaker /\ breaker'.count = breaker.count /\ breaker'.ttl
  BY <1>1, <1>2 DEF Breaker
<1>4. Shared' /\ CounterHasDeadline'
  BY <1>1, <1>2, <1>3 DEF Shared, CounterHasDeadline
<1> QED
  BY <1>1, <1>3, <1>4, IdleTurn, SlotMoves DEF PassedPhases

LEMMA VanishStep ==
    ASSUME ServingInv, NEW s \in Slots, Vanish(s)
    PROVE  ServingInv'
<1>1. /\ slot' = [slot EXCEPT ![s] = Idle] /\ orphaned' = (orphaned \/ slot[s].phase = "expire")
      /\ UNCHANGED <<breaker, used, killed, toggling, turns>>
  BY DEF Vanish, At, End
<1>2. Shared'
  BY <1>1 DEF ServingInv, Shared
<1>3. CounterHasDeadline'
  BY <1>1 DEF ServingInv, CounterHasDeadline, At
<1> QED
  BY <1>1, <1>2, <1>3, IdleTurn, SlotMoves DEF PassedPhases

-----------------------------------------------------------------------------
(* The world around                                                        *)

LEMMA WorldStep ==
    ASSUME ServingInv, UNCHANGED slot,
           \/ WindowEnds \/ CooldownEnds \/ Midnight \/ force_trip
           \/ \E active \in BOOLEAN : toggle_kill_switch(active)
    PROVE  ServingInv'
<1>1. Shared /\ breaker \in Breaker /\ breaker.count \in Nat /\ used \in [Cloud -> Nat]
  BY DEF ServingInv, Shared, Breaker
<1>2. /\ breaker' \in Breaker /\ breaker'.count \in {breaker.count, 0}
      /\ breaker'.ttl = breaker.ttl \/ breaker'.count = 0
  <2>1. CASE WindowEnds
    <3>1. breaker' = [breaker EXCEPT !.count = 0, !.ttl = FALSE]
      BY <2>1 DEF WindowEnds
    <3> QED
      BY <1>1, <3>1 DEF Breaker
  <2>2. CASE CooldownEnds
    <3>1. breaker' = [breaker EXCEPT !.tripped = FALSE]
      BY <2>2 DEF CooldownEnds
    <3> QED
      BY <1>1, <3>1 DEF Breaker
  <2>3. CASE force_trip
    <3>1. breaker' = [breaker EXCEPT !.tripped = TRUE]
      BY <2>3 DEF force_trip
    <3> QED
      BY <1>1, <3>1 DEF Breaker
  <2>4. CASE UNCHANGED breaker
    BY <1>1, <2>4
  <2> QED
    BY <2>1, <2>2, <2>3, <2>4 DEF Midnight, toggle_kill_switch
<1>3. used' \in [Cloud -> Nat] /\ \A p \in Cloud : used'[p] \in {used[p], 0}
  BY <1>1 DEF WindowEnds, CooldownEnds, Midnight, force_trip, toggle_kill_switch
<1>4. UNCHANGED <<turns, orphaned>> /\ killed' \in BOOLEAN /\ toggling' \in BOOLEAN
  BY <1>1 DEF Shared, WindowEnds, CooldownEnds, Midnight, force_trip, toggle_kill_switch
<1>5. Shared'
  BY <1>1, <1>2, <1>3, <1>4 DEF Shared
<1>6. CounterHasDeadline'
  BY <1>2, <1>4 DEF ServingInv, CounterHasDeadline, At
<1>7. VelocityInv'
  <2> DEFINE n == Cardinality(Passed)
             limit == MaxActions - 1 + Cardinality(Slots)
  <2>1. n \in Nat /\ limit \in Nat
    BY Sizes, ServingAssumption DEF Passed
  <2>2. breaker.count + n <= limit
    BY DEF ServingInv, VelocityInv
  <2>3. breaker'.count + n <= limit
    <3> HIDE DEF n, limit
    <3> QED
      BY <1>1, <1>2, <2>1, <2>2
  <2> QED
    BY <2>3 DEF VelocityInv, Passed
<1>8. ASSUME NEW p \in Cloud
      PROVE  used'[p] + Cardinality(Callers(p)') <= TokenLimit - 1 + Cardinality(Slots)
  <2> DEFINE n == Cardinality(Callers(p))
             limit == TokenLimit - 1 + Cardinality(Slots)
  <2>1. n \in Nat /\ limit \in Nat
    BY Sizes, ServingAssumption DEF Callers
  <2>2. used[p] + n <= limit /\ used[p] \in Nat
    BY <1>1 DEF ServingInv, LimitInv
  <2>3. used'[p] + n <= limit
    <3> HIDE DEF n, limit
    <3> QED
      BY <1>3, <2>1, <2>2
  <2> QED
    BY <2>3 DEF Callers
<1> QED
  BY <1>5, <1>6, <1>7, <1>8 DEF ServingInv, LimitInv

-----------------------------------------------------------------------------
(* The router                                                              *)

LEMMA ChainInTypes ==
    ASSUME NEW sensitivity, NEW enforced, NEW intent
    PROVE  /\ _build_fallback_chain(intent, sensitivity, enforced) \in SUBSET Providers
           /\ enforced /\ LocalOnly(sensitivity)
                => _build_fallback_chain(intent, sensitivity, enforced) \subseteq Local
BY ServingAssumption DEF _build_fallback_chain, intent_primary, Providers, Cloud, Local

\* A turn that is about to ask the providers of its chain.
Ready(turn) ==
    /\ turn \in SlotType /\ turn.phase \in CallPhases /\ turn.input \in Inputs
    /\ turn.phase = "chat" => turn.enforced = enforce_local(turn.input)
    /\ turn.phase = "extract" => turn.enforced
    /\ turn.phase \in Asking /\ turn.enforced /\ LocalOnly(turn.input.sensitivity)
         => turn.chain \subseteq Local
    /\ turn.phase = "search" => /\ searches(turn.input)
                                /\ turn.input.sensitivity = "S3" => turn.input.allow_s3_live_web
    /\ IF turn.phase = "extract" THEN turn.shown \subseteq {turn.answer} ELSE turn.shown = {}

LEMMA GivenUp ==
    ASSUME NEW turn, Ready(turn)
    PROVE  /\ TurnInv(GiveUp(turn)) /\ GiveUp(turn).phase \in {"idle", "connector"}
           /\ GiveUp(turn).phase = "connector" => turn.phase = "search"
           /\ \A p : ~Calls(GiveUp(turn), p)
<1>1. CASE turn.phase = "search"
  <2> DEFINE x == [turn EXCEPT !.phase = "connector", !.provider = "none", !.chain = {}]
  <2>1. /\ x \in SlotType /\ x.phase = "connector" /\ x.input = turn.input
        /\ x.shown = turn.shown
    BY DEF Ready, SlotType, Phases
  <2> HIDE DEF x
  <2>2. TurnInv(x) /\ \A p : ~Calls(x, p)
    BY <1>1, <2>1
       DEF TurnInv, TurnKnows, ShownOnce, StaysHome, Early, CallPhases, Asking, Calls, Ready
  <2>3. GiveUp(turn) = x
    BY <1>1 DEF GiveUp, x
  <2> QED
    BY <1>1, <2>1, <2>2, <2>3
<1>2. CASE turn.phase # "search"
  BY <1>2, IdleTurn DEF GiveUp
<1> QED
  BY <1>1, <1>2

\* An attempt calls a provider with a key and tokens left, or gives up.
LEMMA Attempted ==
    ASSUME NEW s \in Slots, NEW turn, Ready(turn), NEW tokens \in [Cloud -> Nat],
           Attempt(s, turn, tokens)
    PROVE  \E x : /\ slot' = [slot EXCEPT ![s] = x] /\ TurnInv(x)
                  /\ x.phase \in {"idle", turn.phase} \/ (x.phase = "connector" /\ turn.phase = "search")
                  /\ \A p \in Cloud : Calls(x, p) => tokens[p] < TokenLimit
<1> DEFINE usable == {p \in turn.chain \intersect Registered : ~is_limit_exceeded(p, tokens)}
<1>1. CASE slot' = [slot EXCEPT ![s] = GiveUp(turn)]
  BY <1>1, GivenUp
<1>2. CASE slot' # [slot EXCEPT ![s] = GiveUp(turn)]
  <2>1. PICK p \in usable : slot' = [slot EXCEPT ![s] =
            [turn EXCEPT !.provider = p,
                         !.chain = {q \in turn.chain : place(turn, q) > place(turn, p)}]]
    BY <1>2 DEF Attempt
  <2> DEFINE rest == {q \in turn.chain : place(turn, q) > place(turn, p)}
             x == [turn EXCEPT !.provider = p, !.chain = rest]
  <2>2. /\ rest \subseteq turn.chain /\ p \in turn.chain /\ p \in Registered
        /\ ~is_limit_exceeded(p, tokens)
    BY <2>1
  <2>3. slot' = [slot EXCEPT ![s] = x]
    BY <2>1
  <2> HIDE DEF rest, usable
  <2>4. /\ turn \in SlotType /\ p \in Providers
    BY <2>2, ServingAssumption DEF Ready, Providers
  <2>5. rest \in SUBSET Providers
    BY <2>2, <2>4 DEF SlotType, Providers
  <2>6. /\ x \in SlotType /\ x.phase = turn.phase /\ x.input = turn.input /\ x.provider = p
        /\ x.chain = rest /\ x.enforced = turn.enforced /\ x.shown = turn.shown
        /\ x.answer = turn.answer
    BY <2>4, <2>5 DEF SlotType, Providers
  <2> HIDE DEF x
  <2>7. TurnKnows(x)
    BY <2>2, <2>6 DEF Ready, TurnKnows, StaysHome, CallPhases, Asking
  <2>8. ShownOnce(x)
    BY <2>6 DEF Ready, ShownOnce, Early, CallPhases
  <2>9. \A q \in Cloud : Calls(x, q) => tokens[q] < TokenLimit
    BY <2>2, <2>6, ServingAssumption DEF Calls, is_limit_exceeded
  <2> QED
    BY <2>3, <2>6, <2>7, <2>8, <2>9 DEF TurnInv
<1> QED
  BY <1>1, <1>2

LEMMA SharedFacts ==
    ASSUME ServingInv
    PROVE  used \in [Cloud -> Nat] /\ Shared /\ CounterHasDeadline /\ breaker.count \in Nat
BY DEF ServingInv, Shared, Breaker

\* A request asks somebody without having been answered.
LEMMA AskStep ==
    ASSUME ServingInv, NEW s \in Slots, NEW turn, Ready(turn), Attempt(s, turn, used),
           slot[s].phase \in {"web", "prepare"} \union CallPhases,
           UNCHANGED <<breaker, used, killed, toggling, turns, orphaned>>
    PROVE  ServingInv'
<1>1. PICK x : /\ slot' = [slot EXCEPT ![s] = x] /\ TurnInv(x)
               /\ \A p \in Cloud : Calls(x, p) => used[p] < TokenLimit
  BY SharedFacts, Attempted
<1>2. turns' \in 0 .. MaxTurns
  BY TurnFacts
<1>3. slot[s].phase \in PassedPhases /\ slot[s].phase # "expire"
  BY DEF PassedPhases, CallPhases
<1> QED
  BY <1>1, <1>2, <1>3, QuietMove

LEMMA SearchStep ==
    ASSUME ServingInv, NEW s \in Slots, search(s)
    PROVE  ServingInv'
<1>1. /\ slot[s].phase = "web"
      /\ UNCHANGED <<breaker, used, killed, toggling, turns, orphaned>>
  BY DEF search, At
<1>2. /\ slot[s] \in SlotType /\ slot[s].input \in Inputs /\ searches(slot[s].input)
      /\ slot[s].shown = {}
  BY <1>1, TurnFacts DEF TurnKnows, ShownOnce, Early
<1>3. CASE End(s)
  BY <1>1, <1>3, EndStep
<1>4. CASE Go(s, "connector") /\ (slot[s].input.sensitivity = "S3" => slot[s].input.allow_s3_live_web)
  <2>1. "connector" \in Phases /\ "connector" \in Early \ {"idle", "search"}
        /\ slot[s].phase \in PassedPhases
    BY <1>1 DEF Phases, Early, PassedPhases
  <2> QED
    BY <1>1, <1>2, <1>4, <2>1, EarlyStep
<1>5. CASE /\ _search_with_provider_native(s, slot[s])
           /\ slot[s].input.sensitivity = "S3" => slot[s].input.allow_s3_live_web
  <2> DEFINE chain == _build_fallback_chain("tool_call", "S1", FALSE)
             turn == [slot[s] EXCEPT !.phase = "search", !.chain = chain]
  <2>1. chain \in SUBSET Providers
    BY ChainInTypes
  <2>2. Attempt(s, turn, used)
    BY <1>5 DEF _search_with_provider_native
  <2> HIDE DEF chain
  <2>3. /\ turn \in SlotType /\ turn.phase = "search" /\ turn.input = slot[s].input
        /\ turn.shown = slot[s].shown
    BY <1>2, <2>1 DEF SlotType, Phases, Providers
  <2> HIDE DEF turn
  <2>4. Ready(turn)
    BY <1>2, <1>5, <2>3 DEF Ready, CallPhases, Asking
  <2> QED
    BY <1>1, <2>2, <2>4, AskStep
<1> QED
  BY <1>3, <1>4, <1>5 DEF search

LEMMA CallStep ==
    ASSUME ServingInv, NEW s \in Slots, Call(s)
    PROVE  ServingInv'
<1>1. /\ slot[s].phase = "prepare"
      /\ UNCHANGED <<breaker, used, killed, toggling, turns, orphaned>>
  BY DEF Call, At
<1>2. /\ slot[s] \in SlotType /\ slot[s].input \in Inputs /\ slot[s].shown = {}
  BY <1>1, TurnFacts DEF TurnKnows, ShownOnce, Early
<1>3. CASE Go(s, "finalize")
  <2>1. PICK x : /\ slot' = [slot EXCEPT ![s] = x] /\ x \in SlotType /\ x.phase = "finalize"
                 /\ x.input = slot[s].input /\ x.shown = slot[s].shown
    BY <1>3, PhaseFields DEF Phases
  <2>2. TurnInv(x) /\ \A p : ~Calls(x, p)
    BY <1>2, <2>1, LateMove
  <2>3. turns' \in 0 .. MaxTurns
    BY <1>1, TurnFacts
  <2>4. slot[s].phase \in PassedPhases
    BY <1>1 DEF PassedPhases
  <2> QED
    BY <1>1, <2>1, <2>2, <2>3, <2>4, QuietMove
<1>4. CASE route(s, slot[s], used)
  <2> DEFINE enforced == enforce_local(slot[s].input)
             chain == _build_fallback_chain("general_turn", slot[s].input.sensitivity, enforced)
             turn == [slot[s] EXCEPT !.phase = "chat", !.enforced = enforced, !.chain = chain]
  <2>1. /\ chain \in SUBSET Providers /\ enforced \in BOOLEAN
        /\ enforced /\ LocalOnly(slot[s].input.sensitivity) => chain \subseteq Local
    BY <1>2, ChainInTypes, InputFacts DEF enforce_local, TurnInput
  <2>2. Attempt(s, turn, used)
    BY <1>4 DEF route
  <2>a. enforced = enforce_local(slot[s].input)
    OBVIOUS
  <2> HIDE DEF chain, enforced
  <2>3. /\ turn \in SlotType /\ turn.phase = "chat" /\ turn.input = slot[s].input
        /\ turn.shown = slot[s].shown /\ turn.enforced = enforced /\ turn.chain = chain
    BY <1>2, <2>1 DEF SlotType, Phases, Providers
  <2> HIDE DEF turn
  <2>4. Ready(turn)
    BY <1>2, <2>1, <2>a, <2>3 DEF Ready, CallPhases, Asking
  <2> QED
    BY <1>1, <2>2, <2>4, AskStep
<1> QED
  BY <1>3, <1>4 DEF Call

LEMMA DeltaStep ==
    ASSUME ServingInv, NEW s \in Slots, Delta(s)
    PROVE  ServingInv'
<1> DEFINE x == [slot[s] EXCEPT !.shown = slot[s].shown \union {slot[s].provider}]
<1>1. /\ slot[s].phase = "chat" /\ slot' = [slot EXCEPT ![s] = x]
      /\ UNCHANGED <<breaker, used, killed, toggling, turns, orphaned>>
  BY DEF Delta, Streaming, At
<1>2. /\ slot[s] \in SlotType /\ TurnKnows(slot[s]) /\ slot[s].provider \in Registered
      /\ slot[s].shown \subseteq {slot[s].provider} /\ turns' \in 0 .. MaxTurns
  BY <1>1, TurnFacts DEF TurnKnows, ShownOnce, CallPhases
<1>3. slot[s].provider \in Providers
  BY <1>2, ServingAssumption DEF Providers
<1>4. /\ x \in SlotType /\ x.phase = slot[s].phase /\ x.input = slot[s].input
      /\ x.chain = slot[s].chain /\ x.provider = slot[s].provider
      /\ x.enforced = slot[s].enforced
      /\ x.shown = slot[s].shown \union {slot[s].provider}
  BY <1>2, <1>3 DEF SlotType, Providers
<1> HIDE DEF x
<1>5. TurnKnows(x)
  BY <1>2, <1>4 DEF TurnKnows, StaysHome
<1>6. ShownOnce(x)
  BY <1>1, <1>2, <1>4 DEF ShownOnce, Early
<1>7. \A p : Calls(x, p) => Calls(slot[s], p)
  BY <1>4 DEF Calls
<1>8. slot[s].phase \in PassedPhases /\ slot[s].phase # "expire"
  BY <1>1 DEF PassedPhases
<1> QED
  BY <1>1, <1>2, <1>4, <1>5, <1>6, <1>7, <1>8, QuietMove DEF TurnInv

\* The answer to a call has come: its tokens are recorded, and the request goes
\* on to x, which calls nobody who has no tokens left.
LEMMA AnsweredMove ==
    ASSUME ServingInv, NEW s \in Slots, slot[s].phase \in CallPhases, Record(slot[s].provider),
           NEW x, slot' = [slot EXCEPT ![s] = x], TurnInv(x),
           UNCHANGED <<breaker, killed, toggling, turns, orphaned>>,
           \A p \in Cloud : Calls(x, p) => used'[p] < TokenLimit
    PROVE  ServingInv'
<1>1. used \in [Cloud -> Nat] /\ Shared
  BY SharedFacts
<1>2. /\ used' \in [Cloud -> Nat]
      /\ \A p \in Cloud : used'[p] = used[p] \/ (used'[p] = used[p] + 1 /\ p = slot[s].provider)
  BY <1>1 DEF Record
<1>3. Shared'
  BY <1>1, <1>2 DEF Shared
<1>4. slot[s].phase \in PassedPhases /\ slot[s].phase # "expire"
  BY DEF PassedPhases, CallPhases
<1>5. CounterHasDeadline'
  BY <1>4, DeadlineStays
<1>6. ASSUME NEW p \in Cloud
      PROVE  \/ /\ used'[p] = used[p]
                /\ Calls(x, p) => Calls(slot[s], p) \/ used[p] < TokenLimit
             \/ /\ used'[p] = used[p] + 1 /\ Calls(slot[s], p)
                /\ Calls(x, p) => used'[p] < TokenLimit
  BY <1>2 DEF Calls
<1> QED
  BY <1>3, <1>4, <1>5, <1>6, SlotMoves

LEMMA RecordTypes ==
    ASSUME ServingInv, NEW p, Record(p)
    PROVE  used' \in [Cloud -> Nat]
BY SharedFacts DEF Record

LEMMA AnswerSearchStep ==
    ASSUME ServingInv, NEW s \in Slots, AnswerSearch(s)
    PROVE  ServingInv'
<1> DEFINE x == [slot[s] EXCEPT !.phase = "connector", !.provider = "none", !.chain = {}]
           y == [x EXCEPT !.phase = "prepare"]
<1>1. /\ slot[s].phase = "search" /\ Record(slot[s].provider)
      /\ UNCHANGED <<breaker, killed, toggling, turns, orphaned>>
  BY DEF AnswerSearch, At
<1>2. /\ slot[s] \in SlotType /\ TurnKnows(slot[s]) /\ slot[s].shown = {}
      /\ slot[s].input \in Inputs
  BY <1>1, TurnFacts DEF TurnKnows, ShownOnce, Early
<1>3. GiveUp(slot[s]) = x
  BY <1>1 DEF GiveUp
<1>4. slot' = [slot EXCEPT ![s] = y] \/ slot' = [slot EXCEPT ![s] = x]
  BY <1>3 DEF AnswerSearch
<1>5. /\ x \in SlotType /\ x.phase = "connector" /\ x.input = slot[s].input /\ x.shown = {}
      /\ y \in SlotType /\ y.phase = "prepare" /\ y.input = slot[s].input /\ y.shown = {}
  BY <1>2 DEF SlotType, Phases
<1> HIDE DEF x, y
<1>6. TurnInv(x) /\ \A p : ~Calls(x, p)
  BY <1>1, <1>2, <1>5
     DEF TurnInv, TurnKnows, ShownOnce, StaysHome, Early, CallPhases, Asking, Calls
<1>7. TurnInv(y) /\ \A p : ~Calls(y, p)
  BY <1>1, <1>2, <1>5
     DEF TurnInv, TurnKnows, ShownOnce, StaysHome, Early, CallPhases, Asking, Calls
<1>8. slot[s].phase \in CallPhases
  BY <1>1 DEF CallPhases
<1> QED
  BY <1>1, <1>4, <1>6, <1>7, <1>8, AnsweredMove

LEMMA AnswerExtractionStep ==
    ASSUME ServingInv, NEW s \in Slots, AnswerExtraction(s)
    PROVE  ServingInv'
<1>1. /\ slot[s].phase = "extract" /\ Record(slot[s].provider) /\ Go(s, "finalize")
      /\ UNCHANGED <<breaker, killed, toggling, turns, orphaned>>
  BY DEF AnswerExtraction, At
<1>2. slot[s].input \in Inputs /\ slot[s].shown \subseteq {slot[s].answer}
  BY <1>1, TurnFacts DEF TurnKnows, ShownOnce, Early
<1>3. PICK x : /\ slot' = [slot EXCEPT ![s] = x] /\ x \in SlotType /\ x.phase = "finalize"
               /\ x.input = slot[s].input /\ x.shown = slot[s].shown
               /\ x.answer = slot[s].answer
  BY <1>1, PhaseFields DEF Phases
<1>4. TurnInv(x) /\ \A p : ~Calls(x, p)
  BY <1>2, <1>3, LateMove
<1>5. slot[s].phase \in CallPhases
  BY <1>1 DEF CallPhases
<1> QED
  BY <1>1, <1>3, <1>4, <1>5, AnsweredMove

LEMMA AnswerChatStep ==
    ASSUME ServingInv, NEW s \in Slots, AnswerChat(s)
    PROVE  ServingInv'
<1> DEFINE turn == [slot[s] EXCEPT !.answer = slot[s].provider]
<1>1. /\ slot[s].phase = "chat" /\ Record(slot[s].provider)
      /\ UNCHANGED <<breaker, killed, toggling, turns, orphaned>>
      /\ \/ slot' = [slot EXCEPT ![s] = [turn EXCEPT !.phase = "finalize"]]
         \/ extract(s, turn, used')
  BY DEF AnswerChat, At
<1>2. /\ slot[s] \in SlotType /\ slot[s].input \in Inputs /\ slot[s].provider \in Registered
      /\ slot[s].shown \subseteq {slot[s].provider}
  BY <1>1, TurnFacts DEF TurnKnows, ShownOnce, CallPhases
<1>3. slot[s].provider \in Providers
  BY <1>2, ServingAssumption DEF Providers
<1>4. slot[s].phase \in CallPhases
  BY <1>1 DEF CallPhases
<1>5. CASE slot' = [slot EXCEPT ![s] = [turn EXCEPT !.phase = "finalize"]]
  <2> DEFINE x == [turn EXCEPT !.phase = "finalize"]
  <2>1. /\ x \in SlotType /\ x.phase = "finalize" /\ x.input = slot[s].input
        /\ x.shown = slot[s].shown /\ x.answer = slot[s].provider
    BY <1>2, <1>3 DEF SlotType, Phases, Providers
  <2> HIDE DEF x
  <2>2. TurnInv(x) /\ \A p : ~Calls(x, p)
    BY <1>2, <2>1, LateMove
  <2> QED
    BY <1>1, <1>4, <1>5, <2>2, AnsweredMove DEF x
<1>6. CASE extract(s, turn, used')
  <2> DEFINE chain == _build_fallback_chain("claim_extraction", turn.input.sensitivity, TRUE)
             asking == [turn EXCEPT !.phase = "extract", !.enforced = TRUE, !.chain = chain]
  <2>1. /\ chain \in SUBSET Providers
        /\ LocalOnly(turn.input.sensitivity) => chain \subseteq Local
    BY ChainInTypes
  <2>2. Attempt(s, asking, used')
    BY <1>6 DEF extract
  <2>3. turn.input = slot[s].input
    BY <1>2 DEF SlotType
  <2> HIDE DEF chain
  <2>4. /\ asking \in SlotType /\ asking.phase = "extract" /\ asking.input = slot[s].input
        /\ asking.shown = slot[s].shown /\ asking.enforced /\ asking.chain = chain
        /\ asking.answer = slot[s].provider
    BY <1>2, <1>3, <2>1 DEF SlotType, Phases, Providers
  <2> HIDE DEF asking, turn
  <2>5. Ready(asking)
    BY <1>2, <2>1, <2>3, <2>4 DEF Ready, CallPhases, Asking
  <2>6. used' \in [Cloud -> Nat]
    BY <1>1, RecordTypes
  <2>7. PICK x : /\ slot' = [slot EXCEPT ![s] = x] /\ TurnInv(x)
                 /\ \A p \in Cloud : Calls(x, p) => used'[p] < TokenLimit
    BY <2>2, <2>5, <2>6, Attempted
  <2> QED
    BY <1>1, <1>4, <2>7, AnsweredMove
<1> QED
  BY <1>1, <1>5, <1>6

\* The router falls back only while nothing has been shown and somebody else
\* may be asked.
LEMMA FailStep ==
    ASSUME ServingInv, NEW s \in Slots, Fail(s)
    PROVE  ServingInv'
<1>1. /\ slot[s].phase \in CallPhases
      /\ UNCHANGED <<breaker, used, killed, toggling, turns, orphaned>>
      /\ \/ slot' = [slot EXCEPT ![s] = GiveUp(slot[s])]
         \/ ~emitted(s) /\ Attempt(s, slot[s], used)
  BY DEF Fail, Calling, CallPhases
<1>2. /\ slot[s] \in SlotType /\ TurnKnows(slot[s]) /\ ShownOnce(slot[s])
      /\ turns' \in 0 .. MaxTurns
  BY <1>1, TurnFacts
<1>3. CASE ~emitted(s) /\ Attempt(s, slot[s], used)
  <2>1. slot[s].phase = "chat" => slot[s].shown = {}
    BY <1>2, <1>3 DEF emitted, At, ShownOnce
  <2>2. Ready(slot[s])
    BY <1>1, <1>2, <2>1 DEF Ready, TurnKnows, StaysHome, ShownOnce, CallPhases, Early
  <2> QED
    BY <1>1, <1>3, <2>2, AskStep
<1>4. CASE slot' = [slot EXCEPT ![s] = GiveUp(slot[s])]
  <2>1. CASE slot[s].phase = "search"
    <3> DEFINE x == GiveUp(slot[s])
    <3>1. Ready(slot[s])
      BY <1>1, <1>2, <2>1 DEF Ready, TurnKnows, StaysHome, ShownOnce, CallPhases, Early, Asking
    <3>2. TurnInv(x) /\ \A p : ~Calls(x, p)
      BY <3>1, GivenUp
    <3>3. slot[s].phase \in PassedPhases /\ slot[s].phase # "expire"
      BY <2>1 DEF PassedPhases
    <3> HIDE DEF x
    <3>4. slot' = [slot EXCEPT ![s] = x]
      BY <1>4 DEF x
    <3> QED
      BY <1>1, <1>2, <3>2, <3>3, <3>4, QuietMove
  <2>2. CASE slot[s].phase # "search"
    <3>1. End(s) /\ slot[s].phase # "expire"
      BY <1>1, <1>4, <2>2 DEF GiveUp, End, CallPhases
    <3> QED
      BY <1>1, <3>1, EndStep
  <2> QED
    BY <2>1, <2>2
<1> QED
  BY <1>1, <1>3, <1>4

-----------------------------------------------------------------------------
(* The theorems                                                            *)

LEMMA ServingInit == Init => ServingInv
<1> SUFFICES ASSUME Init
             PROVE  ServingInv
  OBVIOUS
<1>1. /\ slot = [s \in Slots |-> Idle] /\ breaker = [count |-> 0, ttl |-> FALSE, tripped |-> FALSE]
      /\ used = [p \in Cloud |-> 0] /\ killed = FALSE /\ toggling = FALSE /\ turns = 0
      /\ orphaned = FALSE
  BY DEF Init
<1>a. used \in [Cloud -> Nat] /\ \A p \in Cloud : used[p] = 0
  BY <1>1
<1>b. breaker \in Breaker /\ breaker.count = 0
  BY <1>1 DEF Breaker
<1>c. turns \in 0 .. MaxTurns
  BY <1>1, ServingAssumption
<1>2. Shared
  BY <1>1, <1>a, <1>b, <1>c DEF Shared
<1>3. Idle \in SlotType /\ \A s \in Slots : slot[s] = Idle
  BY <1>1, IdleTurn DEF TurnInv
<1>4. slot \in [Slots -> SlotType]
  BY <1>1, <1>3
<1>5. Passed = {} /\ \A p : Callers(p) = {}
  BY <1>3, IdleTurn DEF Passed, Callers, PassedPhases
<1>6. Cardinality({}) = 0 /\ Cardinality(Slots) \in Nat
  BY ServingAssumption, FS_EmptySet, FS_CardinalityType
<1>7. VelocityInv
  BY <1>1, <1>5, <1>6, ServingAssumption DEF VelocityInv
<1>8. LimitInv
  <2>1. \A p \in Cloud : used[p] + Cardinality(Callers(p)) = 0
    BY <1>a, <1>5, <1>6
  <2>2. 0 <= TokenLimit - 1 + Cardinality(Slots)
    BY <1>6, ServingAssumption
  <2> QED
    BY <2>1, <2>2 DEF LimitInv
<1>9. CounterHasDeadline
  BY <1>1 DEF CounterHasDeadline
<1> QED
  BY <1>2, <1>3, <1>4, <1>7, <1>8, <1>9, IdleTurn DEF ServingInv

LEMMA ServingStep ==
    ASSUME ServingInv, [Next]_vars
    PROVE  ServingInv'
<1>1. CASE UNCHANGED vars
  <2>1. UNCHANGED <<slot, breaker, used, killed, toggling, turns, orphaned>>
    BY <1>1 DEF vars
  <2>2. Shared' /\ VelocityInv' /\ CounterHasDeadline'
    BY <2>1 DEF ServingInv, Shared, VelocityInv, Passed, CounterHasDeadline, At
  <2>3. LimitInv'
    BY <2>1 DEF ServingInv, LimitInv, Callers
  <2> QED
    BY <2>1, <2>2, <2>3 DEF ServingInv
<1>2. ASSUME NEW s \in Slots, process_turn(s) \/ Serve(s) \/ Vanish(s)
      PROVE  ServingInv'
  BY <1>2, ProcessTurnStep, VanishStep, AdmissionStep, SearchStep, AnswerSearchStep, CallStep,
     DeltaStep, AnswerChatStep, AnswerExtractionStep, FailStep, FinalizeStep, IncrementStep,
     ExpireStep
     DEF Serve
<1>3. CASE \/ WindowEnds \/ CooldownEnds \/ Midnight \/ force_trip
           \/ \E active \in BOOLEAN : toggle_kill_switch(active)
  <2>1. UNCHANGED slot
    BY <1>3 DEF WindowEnds, CooldownEnds, Midnight, force_trip, toggle_kill_switch
  <2> QED
    BY <1>3, <2>1, WorldStep
<1> QED
  BY <1>1, <1>2, <1>3 DEF Next

LEMMA ServingHolds == Spec => []ServingInv
<1>1. ServingInv /\ [Next]_vars => ServingInv'
  BY ServingStep
<1> QED
  BY <1>1, ServingInit, PTL DEF Spec

LEMMA InvIsTyped == ServingInv => TypeOK
<1> SUFFICES ASSUME ServingInv
             PROVE  TypeOK
  OBVIOUS
<1>1. \A s \in Slots : Calling(s) => slot[s].provider \in Registered
  BY TurnFacts DEF TurnKnows, Calling, CallPhases
<1>2. slot \in [Slots -> SlotType]
  BY DEF ServingInv
<1> QED
  BY <1>1, <1>2 DEF ServingInv, Shared, Breaker, TypeOK

LEMMA InvKeepsHome == ServingInv => ConsentedOnly
<1> SUFFICES ASSUME ServingInv, NEW s \in Slots, Leaves(s)
             PROVE  /\ slot[s].input.sensitivity # "S4"
                    /\ slot[s].input.sensitivity = "S3" =>
                         IF At(s, "chat") THEN slot[s].input.allow_s3_cloud_fallback
                         ELSE ~At(s, "extract") /\ slot[s].input.allow_s3_live_web
  BY DEF ConsentedOnly
<1>1. TurnKnows(slot[s])
  BY TurnFacts
<1>2. \A p \in Cloud : p \notin Local
  BY DEF Cloud, Local
<1>3. CASE slot[s].phase \in {"search", "connector"}
  BY <1>1, <1>3 DEF TurnKnows, searches, At
<1>4. CASE slot[s].phase \in {"chat", "extract"}
  <2>1. slot[s].provider \notin Local
    BY <1>2, <1>4 DEF Leaves, At
  <2>2. ~(slot[s].enforced /\ LocalOnly(slot[s].input.sensitivity))
    BY <1>1, <1>4, <2>1 DEF TurnKnows, StaysHome, Asking
  <2> QED
    BY <1>1, <1>4, <2>2 DEF TurnKnows, LocalOnly, enforce_local, At
<1> QED
  BY <1>3, <1>4 DEF Leaves, Calling, At

LEMMA InvIsOneVoice == ServingInv => OneVoice
<1> SUFFICES ASSUME ServingInv, NEW s \in Slots
             PROVE  slot[s].shown \subseteq {IF At(s, "chat") THEN slot[s].provider
                                             ELSE slot[s].answer}
  BY DEF OneVoice
<1> QED
  BY TurnFacts DEF ShownOnce, At

LEMMA InvBoundsSpending == ServingInv => SpendingBounded
<1> SUFFICES ASSUME ServingInv
             PROVE  VelocityBound /\ CounterHasDeadline /\ DailyLimit
  BY DEF SpendingBounded
<1>1. /\ used \in [Cloud -> Nat] /\ breaker.count \in Nat /\ CounterHasDeadline
      /\ MaxActions \in Nat \ {0} /\ TokenLimit \in Nat \ {0}
  BY SharedFacts, ServingAssumption
<1>2. Cardinality(Slots) \in Nat
  BY ServingAssumption, FS_CardinalityType
<1>3. VelocityBound
  <2>1. breaker.count + Cardinality(Passed) <= MaxActions - 1 + Cardinality(Slots)
        /\ Cardinality(Passed) \in Nat
    BY Sizes DEF ServingInv, VelocityInv, Passed
  <2> QED
    BY <1>1, <1>2, <2>1 DEF VelocityBound
<1>4. DailyLimit
  <2> SUFFICES ASSUME NEW p \in Cloud
               PROVE  used[p] <= TokenLimit - 1 + Cardinality(Slots)
    BY DEF DailyLimit
  <2>1. used[p] + Cardinality(Callers(p)) <= TokenLimit - 1 + Cardinality(Slots)
        /\ Cardinality(Callers(p)) \in Nat
    BY Sizes DEF ServingInv, LimitInv, Callers
  <2> QED
    BY <1>1, <1>2, <2>1
<1> QED
  BY <1>1, <1>3, <1>4

\* Over every fallback, every failure and every interleaving of any number of
\* requests: what is S4 reaches no cloud provider and no search, what is S3 only
\* with the consent for it, and what the user has read of a streamed answer is
\* part of the answer that is kept (LLMRouter.route, route_stream).
THEOREM RoutingStaysSound == Spec => []RoutingIsSound
<1>1. ServingInv => RoutingIsSound
  BY InvIsTyped, InvKeepsHome, InvIsOneVoice DEF RoutingIsSound
<1> QED
  BY <1>1, ServingHolds, PTL

\* Breaker and token tracker are checked before a call and raised after it; the
\* overshoot is never more than the requests that are in flight at once, and a
\* counter that has started gets its deadline unless its process died between
\* INCR and EXPIRE (CircuitBreakerService, TokenUsageTracker).
THEOREM SpendingIsCapped == Spec => []SpendingBounded
<1>1. ServingInv => SpendingBounded
  BY InvBoundsSpending
<1> QED
  BY <1>1, ServingHolds, PTL

-----------------------------------------------------------------------------
(* PromptAssembly: orders, sums and selections                             *)

\* A set of naturals has a least one, and Min returns it.
LEMMA MinIsLeast ==
    ASSUME NEW S \in SUBSET Nat, S # {}
    PROVE  Min(S) \in S /\ \A y \in S : Min(S) <= y
<1>1. PICK least \in S : \A y \in S : ~(<<y, least>> \in OpToRel(<, Nat))
  BY WFMin, NatLessThanWellFounded
<1>2. \A y \in S : least <= y
  <2> SUFFICES ASSUME NEW y \in S PROVE least <= y
    OBVIOUS
  <2>1. ~(y < least)
    BY <1>1 DEF OpToRel
  <2> QED
    BY <2>1
<1> QED
  BY <1>2 DEF Min

\* The image of a finite set is finite.
LEMMA FiniteImages ==
    ASSUME NEW S, IsFiniteSet(S), NEW L
    PROVE  IsFiniteSet({L[x] : x \in S})
<1> DEFINE T == {L[x] : x \in S}
           f == [x \in S |-> L[x]]
<1>1. f \in Surjection(S, T)
  BY DEF Surjection
<1> HIDE DEF f, T
<1>2. IsFiniteSet(T)
  BY <1>1, FS_Surjection
<1> QED
  BY <1>2 DEF T

LEMMA FiniteParts ==
    ASSUME NEW S, IsFiniteSet(S), NEW L, \A x \in S : IsFiniteSet(L[x])
    PROVE  IsFiniteSet(UNION {L[x] : x \in S})
<1> DEFINE T == {L[x] : x \in S}
<1>1. IsFiniteSet(T)
  BY FiniteImages
<1>2. \A t \in T : IsFiniteSet(t)
  OBVIOUS
<1> HIDE DEF T
<1>3. IsFiniteSet(UNION T)
  BY <1>1, <1>2, FS_UNION
<1> QED
  BY <1>3 DEF T

\* R puts the members of S in line.
InLine(S, R) ==
    /\ \A x \in S : <<x, x>> \notin R
    /\ \A x, y, z \in S : <<x, y>> \in R /\ <<y, z>> \in R => <<x, z>> \in R
    /\ \A x, y \in S : x = y \/ <<x, y>> \in R \/ <<y, x>> \in R

LEMMA LastInLine ==
    ASSUME NEW S, IsFiniteSet(S), S # {}, NEW R, InLine(S, R)
    PROVE  \E e \in S : \A x \in S \ {e} : <<x, e>> \in R
<1> DEFINE Before(e) == {x \in S : <<x, e>> \in R}
           B == {Cardinality(S) - Cardinality(Before(e)) : e \in S}
<1>1. \A e \in S : IsFiniteSet(Before(e)) /\ Cardinality(Before(e)) \in Nat
                   /\ Cardinality(Before(e)) <= Cardinality(S)
  BY FS_Subset, FS_CardinalityType
<1>2. Cardinality(S) \in Nat
  BY FS_CardinalityType
<1>3. B \subseteq Nat /\ B # {}
  <2>1. \A e \in S : Cardinality(S) - Cardinality(Before(e)) \in Nat
    <3> HIDE DEF Before
    <3> QED
      BY <1>1, <1>2
  <2> HIDE DEF Before
  <2> QED
    BY <2>1
<1>4. PICK e \in S : Min(B) = Cardinality(S) - Cardinality(Before(e))
  <2>1. Min(B) \in B
    <3> HIDE DEF B
    <3> QED
      BY <1>3, MinIsLeast
  <2> QED
    BY <2>1
<1>5. \A x \in S : Cardinality(Before(x)) <= Cardinality(Before(e))
  <2> SUFFICES ASSUME NEW x \in S PROVE Cardinality(Before(x)) <= Cardinality(Before(e))
    OBVIOUS
  <2>1. Cardinality(S) - Cardinality(Before(x)) \in B
    OBVIOUS
  <2>2. Min(B) <= Cardinality(S) - Cardinality(Before(x))
    <3> HIDE DEF B, Before
    <3> QED
      BY <1>3, <2>1, MinIsLeast
  <2> HIDE DEF B, Before
  <2> QED
    BY <1>1, <1>2, <1>4, <2>2
<1>6. \A x \in S \ {e} : <<x, e>> \in R
  <2> SUFFICES ASSUME NEW x \in S \ {e}, <<x, e>> \notin R PROVE FALSE
    OBVIOUS
  <2>1. <<e, x>> \in R
    BY DEF InLine
  <2>2. Before(e) \subseteq Before(x)
    BY <2>1 DEF InLine
  <2>3. e \in Before(x) /\ e \notin Before(e)
    BY <2>1 DEF InLine
  <2> HIDE DEF Before
  <2>4. Cardinality(Before(e)) <= Cardinality(Before(x))
    BY <1>1, <2>2, FS_Subset
  <2>5. Cardinality(Before(e)) = Cardinality(Before(x))
    BY <1>1, <1>5, <2>4
  <2>6. Before(e) = Before(x)
    BY <1>1, <2>2, <2>5, FS_Subset
  <2> QED
    BY <2>3, <2>6
<1> QED
  BY <1>6

LEMMA FirstInLine ==
    ASSUME NEW S, IsFiniteSet(S), S # {}, NEW R, InLine(S, R)
    PROVE  \E e \in S : \A x \in S \ {e} : <<e, x>> \in R
<1> DEFINE Q == {p \in S \X S : <<p[2], p[1]>> \in R}
<1>1. \A x, y \in S : <<x, y>> \in Q <=> <<y, x>> \in R
  OBVIOUS
<1>2. InLine(S, Q)
  <2> HIDE DEF Q
  <2> QED
    BY <1>1 DEF InLine
<1>3. PICK e \in S : \A x \in S \ {e} : <<x, e>> \in Q
  <2> HIDE DEF Q
  <2> QED
    BY <1>2, LastInLine
<1> QED
  BY <1>1, <1>3

\* The lines of a selection, and what a loop has seen before it comes to e.
All(L, S) == UNION {L[x] : x \in S}
Before(R, S, e) == {y \in S : <<y, e>> \in R}

\* The lines of a selection are no more than those of its members.
LEMMA OneMore ==
    ASSUME NEW S, IsFiniteSet(S), NEW e \in S, NEW L, \A x \in S : IsFiniteSet(L[x])
    PROVE  /\ Cardinality(All(L, S)) \in Nat
           /\ Cardinality(All(L, S \ {e})) \in Nat
           /\ Cardinality(L[e]) \in Nat
           /\ Cardinality(All(L, S))
                <= Cardinality(All(L, S \ {e})) + Cardinality(L[e])
<1> DEFINE A == All(L, S \ {e})
<1>1. IsFiniteSet(S \ {e})
  BY FS_Subset
<1>2. IsFiniteSet(A) /\ IsFiniteSet(All(L, S))
  BY <1>1, FiniteParts DEF All
<1>3. All(L, S) = A \union L[e]
  BY DEF All
<1> HIDE DEF A
<1>4. IsFiniteSet(L[e])
  OBVIOUS
<1>5. /\ Cardinality(A \union L[e]) = Cardinality(A) + Cardinality(L[e]) - Cardinality(A \intersect L[e])
      /\ IsFiniteSet(A \intersect L[e])
  BY <1>2, <1>4, FS_Union, FS_Intersection
<1>6. Cardinality(A) \in Nat /\ Cardinality(L[e]) \in Nat /\ Cardinality(A \intersect L[e]) \in Nat
  BY <1>2, <1>4, <1>5, FS_CardinalityType
<1>7. Cardinality(All(L, S)) \in Nat
  BY <1>2, FS_CardinalityType
<1>8. Cardinality(A \union L[e]) <= Cardinality(A) + Cardinality(L[e])
  BY <1>5, <1>6
<1>9. Cardinality(All(L, S)) <= Cardinality(A) + Cardinality(L[e])
  BY <1>3, <1>8
<1> QED
  BY <1>6, <1>7, <1>9 DEF A

\* Fewer members have no more lines.
LEMMA FewerLines ==
    ASSUME NEW S, IsFiniteSet(S), NEW T \in SUBSET S, NEW L, \A x \in S : IsFiniteSet(L[x])
    PROVE  /\ Cardinality(All(L, T)) \in Nat
           /\ Cardinality(All(L, S)) \in Nat
           /\ Cardinality(All(L, T)) <= Cardinality(All(L, S))
<1>1. IsFiniteSet(All(L, S))
  BY FiniteParts DEF All
<1>2. All(L, T) \subseteq All(L, S)
  BY DEF All
<1> QED
  BY <1>1, <1>2, FS_Subset, FS_CardinalityType

\* A loop over S in the order R that takes what still fits keeps the budget.
LEMMA TakingKeepsBudget ==
    ASSUME NEW S, IsFiniteSet(S), NEW R, InLine(S, R), NEW L, \A x \in S : IsFiniteSet(L[x]),
           NEW budget \in Nat,
           \A e \in S : Cardinality(All(L, Before(R, S, e)))
                            + Cardinality(L[e]) <= budget
    PROVE  Cardinality(All(L, S)) <= budget
<1>1. CASE S = {}
  <2>1. All(L, S) = {}
    BY <1>1 DEF All
  <2> QED
    BY <2>1, FS_EmptySet
<1>2. CASE S # {}
  <2>1. PICK e \in S : \A x \in S \ {e} : <<x, e>> \in R
    BY <1>2, LastInLine
  <2>2. Before(R, S, e) = S \ {e}
    BY <2>1 DEF InLine, Before
  <2>3. Cardinality(All(L, S \ {e})) + Cardinality(L[e]) <= budget
    BY <2>2
  <2> QED
    BY <2>3, OneMore
<1> QED
  BY <1>1, <1>2

-----------------------------------------------------------------------------
(* PromptAssembly: the tables                                              *)

LEMMA Members ==
    ASSUME NEW T, NEW s \in Seq(T)
    PROVE  /\ Len(s) \in Nat /\ DOMAIN s = 1..Len(s)
           /\ \A i \in DOMAIN s : s[i] \in T
OBVIOUS

LEMMA TheLimits ==
    /\ CharLimit \in Nat /\ MaxClaims \in Nat /\ MaxContacts \in Nat /\ MaxMatches \in Nat
    /\ MaxEpisodes \in Nat /\ KnowledgeBudget \in Nat /\ ChunkChars \in Nat
    /\ LaneBudget \in Nat /\ MaxRelations \in Nat
BY PromptAssumption

\* Tables are finite, rows are known by positive numbers.
LEMMA TheTables ==
    /\ IsFiniteSet(DOMAIN Claims) /\ DOMAIN Claims \subseteq Nat \ {0}
    /\ IsFiniteSet(DOMAIN Contacts) /\ DOMAIN Contacts \subseteq Nat \ {0}
    /\ IsFiniteSet(DOMAIN Projects) /\ DOMAIN Projects \subseteq Nat \ {0}
    /\ IsFiniteSet(DOMAIN Files) /\ DOMAIN Files \subseteq Nat \ {0}
    /\ \A terms \in Queries : terms \subseteq Terms /\ IsFiniteSet(terms)
<1>1. \A s : \A T : s \in Seq(T) => Len(s) \in Nat /\ DOMAIN s = 1..Len(s)
  OBVIOUS
<1>2. \A n \in Nat : IsFiniteSet(1..n) /\ 1..n \subseteq Nat \ {0}
  BY FS_Interval
<1>3. Claims \in Seq([sensitivity : Sensitivities, confirmed : BOOLEAN, locked : BOOLEAN,
                       confidence : Nat, lane : {"identity", "preference", "evidence",
                       "authorization", "procedural"}, subject : Terms, terms : SUBSET Terms,
                       size : Nat])
  BY PromptAssumption
<1>4. Contacts \in Seq([sensitivity : Sensitivities, first : Terms, last : Terms,
                         company : Terms, role : Terms, tags : SUBSET Terms])
  BY PromptAssumption
<1>5. Projects \in Seq([sensitivity : Sensitivities])
  BY PromptAssumption
<1>6. Files \in Seq([project : DOMAIN Projects, ok : BOOLEAN,
                      paragraphs : Seq([size : Nat, terms : SUBSET Terms])])
  BY PromptAssumption
<1>7. DOMAIN Claims = 1..Len(Claims) /\ Len(Claims) \in Nat
  BY <1>1, <1>3, Zenon
<1>8. DOMAIN Contacts = 1..Len(Contacts) /\ Len(Contacts) \in Nat
  BY <1>1, <1>4, Zenon
<1>9. DOMAIN Projects = 1..Len(Projects) /\ Len(Projects) \in Nat
  BY <1>1, <1>5, Zenon
<1>10. DOMAIN Files = 1..Len(Files) /\ Len(Files) \in Nat
  BY <1>1, <1>6, Zenon
<1>11. \A terms \in Queries : terms \subseteq Terms /\ IsFiniteSet(terms)
  BY PromptAssumption, FS_Subset
<1> QED
  BY <1>2, <1>7, <1>8, <1>9, <1>10, <1>11

LEMMA ClaimRows ==
    ASSUME NEW c \in DOMAIN Claims
    PROVE  /\ Claims[c].confidence \in Nat /\ Claims[c].size \in Nat
           /\ IsFiniteSet(Claims[c].terms)
<1>1. Claims \in Seq([sensitivity : Sensitivities, confirmed : BOOLEAN, locked : BOOLEAN,
                       confidence : Nat, lane : {"identity", "preference", "evidence",
                       "authorization", "procedural"}, subject : Terms, terms : SUBSET Terms,
                       size : Nat])
  BY PromptAssumption
<1>2. Claims[c] \in [sensitivity : Sensitivities, confirmed : BOOLEAN, locked : BOOLEAN,
                       confidence : Nat, lane : {"identity", "preference", "evidence",
                       "authorization", "procedural"}, subject : Terms, terms : SUBSET Terms,
                       size : Nat]
  <2> DEFINE T == [sensitivity : Sensitivities, confirmed : BOOLEAN, locked : BOOLEAN,
                       confidence : Nat, lane : {"identity", "preference", "evidence",
                       "authorization", "procedural"}, subject : Terms, terms : SUBSET Terms,
                       size : Nat]
  <2> HIDE DEF T
  <2>1. Claims[c] \in T
    BY <1>1, Members DEF T
  <2> QED
    BY <2>1 DEF T
<1>3. Claims[c].terms \in SUBSET Terms
  BY <1>2
<1> QED
  BY <1>2, <1>3, FS_Subset, PromptAssumption

LEMMA FileRows ==
    ASSUME NEW f \in DOMAIN Files
    PROVE  /\ Len(Text(f)) \in Nat /\ DOMAIN Text(f) = 1..Len(Text(f))
           /\ IsFiniteSet(DOMAIN Text(f))
           /\ \A i \in DOMAIN Text(f) : Text(f)[i].size \in Nat /\ Text(f)[i].terms \subseteq Terms
<1> DEFINE Paragraph == [size : Nat, terms : SUBSET Terms]
<1>1. Files \in Seq([project : DOMAIN Projects, ok : BOOLEAN, paragraphs : Seq(Paragraph)])
  BY PromptAssumption
<1> HIDE DEF Paragraph
<1>2. Files[f] \in [project : DOMAIN Projects, ok : BOOLEAN, paragraphs : Seq(Paragraph)]
  <2> DEFINE T == [project : DOMAIN Projects, ok : BOOLEAN, paragraphs : Seq(Paragraph)]
  <2> HIDE DEF T
  <2>1. Files[f] \in T
    BY <1>1, Members DEF T
  <2> QED
    BY <2>1 DEF T
<1>3. Text(f) \in Seq(Paragraph)
  BY <1>2 DEF Text
<1>4. Len(Text(f)) \in Nat /\ DOMAIN Text(f) = 1..Len(Text(f))
  BY <1>3, Members
<1>5. \A i \in DOMAIN Text(f) : Text(f)[i] \in Paragraph
  BY <1>3, Members
<1>6. \A i \in DOMAIN Text(f) : Text(f)[i].size \in Nat /\ Text(f)[i].terms \subseteq Terms
  BY <1>5 DEF Paragraph
<1>7. IsFiniteSet(DOMAIN Text(f))
  BY <1>4, FS_Interval
<1> QED
  BY <1>4, <1>6, <1>7

-----------------------------------------------------------------------------
(* PromptAssembly: excerpts                                                *)

\* An excerpt of a file that can be read.
IsExcerpt(e) == e.file \in DOMAIN Files /\ e.first \in Nat /\ e.last \in Nat

LEMMA LinesAreFinite ==
    ASSUME NEW e, IsExcerpt(e)
    PROVE  IsFiniteSet(Lines(e)) /\ IsFiniteSet(Within(e)) /\ IsFiniteSet(TermsOf(e))
<1> DEFINE f == e.file
           Part(i) == {<<f, i, n>> : n \in 1..Text(f)[i].size}
           L == [i \in Within(e) |-> Part(i)]
           W == [i \in Within(e) |-> Text(f)[i].terms]
<1>1. f \in DOMAIN Files
  BY DEF IsExcerpt
<1>2. Within(e) \subseteq DOMAIN Text(f) /\ IsFiniteSet(Within(e))
  BY <1>1, FileRows, FS_Subset DEF Within
<1>3. \A i \in Within(e) : IsFiniteSet(Part(i))
  <2> SUFFICES ASSUME NEW i \in Within(e) PROVE IsFiniteSet(Part(i))
    OBVIOUS
  <2> DEFINE N == 1..Text(f)[i].size
             g == [n \in N |-> <<f, i, n>>]
  <2>1. IsFiniteSet(N)
    <3>1. Text(f)[i].size \in Nat
      BY <1>1, <1>2, FileRows
    <3> HIDE DEF f
    <3> QED
      BY <3>1, FS_Interval
  <2>2. IsFiniteSet({g[n] : n \in N})
    <3> HIDE DEF g, N
    <3> QED
      BY <2>1, FiniteImages
  <2>3. {g[n] : n \in N} = Part(i)
    OBVIOUS
  <2> QED
    BY <2>2, <2>3
<1>4. \A i \in Within(e) : IsFiniteSet(L[i])
  <2> HIDE DEF Part
  <2> QED
    BY <1>3
<1>5. IsFiniteSet(UNION {L[i] : i \in Within(e)})
  <2> HIDE DEF L
  <2> QED
    BY <1>2, <1>4, FiniteParts
<1>6. UNION {L[i] : i \in Within(e)} = Lines(e)
  BY DEF Lines
<1>7. \A i \in Within(e) : IsFiniteSet(W[i])
  BY <1>1, <1>2, FileRows, FS_Subset, PromptAssumption
<1>8. IsFiniteSet(UNION {W[i] : i \in Within(e)})
  <2> HIDE DEF W
  <2> QED
    BY <1>2, <1>7, FiniteParts
<1>9. UNION {W[i] : i \in Within(e)} = TermsOf(e)
  BY DEF TermsOf
<1> QED
  BY <1>2, <1>5, <1>6, <1>8, <1>9

LEMMA ChunksAreExcerpts ==
    ASSUME NEW p \in DOMAIN Projects
    PROVE  /\ IsFiniteSet(Chunks[p])
           /\ Chunks[p] \subseteq [file : DOMAIN Files, first : Nat, last : Nat]
           /\ \A e \in Chunks[p] :
                 /\ IsExcerpt(e) /\ e.first \in DOMAIN Text(e.file) /\ e.last \in DOMAIN Text(e.file)
                 /\ e = Excerpt(e.file, e.first, e.last)
                 /\ Within(e) \intersect _chunk_text[e.file] = {e.first}
                 /\ e.last + 1 \in _chunk_text[e.file] \union {Len(Text(e.file)) + 1}
<1> DEFINE X == [f \in Readable(p) |-> Excerpts(f)]
<1>1. IsFiniteSet(Readable(p)) /\ Readable(p) \subseteq DOMAIN Files
  BY TheTables, FS_Subset DEF Readable
<1>2. \A f \in Readable(p) : IsFiniteSet(Excerpts(f))
  <2> SUFFICES ASSUME NEW f \in Readable(p) PROVE IsFiniteSet(Excerpts(f))
    OBVIOUS
  <2> DEFINE D == DOMAIN Text(f)
             g == [q \in D \X D |-> Excerpt(f, q[1], q[2])]
  <2>1. IsFiniteSet(D \X D)
    BY <1>1, FileRows, FS_Product
  <2>2. IsFiniteSet({g[q] : q \in D \X D})
    <3> HIDE DEF g, D
    <3> QED
      BY <2>1, FiniteImages
  <2>3. {g[q] : q \in D \X D} = Excerpts(f)
    <3>1. \A i, j \in D : g[<<i, j>>] = Excerpt(f, i, j)
      OBVIOUS
    <3>2. \A q \in D \X D : \E i, j \in D : q = <<i, j>>
      OBVIOUS
    <3>3. \A e \in Excerpts(f) : e.first \in D /\ e.last \in D /\ e = Excerpt(f, e.first, e.last)
      BY DEF Excerpts, Excerpt
    <3>4. \A i, j \in D : Excerpt(f, i, j) \in Excerpts(f)
      BY DEF Excerpts, Excerpt
    <3> HIDE DEF g, D
    <3>5. \A q \in D \X D : g[q] \in Excerpts(f)
      BY <3>1, <3>2, <3>4
    <3>6. \A e \in Excerpts(f) : \E q \in D \X D : e = g[q]
      <4> SUFFICES ASSUME NEW e \in Excerpts(f) PROVE \E q \in D \X D : e = g[q]
        OBVIOUS
      <4>1. e = g[<<e.first, e.last>>] /\ <<e.first, e.last>> \in D \X D
        BY <3>1, <3>3
      <4> QED
        BY <4>1
    <3> QED
      BY <3>5, <3>6
  <2> QED
    BY <2>2, <2>3
<1>3. IsFiniteSet(UNION {X[f] : f \in Readable(p)})
  <2>1. \A f \in Readable(p) : IsFiniteSet(X[f])
    BY <1>2
  <2> HIDE DEF X
  <2> QED
    BY <1>1, <2>1, FiniteParts
<1>4. Chunks[p] \subseteq UNION {X[f] : f \in Readable(p)}
  BY DEF Chunks
<1>5. \A e \in Chunks[p] : \E f \in Readable(p) : e \in Excerpts(f)
  BY DEF Chunks
<1>6. \A f \in DOMAIN Files : \A e \in Excerpts(f) :
        /\ e.file = f /\ e.first \in DOMAIN Text(f) /\ e.last \in DOMAIN Text(f)
        /\ e = Excerpt(f, e.first, e.last)
  BY DEF Excerpts, Excerpt
<1>7. \A e \in Chunks[p] :
        /\ e.file \in DOMAIN Files /\ e.first \in DOMAIN Text(e.file)
        /\ e.last \in DOMAIN Text(e.file) /\ e = Excerpt(e.file, e.first, e.last)
  BY <1>1, <1>5, <1>6
<1>8. \A f \in DOMAIN Files : DOMAIN Text(f) \subseteq Nat
  BY FileRows
<1>9. \A e \in Chunks[p] :
        /\ Within(e) \intersect _chunk_text[e.file] = {e.first}
        /\ e.last + 1 \in _chunk_text[e.file] \union {Len(Text(e.file)) + 1}
  BY DEF Chunks
<1>10. \A e \in Chunks[p] : IsExcerpt(e)
  BY <1>7, <1>8 DEF IsExcerpt
<1>11. Chunks[p] \subseteq [file : DOMAIN Files, first : Nat, last : Nat]
  BY <1>7, <1>8 DEF Excerpt
<1> QED
  BY <1>3, <1>4, <1>7, <1>9, <1>10, <1>11, FS_Subset

\* A chunk is known by its file and its first paragraph.
LEMMA ChunkByFirst ==
    ASSUME NEW p \in DOMAIN Projects, NEW e \in Chunks[p], NEW g \in Chunks[p],
           e.file = g.file, e.first = g.first, e.last < g.last
    PROVE  FALSE
<1> DEFINE f == e.file
<1>1. /\ f \in DOMAIN Files /\ e.first \in DOMAIN Text(f) /\ e.last \in DOMAIN Text(f)
      /\ g.last \in DOMAIN Text(f)
      /\ Within(e) \intersect _chunk_text[f] = {e.first}
      /\ Within(g) \intersect _chunk_text[f] = {e.first}
      /\ e.last + 1 \in _chunk_text[f] \union {Len(Text(f)) + 1}
  BY ChunksAreExcerpts DEF IsExcerpt
<1>2. Len(Text(f)) \in Nat /\ DOMAIN Text(f) = 1..Len(Text(f))
  BY <1>1, FileRows
<1>3. e.first \in Within(e)
  BY <1>1
<1>4. e.first <= e.last
  BY <1>3 DEF Within
<1>5. e.last + 1 \in DOMAIN Text(f) /\ e.last + 1 <= g.last /\ g.first <= e.last + 1
  BY <1>1, <1>2, <1>4
<1>6. e.last + 1 \in Within(g)
  BY <1>5 DEF Within
<1>7. e.last + 1 \in _chunk_text[f]
  BY <1>1, <1>2, <1>5
<1>8. e.last + 1 = e.first
  BY <1>1, <1>6, <1>7
<1> QED
  BY <1>1, <1>2, <1>4, <1>8

-----------------------------------------------------------------------------
(* PromptAssembly: excerpts under their budget                             *)

\* Fractions without division: >= is transitive, and strict if a part is.
LEMMA Fractions ==
    ASSUME NEW a \in Nat, NEW b \in Nat \ {0}, NEW c \in Nat, NEW d \in Nat \ {0},
           NEW e \in Nat, NEW f \in Nat \ {0}, a * d >= c * b, c * f >= e * d
    PROVE  a * f >= e * b /\ (a * d > c * b \/ c * f > e * d => a * f > e * b)
<1>1. (a * d) * f >= (c * b) * f /\ (c * f) * b >= (e * d) * b
  OBVIOUS
<1>2. (a * f) * d >= (e * b) * d
  BY <1>1
<1>3. a * d > c * b \/ c * f > e * d => (a * f) * d > (e * b) * d
  <2>1. a * d > c * b => (a * d) * f > (c * b) * f
    OBVIOUS
  <2>2. c * f > e * d => (c * f) * b > (e * d) * b
    OBVIOUS
  <2> QED
    BY <1>1, <2>1, <2>2
<1>4. a * f >= e * b
  BY <1>2
<1>5. (a * f) * d > (e * b) * d => a * f > e * b
  OBVIOUS
<1> QED
  BY <1>3, <1>4, <1>5

LEMMA Relevance ==
    ASSUME NEW p \in DOMAIN Projects, NEW terms \in Queries, NEW e \in Chunks[p]
    PROVE  _relevance[e][terms].num \in Nat /\ _relevance[e][terms].den \in Nat \ {0}
<1> DEFINE overlap == Cardinality(TermsOf(e) \intersect terms)
<1>1. _relevance[e][terms]
        = [num |-> overlap * overlap,
           den |-> IF TermsOf(e) = {} THEN 1 ELSE Cardinality(TermsOf(e))]
  BY DEF _relevance
<1>2. IsFiniteSet(TermsOf(e))
  BY ChunksAreExcerpts, LinesAreFinite
<1>3. overlap \in Nat
  BY <1>2, FS_Intersection, FS_CardinalityType
<1>4. Cardinality(TermsOf(e)) \in Nat /\ (TermsOf(e) # {} => Cardinality(TermsOf(e)) # 0)
  BY <1>2, FS_CardinalityType, FS_EmptySet
<1>5. overlap * overlap \in Nat
  BY <1>3
<1> HIDE DEF overlap
<1> QED
  BY <1>1, <1>4, <1>5

\* Chunks are put in line by relevance and place.
LEMMA ChunksInLine ==
    ASSUME NEW p \in DOMAIN Projects, NEW terms \in Queries, NEW S \in SUBSET Chunks[p]
    PROVE  InLine(S, {q \in S \X S : Ranked(q[1], q[2], terms)})
<1> DEFINE num(e) == _relevance[e][terms].num
           den(e) == _relevance[e][terms].den
           Earlier(e, g) == e.file < g.file \/ (e.file = g.file /\ e.first < g.first)
<1>1. \A e \in S : num(e) \in Nat /\ den(e) \in Nat \ {0}
  BY Relevance
<1>2. \A e, g \in S : MoreRelevant(e, g, terms) <=> num(e) * den(g) > num(g) * den(e)
  BY DEF MoreRelevant
<1>3. \A e, g \in S : Ranked(e, g, terms) <=>
         \/ MoreRelevant(e, g, terms)
         \/ ~MoreRelevant(g, e, terms) /\ Earlier(e, g)
  BY DEF Ranked
<1>4. \A e \in S : e.file \in Nat /\ e.first \in Nat
  BY ChunksAreExcerpts, TheTables DEF IsExcerpt
<1>5. \A e, g \in S : num(e) * den(g) \in Nat
  BY <1>1
<1>6. \A e, g \in S : Ranked(e, g, terms) <=>
         /\ num(e) * den(g) >= num(g) * den(e)
         /\ num(e) * den(g) > num(g) * den(e) \/ Earlier(e, g)
  <2> HIDE DEF num, den, Earlier
  <2> QED
    BY <1>2, <1>3, <1>5
<1>7. \A x \in S : ~Ranked(x, x, terms)
  <2>1. \A x \in S : ~Earlier(x, x)
    BY <1>4
  <2> HIDE DEF num, den, Earlier
  <2> QED
    BY <1>5, <1>6, <2>1
<1>8. \A x, y, z \in S : Ranked(x, y, terms) /\ Ranked(y, z, terms) => Ranked(x, z, terms)
  <2> SUFFICES ASSUME NEW x \in S, NEW y \in S, NEW z \in S,
                      Ranked(x, y, terms), Ranked(y, z, terms)
               PROVE  Ranked(x, z, terms)
    OBVIOUS
  <2>1. Earlier(x, y) /\ Earlier(y, z) => Earlier(x, z)
    BY <1>4
  <2> HIDE DEF num, den, Earlier
  <2>2. /\ num(x) * den(z) >= num(z) * den(x)
        /\ num(x) * den(y) > num(y) * den(x) \/ num(y) * den(z) > num(z) * den(y)
             => num(x) * den(z) > num(z) * den(x)
    BY <1>1, <1>6, Fractions
  <2> QED
    BY <1>6, <2>1, <2>2
<1>9. \A x, y \in S : x = y \/ Ranked(x, y, terms) \/ Ranked(y, x, terms)
  <2> SUFFICES ASSUME NEW x \in S, NEW y \in S, x # y
               PROVE  Ranked(x, y, terms) \/ Ranked(y, x, terms)
    OBVIOUS
  <2>1. Earlier(x, y) \/ Earlier(y, x)
    <3>1. x.file = y.file /\ x.first = y.first => x.last = y.last
      <4>1. x.last \in Nat /\ y.last \in Nat
        BY ChunksAreExcerpts DEF IsExcerpt
      <4> QED
        BY <4>1, ChunkByFirst
    <3>2. x = Excerpt(x.file, x.first, x.last) /\ y = Excerpt(y.file, y.first, y.last)
      BY ChunksAreExcerpts
    <3>3. x.file # y.file \/ x.first # y.first
      BY <3>1, <3>2
    <3> QED
      BY <1>4, <3>3
  <2> HIDE DEF num, den, Earlier
  <2> QED
    BY <1>5, <1>6, <2>1
<1> DEFINE R == {q \in S \X S : Ranked(q[1], q[2], terms)}
<1>10. \A x, y \in S : <<x, y>> \in R <=> Ranked(x, y, terms)
  OBVIOUS
<1> HIDE DEF R
<1>11. InLine(S, R)
  BY <1>7, <1>8, <1>9, <1>10 DEF InLine
<1> QED
  BY <1>11 DEF R

LEMMA Lengths ==
    ASSUME NEW p \in DOMAIN Projects, NEW S \in SUBSET Chunks[p], NEW T \in SUBSET S
    PROVE  Length(S) \in Nat /\ Length(T) \in Nat /\ Length(T) <= Length(S)
<1> DEFINE L == [e \in S |-> Lines(e)]
<1>1. IsFiniteSet(S) /\ \A e \in S : IsFiniteSet(L[e])
  BY ChunksAreExcerpts, LinesAreFinite, FS_Subset
<1>2. {L[e] : e \in S} = {Lines(e) : e \in S} /\ {L[e] : e \in T} = {Lines(e) : e \in T}
  OBVIOUS
<1> HIDE DEF L
<1>3. /\ Cardinality(All(L, T)) \in Nat
      /\ Cardinality(All(L, S)) \in Nat
      /\ Cardinality(All(L, T)) <= Cardinality(All(L, S))
  BY <1>1, FewerLines
<1> QED
  BY <1>2, <1>3 DEF Length, All

\* The file knowledge of a workspace keeps its budget and wastes none of it.
LEMMA KnowledgeIsSelected ==
    ASSUME NEW p \in DOMAIN Projects, NEW terms \in Queries,
           NEW selected \in _select_knowledge[p][terms]
    PROVE  /\ selected \subseteq [file : DOMAIN Files, first : Nat, last : Nat]
           /\ Length(selected) <= KnowledgeBudget
           /\ Length(Whole[p]) <= KnowledgeBudget => selected = Whole[p]
           /\ Length(Whole[p]) > KnowledgeBudget =>
                 \A e \in Chunks[p] \ selected :
                    Length(selected) + Length({e}) > KnowledgeBudget
<1>1. _select_knowledge[p][terms] =
        IF Length(Whole[p]) <= KnowledgeBudget THEN {Whole[p]}
        ELSE {s \in SUBSET Chunks[p] :
                 \A e \in Chunks[p] : e \in s <=> Fits(e, s, terms)}
  BY DEF _select_knowledge
<1>2. Length(Whole[p]) \in Nat
  <2>1. Whole[p] = {Excerpt(f, 1, Len(Text(f))) : f \in Readable(p)}
    BY DEF Whole
  <2>2. IsFiniteSet(Readable(p)) /\ Readable(p) \subseteq DOMAIN Files
    BY TheTables, FS_Subset DEF Readable
  <2> DEFINE L == [f \in Readable(p) |-> Lines(Excerpt(f, 1, Len(Text(f))))]
  <2>3. \A f \in Readable(p) : IsFiniteSet(L[f])
    <3> SUFFICES ASSUME NEW f \in Readable(p)
                 PROVE  IsFiniteSet(Lines(Excerpt(f, 1, Len(Text(f)))))
      OBVIOUS
    <3>1. IsExcerpt(Excerpt(f, 1, Len(Text(f))))
      BY <2>2, FileRows DEF IsExcerpt, Excerpt
    <3> QED
      BY <3>1, LinesAreFinite
  <2>4. {Lines(e) : e \in Whole[p]} = {L[f] : f \in Readable(p)}
    BY <2>1
  <2> HIDE DEF L
  <2>5. IsFiniteSet(UNION {L[f] : f \in Readable(p)})
    BY <2>2, <2>3, FiniteParts
  <2> QED
    BY <2>4, <2>5, FS_CardinalityType DEF Length
<1>3. Whole[p] \subseteq [file : DOMAIN Files, first : Nat, last : Nat]
  BY FileRows DEF Whole, Readable, Excerpt
<1>4. CASE Length(Whole[p]) <= KnowledgeBudget
  <2>1. selected = Whole[p]
    BY <1>1, <1>4
  <2> QED
    BY <1>2, <1>3, <1>4, <2>1, TheLimits
<1>5. CASE Length(Whole[p]) > KnowledgeBudget
  <2>1. /\ selected \in SUBSET Chunks[p]
        /\ \A e \in Chunks[p] : e \in selected <=> Fits(e, selected, terms)
    BY <1>1, <1>2, <1>5, TheLimits
  <2>2. selected \subseteq [file : DOMAIN Files, first : Nat, last : Nat]
    BY <2>1, ChunksAreExcerpts
  <2> DEFINE R == {q \in selected \X selected : Ranked(q[1], q[2], terms)}
             L == [e \in selected |-> Lines(e)]
  <2>3. InLine(selected, R)
    BY <2>1, ChunksInLine
  <2>4. IsFiniteSet(selected) /\ \A e \in selected : IsFiniteSet(L[e])
    BY <2>1, ChunksAreExcerpts, LinesAreFinite, FS_Subset
  <2>5. \A S \in SUBSET selected : Length(S) = Cardinality(All(L, S))
    <3>1. \A S \in SUBSET selected : {L[x] : x \in S} = {Lines(x) : x \in S}
      OBVIOUS
    <3> HIDE DEF L
    <3> QED
      BY <3>1 DEF Length, All
  <2>6. \A e \in selected : /\ Ahead(e, selected, terms) = Before(R, selected, e)
                           /\ Length({e}) = Cardinality(L[e])
    <3>1. \A e \in selected : UNION {Lines(x) : x \in {e}} = L[e]
      OBVIOUS
    <3> HIDE DEF L
    <3>2. \A e \in selected : Length({e}) = Cardinality(L[e])
      BY <3>1 DEF Length
    <3> QED
      BY <3>2 DEF Ahead, Before
  <2>7. \A e \in selected : Cardinality(All(L, Before(R, selected, e)))
                               + Cardinality(L[e]) <= KnowledgeBudget
    <3> SUFFICES ASSUME NEW e \in selected
                 PROVE  Cardinality(All(L, Before(R, selected, e)))
                            + Cardinality(L[e]) <= KnowledgeBudget
      OBVIOUS
    <3>1. Length(Ahead(e, selected, terms)) + Length({e}) <= KnowledgeBudget
      BY <2>1 DEF Fits
    <3>2. Length(Ahead(e, selected, terms))
            = Cardinality(All(L, Before(R, selected, e)))
      <4> HIDE DEF L, R
      <4> QED
        BY <2>5, <2>6 DEF Before
    <3> HIDE DEF L, R
    <3> QED
      BY <2>6, <3>1, <3>2
  <2>8. Cardinality(All(L, selected)) <= KnowledgeBudget
    <3>1. IsFiniteSet(selected)
      BY <2>4
    <3>2. \A e \in selected : IsFiniteSet(L[e])
      BY <2>4
    <3>3. KnowledgeBudget \in Nat
      BY TheLimits
    <3> HIDE DEF L, R
    <3> QED
      BY <2>3, <2>7, <3>1, <3>2, <3>3, TakingKeepsBudget
  <2>9. Length(selected) <= KnowledgeBudget
    <3> HIDE DEF L, R
    <3> QED
      BY <2>5, <2>8
  <2>10. \A e \in Chunks[p] \ selected : Length(selected) + Length({e}) > KnowledgeBudget
    <3> SUFFICES ASSUME NEW e \in Chunks[p] \ selected
                 PROVE  Length(selected) + Length({e}) > KnowledgeBudget
      OBVIOUS
    <3>1. ~(Length(Ahead(e, selected, terms)) + Length({e}) <= KnowledgeBudget)
      BY <2>1 DEF Fits
    <3>2. Ahead(e, selected, terms) \subseteq selected
      BY DEF Ahead
    <3>3. /\ Length(Ahead(e, selected, terms)) \in Nat /\ Length(selected) \in Nat
          /\ Length(Ahead(e, selected, terms)) <= Length(selected)
      BY <2>1, <3>2, Lengths
    <3>4. Length({e}) \in Nat
      BY Lengths
    <3> QED
      BY <3>1, <3>3, <3>4, TheLimits
  <2> QED
    BY <1>2, <1>5, <2>2, <2>9, <2>10, TheLimits
<1> QED
  BY <1>2, <1>4, <1>5, TheLimits

-----------------------------------------------------------------------------
(* PromptAssembly: claims under their budgets                              *)

LEMMA Scores ==
    ASSUME NEW terms \in Queries, NEW c \in DOMAIN Claims
    PROVE  score_candidate[terms][c] \in Nat
<1> DEFINE n == Cardinality(terms)
           overlap == Cardinality(terms \intersect Claims[c].terms)
           bonus == IF Claims[c].subject \in terms THEN 1 ELSE 0
<1>1. score_candidate[terms][c] =
        IF overlap = 0 /\ bonus = 0 THEN 0
        ELSE 4 * n * overlap + 2 * overlap + n * Claims[c].confidence + 2 * n * bonus
  BY DEF score_candidate
<1>2. n \in Nat /\ overlap \in Nat
  BY TheTables, FS_Intersection, FS_CardinalityType
<1>3. bonus \in Nat /\ Claims[c].confidence \in Nat
  BY ClaimRows
<1> HIDE DEF n, overlap, bonus
<1>4. n * overlap \in Nat /\ n * Claims[c].confidence \in Nat /\ n * bonus \in Nat
  BY <1>2, <1>3
<1>5. 4 * n * overlap = 4 * (n * overlap) /\ 2 * n * bonus = 2 * (n * bonus)
  BY <1>2, <1>3
<1> QED
  BY <1>1, <1>2, <1>4, <1>5

\* Claims are put in line by confidence, and by score.
LEMMA ConfidenceInLine ==
    ASSUME NEW S \in SUBSET DOMAIN Claims
    PROVE  /\ \A x \in S : ~MoreConfident(x, x)
           /\ \A x, y, z \in S : MoreConfident(x, y) /\ MoreConfident(y, z) => MoreConfident(x, z)
           /\ \A x, y \in S : x = y \/ MoreConfident(x, y) \/ MoreConfident(y, x)
           /\ InLine(S, {q \in S \X S : MoreConfident(q[1], q[2])})
<1> DEFINE M == {q \in S \X S : MoreConfident(q[1], q[2])}
<1>1. \A x, y \in S : <<x, y>> \in M <=> MoreConfident(x, y)
  OBVIOUS
<1>2. \A c \in S : c \in Nat /\ Claims[c].confidence \in Nat
  BY TheTables, ClaimRows
<1>3. /\ \A x \in S : ~MoreConfident(x, x)
      /\ \A x, y, z \in S : MoreConfident(x, y) /\ MoreConfident(y, z) => MoreConfident(x, z)
      /\ \A x, y \in S : x = y \/ MoreConfident(x, y) \/ MoreConfident(y, x)
  BY <1>2 DEF MoreConfident
<1> HIDE DEF M
<1>4. InLine(S, M)
  BY <1>1, <1>3 DEF InLine
<1> QED
  BY <1>3, <1>4 DEF M

LEMMA ScoresInLine ==
    ASSUME NEW terms \in Queries, NEW S \in SUBSET DOMAIN Claims
    PROVE  InLine(S, {q \in S \X S : rank(terms, q[1], q[2])})
<1> DEFINE R == {q \in S \X S : rank(terms, q[1], q[2])}
           score(c) == score_candidate[terms][c]
<1>1. \A x, y \in S : <<x, y>> \in R <=> rank(terms, x, y)
  OBVIOUS
<1>2. \A c \in S : score(c) \in Nat
  BY Scores
<1>3. \A x, y \in S : rank(terms, x, y) <=>
         \/ score(x) > score(y)
         \/ score(x) = score(y) /\ MoreConfident(x, y)
  BY DEF rank
<1> HIDE DEF R, score
<1>4. /\ \A x \in S : ~rank(terms, x, x)
      /\ \A x, y, z \in S : rank(terms, x, y) /\ rank(terms, y, z) => rank(terms, x, z)
      /\ \A x, y \in S : x = y \/ rank(terms, x, y) \/ rank(terms, y, x)
  <2>1. \A x \in S : ~MoreConfident(x, x)
    BY ConfidenceInLine
  <2>2. \A x, y, z \in S : MoreConfident(x, y) /\ MoreConfident(y, z) => MoreConfident(x, z)
    BY ConfidenceInLine
  <2>3. \A x, y \in S : x = y \/ MoreConfident(x, y) \/ MoreConfident(y, x)
    BY ConfidenceInLine
  <2>4. \A x, y, z \in S : rank(terms, x, y) /\ rank(terms, y, z) => rank(terms, x, z)
    <3> SUFFICES ASSUME NEW x \in S, NEW y \in S, NEW z \in S,
                        rank(terms, x, y), rank(terms, y, z)
                 PROVE  rank(terms, x, z)
      OBVIOUS
    <3>1. score(x) \in Nat /\ score(y) \in Nat /\ score(z) \in Nat
      BY <1>2
    <3>2. /\ score(x) > score(y) \/ (score(x) = score(y) /\ MoreConfident(x, y))
          /\ score(y) > score(z) \/ (score(y) = score(z) /\ MoreConfident(y, z))
      BY <1>3
    <3>3. MoreConfident(x, y) /\ MoreConfident(y, z) => MoreConfident(x, z)
      BY <2>2
    <3>4. score(x) > score(z) \/ (score(x) = score(z) /\ MoreConfident(x, z))
      BY <3>1, <3>2, <3>3
    <3> QED
      BY <1>3, <3>4
  <2>5. \A x, y \in S : x = y \/ rank(terms, x, y) \/ rank(terms, y, x)
    BY <1>2, <1>3, <2>3
  <2>6. \A x \in S : ~rank(terms, x, x)
    BY <1>2, <1>3, <2>1
  <2> QED
    BY <2>4, <2>5, <2>6
<1>5. InLine(S, R)
  BY <1>1, <1>4 DEF InLine
<1> QED
  BY <1>5 DEF R

\* The lines of the claims, one by one.
ClaimLines == [c \in DOMAIN Claims |-> {c} \X (1..Claims[c].size)]
OfLane(S, lane) == {c \in S : Claims[c].lane = lane}

LEMMA ClaimsHaveLines ==
    ASSUME NEW c \in DOMAIN Claims
    PROVE  IsFiniteSet(ClaimLines[c]) /\ Cardinality(ClaimLines[c]) = Claims[c].size
<1>1. Claims[c].size \in Nat
  BY ClaimRows
<1> DEFINE N == 1..Claims[c].size
<1>2. IsFiniteSet(N) /\ Cardinality(N) = Claims[c].size
  BY <1>1, FS_Interval
<1>3. IsFiniteSet({c}) /\ Cardinality({c}) = 1
  BY FS_Singleton
<1>4. ClaimLines[c] = {c} \X N
  BY DEF ClaimLines
<1> HIDE DEF N
<1>5. IsFiniteSet({c} \X N) /\ Cardinality({c} \X N) = 1 * Claims[c].size
  BY <1>2, <1>3, FS_Product
<1> QED
  BY <1>1, <1>4, <1>5

LEMMA SpentOnLines ==
    ASSUME NEW S \in SUBSET DOMAIN Claims, NEW lane
    PROVE  /\ IsFiniteSet(S) /\ IsFiniteSet(OfLane(S, lane)) /\ OfLane(S, lane) \subseteq S
           /\ \A c \in S : IsFiniteSet(ClaimLines[c]) /\ Cardinality(ClaimLines[c]) = Claims[c].size
           /\ Spent(S, lane) = Cardinality(All(ClaimLines, OfLane(S, lane)))
<1>1. IsFiniteSet(S) /\ OfLane(S, lane) \subseteq S
  BY TheTables, FS_Subset DEF OfLane
<1>2. {{c} \X (1..Claims[c].size) : c \in OfLane(S, lane)} = {ClaimLines[c] : c \in OfLane(S, lane)}
  BY <1>1 DEF ClaimLines
<1>3. Spent(S, lane) = Cardinality(UNION {{c} \X (1..Claims[c].size) : c \in OfLane(S, lane)})
  BY DEF Spent, OfLane
<1> QED
  BY <1>1, <1>2, <1>3, FS_Subset, ClaimsHaveLines DEF All

\* More claims spend no less.
LEMMA SpendingMore ==
    ASSUME NEW S \in SUBSET DOMAIN Claims, NEW T \in SUBSET S, NEW lane
    PROVE  Spent(S, lane) \in Nat /\ Spent(T, lane) \in Nat /\ Spent(T, lane) <= Spent(S, lane)
<1>1. OfLane(T, lane) \subseteq OfLane(S, lane)
  BY DEF OfLane
<1>2. T \in SUBSET DOMAIN Claims
  OBVIOUS
<1>3. /\ Spent(S, lane) = Cardinality(All(ClaimLines, OfLane(S, lane)))
      /\ IsFiniteSet(OfLane(S, lane)) /\ \A c \in OfLane(S, lane) : IsFiniteSet(ClaimLines[c])
  BY SpentOnLines
<1>4. Spent(T, lane) = Cardinality(All(ClaimLines, OfLane(T, lane)))
  BY <1>2, SpentOnLines
<1> QED
  BY <1>1, <1>3, <1>4, FewerLines

\* One claim more costs its size at most.
LEMMA SpendingOnOne ==
    ASSUME NEW S \in SUBSET DOMAIN Claims, NEW e \in DOMAIN Claims \ S, NEW lane,
           Claims[e].lane = lane
    PROVE  Spent(S \union {e}, lane) <= Spent(S, lane) + Claims[e].size
<1> DEFINE T == S \union {e}
<1>1. T \in SUBSET DOMAIN Claims
  OBVIOUS
<1>2. OfLane(S, lane) = OfLane(T, lane) \ {e} /\ e \in OfLane(T, lane)
  BY DEF OfLane
<1> HIDE DEF T
<1>3. /\ Spent(T, lane) = Cardinality(All(ClaimLines, OfLane(T, lane)))
      /\ IsFiniteSet(OfLane(T, lane)) /\ \A c \in OfLane(T, lane) : IsFiniteSet(ClaimLines[c])
  BY <1>1, SpentOnLines
<1>4. Spent(S, lane) = Cardinality(All(ClaimLines, OfLane(S, lane)))
  BY SpentOnLines
<1>5. Cardinality(ClaimLines[e]) = Claims[e].size
  BY ClaimsHaveLines
<1> DEFINE X == OfLane(T, lane)
<1>6. IsFiniteSet(X) /\ e \in X /\ \A c \in X : IsFiniteSet(ClaimLines[c])
  BY <1>2, <1>3
<1>7. Cardinality(All(ClaimLines, X))
        <= Cardinality(All(ClaimLines, X \ {e})) + Cardinality(ClaimLines[e])
  <2> HIDE DEF X
  <2> QED
    BY <1>6, OneMore
<1>8. Spent(T, lane) <= Spent(S, lane) + Claims[e].size
  BY <1>2, <1>3, <1>4, <1>5, <1>7
<1> QED
  BY <1>8 DEF T

\* The floor keeps its budget, and stops at a claim that would exceed it.
LEMMA TheFloor ==
    ASSUME NEW candidates \in SUBSET DOMAIN Claims
    PROVE  LET floor == IdentityFloor(candidates)
               identity == OfLane(candidates, "identity")
           IN /\ floor \subseteq identity
              /\ Spent(floor, "identity") <= LaneBudget
              /\ identity # floor =>
                    \E d \in identity \ floor :
                       Spent(floor, "identity") + Claims[d].size > LaneBudget
<1> DEFINE floor == IdentityFloor(candidates)
           identity == OfLane(candidates, "identity")
           Until(c) == {d \in identity : MoreConfident(d, c)} \union {c}
<1>1. floor \subseteq identity /\ identity \subseteq DOMAIN Claims
  BY DEF IdentityFloor, OfLane
<1>2. \A c \in identity : c \in floor <=> Spent(Until(c), "identity") <= LaneBudget
  BY DEF IdentityFloor, OfLane
<1>3. \A c \in identity : Until(c) \in SUBSET DOMAIN Claims
  BY <1>1
<1>4. \A c \in identity : Claims[c].lane = "identity"
  BY DEF OfLane
<1>5. IsFiniteSet(floor) /\ IsFiniteSet(identity)
  BY <1>1, TheTables, FS_Subset
<1>6. \A S \in SUBSET DOMAIN Claims : InLine(S, {q \in S \X S : MoreConfident(q[1], q[2])})
  BY ConfidenceInLine
<1>7. Spent(floor, "identity") <= LaneBudget
  <2>1. CASE floor = {}
    <3>1. floor \in SUBSET DOMAIN Claims
      BY <2>1
    <3>2. All(ClaimLines, OfLane(floor, "identity")) = {}
      BY <2>1 DEF All, OfLane
    <3>3. Cardinality({}) = 0
      BY FS_EmptySet
    <3> HIDE DEF floor
    <3>4. Spent(floor, "identity") = Cardinality(All(ClaimLines, OfLane(floor, "identity")))
      BY <3>1, SpentOnLines
    <3>5. Spent(floor, "identity") = 0
      BY <3>2, <3>3, <3>4
    <3> QED
      BY <3>5, TheLimits
  <2>2. CASE floor # {}
    <3> DEFINE R == {q \in floor \X floor : MoreConfident(q[1], q[2])}
    <3>1. \A x, y \in floor : <<x, y>> \in R <=> MoreConfident(x, y)
      OBVIOUS
    <3>2. InLine(floor, R)
      BY <1>1, <1>6
    <3> HIDE DEF R, floor
    <3>3. PICK e \in floor : \A x \in floor \ {e} : <<x, e>> \in R
      BY <1>5, <2>2, <3>2, LastInLine
    <3>4. floor \subseteq Until(e)
      BY <1>1, <3>1, <3>3
    <3>5. Spent(Until(e), "identity") <= LaneBudget /\ Until(e) \in SUBSET DOMAIN Claims
      BY <1>1, <1>2, <1>3
    <3> HIDE DEF Until
    <3>6. /\ Spent(floor, "identity") \in Nat /\ Spent(Until(e), "identity") \in Nat
          /\ Spent(floor, "identity") <= Spent(Until(e), "identity")
      BY <3>4, <3>5, SpendingMore
    <3> QED
      BY <3>5, <3>6, TheLimits
  <2> QED
    BY <2>1, <2>2
<1>8. ASSUME identity # floor
      PROVE  \E d \in identity \ floor : Spent(floor, "identity") + Claims[d].size > LaneBudget
  <2> DEFINE rest == identity \ floor
             R == {q \in rest \X rest : MoreConfident(q[1], q[2])}
  <2>1. rest # {} /\ IsFiniteSet(rest) /\ rest \in SUBSET DOMAIN Claims
    BY <1>1, <1>5, <1>8, FS_Subset
  <2>2. \A x, y \in rest : <<x, y>> \in R <=> MoreConfident(x, y)
    OBVIOUS
  <2>3. InLine(rest, R)
    BY <2>1, <1>6
  <2> HIDE DEF R
  <2>4. PICK e \in rest : \A x \in rest \ {e} : <<e, x>> \in R
    <3> HIDE DEF rest
    <3> QED
      BY <2>1, <2>3, FirstInLine
  <2> DEFINE ahead == {d \in identity : MoreConfident(d, e)}
  <2>5. ahead \subseteq floor
    <3> SUFFICES ASSUME NEW d \in ahead, d \notin floor PROVE FALSE
      OBVIOUS
    <3>1. d \in rest /\ MoreConfident(d, e)
      OBVIOUS
    <3>2. <<d, e>> \in R
      BY <2>2, <3>1
    <3> HIDE DEF rest
    <3>3. d # e /\ <<e, d>> \in R
      BY <2>3, <2>4, <3>1, <3>2 DEF InLine
    <3> QED
      BY <2>3, <3>1, <3>2, <3>3 DEF InLine
  <2>6. e \in DOMAIN Claims \ ahead /\ Claims[e].lane = "identity" /\ ahead \in SUBSET DOMAIN Claims
    <3>1. ~MoreConfident(e, e)
      <4>1. e \in rest => <<e, e>> \notin R
        BY <2>3 DEF InLine
      <4> QED
        BY <2>2, <4>1
    <3> QED
      BY <1>1, <1>4, <3>1
  <2>7. ~(Spent(ahead \union {e}, "identity") <= LaneBudget)
    BY <1>2
  <2>8. floor \in SUBSET DOMAIN Claims
    BY <1>1
  <2>9. e \in identity \ floor
    OBVIOUS
  <2> HIDE DEF ahead, floor, identity, rest
  <2>10. Spent(ahead \union {e}, "identity") <= Spent(ahead, "identity") + Claims[e].size
    BY <2>6, SpendingOnOne
  <2>11. /\ Spent(ahead, "identity") \in Nat /\ Spent(floor, "identity") \in Nat
         /\ Spent(ahead, "identity") <= Spent(floor, "identity")
    BY <2>5, <2>8, SpendingMore
  <2>12. Spent(ahead \union {e}, "identity") \in Nat
    <3>1. ahead \union {e} \in SUBSET DOMAIN Claims
      BY <2>6
    <3> QED
      BY <3>1, SpendingMore
  <2>13. Claims[e].size \in Nat
    BY <2>6, ClaimRows
  <2>14. Spent(floor, "identity") + Claims[e].size > LaneBudget
    BY <2>7, <2>10, <2>11, <2>12, <2>13, TheLimits
  <2> QED
    BY <2>9, <2>14
<1> QED
  BY <1>1, <1>7, <1>8

\* Relevant claims keep the budget of their lane, and use what is left of it.
LEMMA TheRelevant ==
    ASSUME NEW terms \in Queries, NEW candidates \in SUBSET DOMAIN Claims,
           NEW selected \in Relevant[terms][candidates]
    PROVE  /\ selected \subseteq candidates
           /\ \A c \in selected : Claims[c].lane # "identity" /\ Claims[c].lane # "authorization"
           /\ \A c \in selected : Spent(selected, Claims[c].lane) <= LaneBudget
           /\ \A c \in candidates \ selected :
                 \/ Claims[c].lane \in {"identity", "authorization"}
                 \/ score_candidate[terms][c] = 0
                 \/ Spent(selected, Claims[c].lane) + Claims[c].size > LaneBudget
<1> DEFINE others == {c \in candidates : /\ Claims[c].lane # "identity"
                                         /\ Injectable(Claims[c].lane)
                                         /\ score_candidate[terms][c] > 0}
           Preferred(c) == {d \in selected : rank(terms, d, c)}
<1>1. /\ selected \subseteq others
      /\ \A c \in others : c \in selected <=>
            Spent(Preferred(c), Claims[c].lane) + Claims[c].size <= LaneBudget
  BY DEF Relevant
<1>2. selected \in SUBSET DOMAIN Claims /\ others \subseteq candidates
  BY <1>1
<1>3. \A c \in selected : Spent(selected, Claims[c].lane) <= LaneBudget
  <2> SUFFICES ASSUME NEW lane, NEW last \in selected, Claims[last].lane = lane
               PROVE  Spent(selected, lane) <= LaneBudget
    OBVIOUS
  <2> DEFINE T == OfLane(selected, lane)
             R == {q \in T \X T : rank(terms, q[1], q[2])}
  <2>1. T \in SUBSET DOMAIN Claims /\ IsFiniteSet(T) /\ \A x \in T : IsFiniteSet(ClaimLines[x])
    BY <1>2, SpentOnLines
  <2>2. InLine(T, R)
    BY <2>1, ScoresInLine
  <2>3. \A e \in T : Cardinality(All(ClaimLines, Before(R, T, e))) + Cardinality(ClaimLines[e])
                        <= LaneBudget
    <3> SUFFICES ASSUME NEW e \in T
                 PROVE  Cardinality(All(ClaimLines, Before(R, T, e))) + Cardinality(ClaimLines[e])
                           <= LaneBudget
      OBVIOUS
    <3>1. e \in selected /\ Claims[e].lane = lane
      BY DEF OfLane
    <3>2. Spent(Preferred(e), lane) + Claims[e].size <= LaneBudget
      BY <1>1, <3>1
    <3>3. OfLane(Preferred(e), lane) = Before(R, T, e)
      BY DEF OfLane, Before
    <3>4. Preferred(e) \in SUBSET DOMAIN Claims
      BY <1>2
    <3> HIDE DEF Preferred, R, T
    <3>5. Spent(Preferred(e), lane) = Cardinality(All(ClaimLines, Before(R, T, e)))
      BY <3>3, <3>4, SpentOnLines
    <3>6. Cardinality(ClaimLines[e]) = Claims[e].size
      BY <1>2, <3>1, ClaimsHaveLines
    <3> QED
      BY <3>2, <3>5, <3>6
  <2>4. Cardinality(All(ClaimLines, T)) <= LaneBudget
    <3>1. IsFiniteSet(T) /\ \A x \in T : IsFiniteSet(ClaimLines[x])
      BY <2>1
    <3>2. LaneBudget \in Nat
      BY TheLimits
    <3> HIDE DEF R, T
    <3> QED
      BY <2>2, <2>3, <3>1, <3>2, TakingKeepsBudget
  <2> QED
    BY <1>2, <2>4, SpentOnLines
<1>4. \A c \in others \ selected :
         Spent(selected, Claims[c].lane) + Claims[c].size > LaneBudget
  <2> SUFFICES ASSUME NEW c \in others \ selected
               PROVE  Spent(selected, Claims[c].lane) + Claims[c].size > LaneBudget
    OBVIOUS
  <2> DEFINE lane == Claims[c].lane
  <2>1. ~(Spent(Preferred(c), lane) + Claims[c].size <= LaneBudget)
    BY <1>1
  <2>2. Preferred(c) \subseteq selected
    OBVIOUS
  <2>3. c \in DOMAIN Claims
    BY <1>2
  <2> HIDE DEF Preferred, lane
  <2>4. /\ Spent(selected, lane) \in Nat /\ Spent(Preferred(c), lane) \in Nat
        /\ Spent(Preferred(c), lane) <= Spent(selected, lane)
    BY <1>2, <2>2, SpendingMore
  <2>5. Claims[c].size \in Nat
    BY <2>3, ClaimRows
  <2>6. Spent(selected, lane) + Claims[c].size > LaneBudget
    BY <2>1, <2>4, <2>5, TheLimits
  <2> QED
    BY <2>6 DEF lane
<1>5. \A c \in selected : Claims[c].lane # "identity" /\ Claims[c].lane # "authorization"
  BY <1>1 DEF Injectable
<1>6. \A c \in candidates : /\ Claims[c].lane \notin {"identity", "authorization"}
                            /\ score_candidate[terms][c] # 0
                            => c \in others
  <2>1. \A c \in candidates : score_candidate[terms][c] \in Nat
    BY Scores
  <2> QED
    BY <2>1 DEF Injectable
<1> HIDE DEF others
<1> QED
  BY <1>1, <1>2, <1>3, <1>4, <1>5, <1>6

\* No lane of a recall block exceeds its budget, and what is left out of one is
\* irrelevant, would not fit, or comes after a claim that would not.
LanesUsed(terms, candidates, shown) ==
    /\ \A c \in shown : Spent(shown, Claims[c].lane) <= LaneBudget
    /\ \A c \in shown : Claims[c].lane # "authorization"
    /\ \A c \in candidates \ shown :
          \/ Claims[c].lane = "authorization"
          \/ Claims[c].lane # "identity" /\ score_candidate[terms][c] = 0
          \/ Spent(shown, Claims[c].lane) + Claims[c].size > LaneBudget
          \/ /\ Claims[c].lane = "identity"
             /\ \E d \in candidates \ shown :
                   /\ Claims[d].lane = "identity"
                   /\ Spent(shown, "identity") + Claims[d].size > LaneBudget

\* The recall block as a whole.
LEMMA TheRecallBlock ==
    ASSUME NEW terms \in Queries, NEW candidates \in SUBSET DOMAIN Claims,
           NEW selected \in Relevant[terms][candidates]
    PROVE  /\ IdentityFloor(candidates) \subseteq candidates /\ selected \subseteq candidates
           /\ LanesUsed(terms, candidates, IdentityFloor(candidates) \union selected)
<1> DEFINE floor == IdentityFloor(candidates)
           shown == floor \union selected
           identity == OfLane(candidates, "identity")
<1>1. /\ floor \subseteq identity
      /\ Spent(floor, "identity") <= LaneBudget
      /\ identity # floor =>
            \E d \in identity \ floor : Spent(floor, "identity") + Claims[d].size > LaneBudget
  BY TheFloor
<1>2. /\ selected \subseteq candidates
      /\ \A c \in selected : Claims[c].lane # "identity" /\ Claims[c].lane # "authorization"
      /\ \A c \in selected : Spent(selected, Claims[c].lane) <= LaneBudget
      /\ \A c \in candidates \ selected :
            \/ Claims[c].lane \in {"identity", "authorization"}
            \/ score_candidate[terms][c] = 0
            \/ Spent(selected, Claims[c].lane) + Claims[c].size > LaneBudget
  BY TheRelevant
<1>3. identity \subseteq candidates /\ \A c \in candidates : c \in identity <=> Claims[c].lane = "identity"
  BY DEF OfLane
<1> HIDE DEF floor, identity
<1>4. /\ floor \in SUBSET DOMAIN Claims /\ selected \in SUBSET DOMAIN Claims
      /\ shown \in SUBSET DOMAIN Claims
  BY <1>1, <1>2, <1>3
<1>5. OfLane(shown, "identity") = OfLane(floor, "identity")
  BY <1>2 DEF OfLane
<1>6. \A c \in candidates : Claims[c].lane # "identity" =>
         OfLane(shown, Claims[c].lane) = OfLane(selected, Claims[c].lane)
  BY <1>1, <1>3 DEF OfLane
<1> HIDE DEF shown
<1>7. Spent(shown, "identity") = Spent(floor, "identity")
  BY <1>4, <1>5, SpentOnLines
<1>8. \A c \in candidates : Claims[c].lane # "identity" =>
         Spent(shown, Claims[c].lane) = Spent(selected, Claims[c].lane)
  <2> SUFFICES ASSUME NEW c \in candidates, Claims[c].lane # "identity"
               PROVE  Spent(shown, Claims[c].lane) = Spent(selected, Claims[c].lane)
    OBVIOUS
  <2>1. /\ Spent(shown, Claims[c].lane) = Cardinality(All(ClaimLines, OfLane(shown, Claims[c].lane)))
        /\ Spent(selected, Claims[c].lane)
             = Cardinality(All(ClaimLines, OfLane(selected, Claims[c].lane)))
    BY <1>4, SpentOnLines
  <2> QED
    BY <1>6, <2>1
<1>9. \A c \in shown : (c \in floor /\ c \in identity) \/ c \in selected
  BY <1>1 DEF shown
<1>10. \A c \in shown : Spent(shown, Claims[c].lane) <= LaneBudget
  <2>1. \A c \in floor : Claims[c].lane = "identity"
    BY <1>1, <1>3
  <2> QED
    BY <1>1, <1>2, <1>7, <1>8, <1>9, <2>1
<1>11. \A c \in shown : Claims[c].lane # "authorization"
  BY <1>2, <1>3, <1>9
<1>12. ASSUME NEW c \in candidates \ shown
       PROVE  \/ Claims[c].lane = "authorization"
              \/ Claims[c].lane # "identity" /\ score_candidate[terms][c] = 0
              \/ Spent(shown, Claims[c].lane) + Claims[c].size > LaneBudget
              \/ /\ Claims[c].lane = "identity"
                 /\ \E d \in candidates \ shown :
                       /\ Claims[d].lane = "identity"
                       /\ Spent(shown, "identity") + Claims[d].size > LaneBudget
  <2>1. CASE Claims[c].lane = "identity"
    <3>1. c \in identity /\ c \notin floor
      BY <1>3, <2>1 DEF shown
    <3>2. PICK d \in identity \ floor : Spent(floor, "identity") + Claims[d].size > LaneBudget
      BY <1>1, <3>1
    <3>3. d \in candidates \ shown /\ Claims[d].lane = "identity"
      BY <1>2, <1>3, <3>2 DEF shown
    <3> QED
      BY <1>7, <2>1, <3>2, <3>3
  <2>2. CASE Claims[c].lane # "identity"
    <3>1. c \notin selected
      BY DEF shown
    <3> QED
      BY <1>2, <1>8, <2>2, <3>1
  <2> QED
    BY <2>1, <2>2
<1> QED
  <2>1. LanesUsed(terms, candidates, shown)
    BY <1>10, <1>11, <1>12 DEF LanesUsed
  <2> QED
    BY <1>1, <1>2, <1>3, <2>1 DEF shown, floor

-----------------------------------------------------------------------------
(* PromptAssembly: a loop over a list is one selection                     *)

\* What a loop over S in the order R takes, if F says with what it has taken
\* before a member is taken: there is such a set, and only one.
Takes(S, R, F, T) == \A e \in S : e \in T <=> <<e, Before(R, T, e)>> \in F

LEMMA OneSelection ==
    ASSUME NEW S, IsFiniteSet(S), NEW R, InLine(S, R), NEW F
    PROVE  \E T \in SUBSET S : /\ Takes(S, R, F, T)
                               /\ \A U \in SUBSET S : Takes(S, R, F, U) => U = T
<1> DEFINE Front(D) == \A x \in S, y \in D : <<x, y>> \in R => x \in D
           G == {D \in SUBSET S : Front(D) /\ \E T \in SUBSET D : Takes(D, R, F, T)}
           B == {Cardinality(S) - Cardinality(D) : D \in G}
<1>1. \A D \in SUBSET S : IsFiniteSet(D) /\ Cardinality(D) \in Nat /\ Cardinality(D) <= Cardinality(S)
  BY FS_Subset, FS_CardinalityType
<1>2. Cardinality(S) \in Nat
  BY FS_CardinalityType
<1>3. {} \in G
  BY DEF Takes
<1>4. B \in SUBSET Nat /\ B # {}
  <2>1. \A D \in G : D \in SUBSET S
    OBVIOUS
  <2> HIDE DEF G
  <2>2. \A D \in G : Cardinality(S) - Cardinality(D) \in Nat
    BY <1>1, <1>2, <2>1
  <2> QED
    BY <1>3, <2>2
<1>5. PICK D \in G : Min(B) = Cardinality(S) - Cardinality(D)
  <2>1. Min(B) \in B
    <3> HIDE DEF B
    <3> QED
      BY <1>4, MinIsLeast
  <2> HIDE DEF G
  <2> QED
    BY <2>1
<1>6. \A E \in G : Cardinality(E) <= Cardinality(D)
  <2> SUFFICES ASSUME NEW E \in G PROVE Cardinality(E) <= Cardinality(D)
    OBVIOUS
  <2>1. E \in SUBSET S /\ D \in SUBSET S
    OBVIOUS
  <2>2. Min(B) <= Cardinality(S) - Cardinality(E)
    <3>1. Cardinality(S) - Cardinality(E) \in B
      OBVIOUS
    <3> HIDE DEF B
    <3> QED
      BY <1>4, <3>1, MinIsLeast
  <2> HIDE DEF B, G
  <2> QED
    BY <1>1, <1>2, <1>5, <2>1, <2>2
<1>7. PICK T \in SUBSET D : Takes(D, R, F, T)
  OBVIOUS
<1>8. Front(D) /\ D \in SUBSET S
  OBVIOUS
<1>9. D = S
  <2> SUFFICES ASSUME D # S PROVE FALSE
    OBVIOUS
  <2> DEFINE Rest == S \ D
  <2>1. Rest # {} /\ IsFiniteSet(Rest) /\ InLine(Rest, R)
    BY <1>8, FS_Subset DEF InLine
  <2>2. PICK e \in Rest : \A x \in Rest \ {e} : <<e, x>> \in R
    <3> HIDE DEF Rest
    <3> QED
      BY <2>1, FirstInLine
  <2>3. e \in S /\ e \notin D /\ <<e, e>> \notin R
    BY DEF InLine
  <2> DEFINE E == D \union {e}
             U == IF <<e, Before(R, T, e)>> \in F THEN T \union {e} ELSE T
  <2>4. Front(E)
    <3> SUFFICES ASSUME NEW x \in S, x \notin D, x # e, <<x, e>> \in R PROVE FALSE
      BY <1>8
    <3>1. <<e, x>> \in R
      BY <2>2
    <3> QED
      BY <2>3, <3>1 DEF InLine
  <2>5. \A d \in D : <<e, d>> \notin R
    BY <1>8, <2>3
  <2>6. \A d \in E : Before(R, U, d) = Before(R, T, d)
    BY <2>3, <2>5 DEF Before
  <2>7. U \in SUBSET E /\ Takes(E, R, F, U)
    <3>1. \A d \in D : d \in U <=> d \in T
      BY <2>3
    <3>2. e \in U <=> <<e, Before(R, T, e)>> \in F
      BY <2>3
    <3> HIDE DEF U
    <3>3. \A d \in E : d \in U <=> <<d, Before(R, U, d)>> \in F
      BY <1>7, <2>6, <3>1, <3>2 DEF Takes
    <3>4. U \in SUBSET E
      BY DEF U
    <3> QED
      BY <3>3, <3>4 DEF Takes
  <2>8. E \in G
    BY <1>8, <2>3, <2>4, <2>7
  <2>9. Cardinality(E) = Cardinality(D) + 1
    BY <1>1, <1>8, <2>3, FS_AddElement
  <2> HIDE DEF B, E, G
  <2>10. Cardinality(E) <= Cardinality(D)
    BY <1>6, <2>8
  <2>11. Cardinality(D) \in Nat
    BY <1>1, <1>8
  <2> QED
    BY <2>9, <2>10, <2>11
<1>10. ASSUME NEW U \in SUBSET S, Takes(S, R, F, U), U # T
       PROVE  FALSE
  <2> DEFINE Apart == {x \in S : ~(x \in U <=> x \in T)}
  <2>1. Apart # {} /\ IsFiniteSet(Apart) /\ InLine(Apart, R)
    BY <1>9, <1>10, FS_Subset DEF InLine
  <2>2. PICK e \in Apart : \A x \in Apart \ {e} : <<e, x>> \in R
    <3> HIDE DEF Apart
    <3> QED
      BY <2>1, FirstInLine
  <2>3. \A x \in S : <<x, e>> \in R => (x \in U <=> x \in T)
    <3> SUFFICES ASSUME NEW x \in Apart, <<x, e>> \in R PROVE FALSE
      OBVIOUS
    <3>1. x # e
      BY DEF InLine
    <3>2. <<e, x>> \in R
      BY <2>2, <3>1
    <3> QED
      BY <3>2 DEF InLine
  <2>4. Before(R, U, e) = Before(R, T, e)
    BY <1>9, <2>3 DEF Before
  <2> QED
    BY <1>7, <1>9, <1>10, <2>4 DEF Takes
<1> QED
  BY <1>7, <1>9, <1>10

\* Both selections are defined for every store and every message.
LEMMA KnowledgeIsDefined ==
    ASSUME NEW p \in DOMAIN Projects, NEW terms \in Queries
    PROVE  \E selected : _select_knowledge[p][terms] = {selected}
<1> DEFINE S == Chunks[p]
           R == {q \in S \X S : Ranked(q[1], q[2], terms)}
           F == {q \in S \X SUBSET S : Length(q[2]) + Length({q[1]}) <= KnowledgeBudget}
<1>1. IsFiniteSet(S) /\ InLine(S, R)
  BY ChunksAreExcerpts, ChunksInLine
<1>2. \A T \in SUBSET S : Takes(S, R, F, T) <=> \A e \in S : e \in T <=> Fits(e, T, terms)
  <2> SUFFICES ASSUME NEW T \in SUBSET S, NEW e \in S
               PROVE  <<e, Before(R, T, e)>> \in F <=> Fits(e, T, terms)
    BY DEF Takes
  <2>1. Before(R, T, e) = Ahead(e, T, terms) /\ Before(R, T, e) \in SUBSET S
    BY DEF Before, Ahead
  <2> QED
    BY <2>1 DEF Fits
<1>3. _select_knowledge[p][terms] =
        IF Length(Whole[p]) <= KnowledgeBudget THEN {Whole[p]}
        ELSE {T \in SUBSET S : \A e \in S : e \in T <=> Fits(e, T, terms)}
  BY DEF _select_knowledge
<1> HIDE DEF S, R, F
<1>4. PICK T \in SUBSET S : /\ Takes(S, R, F, T)
                            /\ \A U \in SUBSET S : Takes(S, R, F, U) => U = T
  BY <1>1, OneSelection
<1>5. {U \in SUBSET S : \A e \in S : e \in U <=> Fits(e, U, terms)} = {T}
  BY <1>2, <1>4
<1> QED
  BY <1>3, <1>5

LEMMA RelevantIsDefined ==
    ASSUME NEW terms \in Queries, NEW candidates \in SUBSET DOMAIN Claims
    PROVE  \E selected : Relevant[terms][candidates] = {selected}
<1> DEFINE S == {c \in candidates : /\ Claims[c].lane # "identity"
                                    /\ Injectable(Claims[c].lane)
                                    /\ score_candidate[terms][c] > 0}
           R == {q \in S \X S : rank(terms, q[1], q[2])}
           F == {q \in S \X SUBSET S : Spent(q[2], Claims[q[1]].lane) + Claims[q[1]].size <= LaneBudget}
           FitsLane(c, T) == Spent({d \in T : rank(terms, d, c)}, Claims[c].lane) + Claims[c].size
                                <= LaneBudget
<1>1. IsFiniteSet(S) /\ InLine(S, R)
  BY TheTables, ScoresInLine, FS_Subset
<1>2. \A T \in SUBSET S : Takes(S, R, F, T) <=> \A c \in S : c \in T <=> FitsLane(c, T)
  <2> SUFFICES ASSUME NEW T \in SUBSET S, NEW c \in S
               PROVE  <<c, Before(R, T, c)>> \in F <=> FitsLane(c, T)
    BY DEF Takes
  <2>1. Before(R, T, c) = {d \in T : rank(terms, d, c)} /\ Before(R, T, c) \in SUBSET S
    BY DEF Before
  <2> QED
    BY <2>1
<1>3. Relevant[terms][candidates] = {T \in SUBSET S : \A c \in S : c \in T <=> FitsLane(c, T)}
  BY DEF Relevant
<1> HIDE DEF S, R, F, FitsLane
<1>4. PICK T \in SUBSET S : /\ Takes(S, R, F, T)
                            /\ \A U \in SUBSET S : Takes(S, R, F, U) => U = T
  BY <1>1, OneSelection
<1>5. {U \in SUBSET S : \A c \in S : c \in U <=> FitsLane(c, U)} = {T}
  BY <1>2, <1>4
<1> QED
  BY <1>3, <1>5

-----------------------------------------------------------------------------
(* PromptAssembly: chunks                                                  *)

\* The paragraphs that open a chunk are those that do not fit behind what has been
\* joined since the last one.
LEMMA ParagraphsOpen ==
    ASSUME NEW f \in DOMAIN Files
    PROVE  /\ _chunk_text[f] \subseteq DOMAIN Text(f)
           /\ \A i \in DOMAIN Text(f) : i \in _chunk_text[f] <=> Opens(f, i, _chunk_text[f])
<1> DEFINE S == DOMAIN Text(f)
           R == {q \in S \X S : q[1] < q[2]}
           Rule(T) == \A i \in S : i \in T <=> Opens(f, i, T)
           F == {q \in S \X SUBSET S : Opens(f, q[1], q[2])}
<1>1. IsFiniteSet(S) /\ S \subseteq Nat
  BY FileRows
<1>2. InLine(S, R)
  BY <1>1 DEF InLine
<1>3. \A T \in SUBSET S : Takes(S, R, F, T) <=> Rule(T)
  <2> SUFFICES ASSUME NEW T \in SUBSET S, NEW i \in S
               PROVE  <<i, Before(R, T, i)>> \in F <=> Opens(f, i, T)
    BY DEF Takes
  <2>1. Before(R, T, i) = {k \in T : k < i} /\ Before(R, T, i) \in SUBSET S
    BY DEF Before
  <2>2. Opens(f, i, {k \in T : k < i}) <=> Opens(f, i, T)
    BY <1>1 DEF Opens
  <2> QED
    BY <2>1, <2>2
<1>4. _chunk_text[f] = CHOOSE T \in SUBSET S : Rule(T)
  BY DEF _chunk_text
<1> HIDE DEF R, F
<1>5. \E T \in SUBSET S : Rule(T)
  <2> HIDE DEF S, Rule
  <2> QED
    BY <1>1, <1>2, <1>3, OneSelection
<1>6. _chunk_text[f] \in SUBSET S /\ Rule(_chunk_text[f])
  <2> HIDE DEF Rule
  <2> QED
    BY <1>4, <1>5
<1> QED
  BY <1>6

\* Chunking loses no paragraph and repeats none.
LEMMA EveryParagraphOnce ==
    ASSUME NEW p \in DOMAIN Projects, NEW f \in Readable(p), NEW i \in DOMAIN Text(f)
    PROVE  /\ \E e \in Chunks[p] : e.file = f /\ i \in Within(e)
           /\ \A e, g \in Chunks[p] :
                 e.file = f /\ g.file = f /\ i \in Within(e) /\ i \in Within(g) => e = g
<1>1. f \in DOMAIN Files
  BY DEF Readable
<1> DEFINE D == DOMAIN Text(f)
           opening == _chunk_text[f]
           last == Len(Text(f))
<1>2. D = 1..last /\ last \in Nat
  BY <1>1, FileRows
<1>3. opening \subseteq D /\ 1 \in opening
  <2>1. 1 \in D
    BY <1>2
  <2> QED
    BY <1>1, <2>1, ParagraphsOpen DEF Opens
<1> HIDE DEF opening
<1>4. PICK a \in opening : a <= i /\ \A k \in opening : k <= i => k <= a
  <2> DEFINE B == {i - k : k \in {k \in opening : k <= i}}
  <2>1. B \in SUBSET Nat /\ B # {}
    <3>1. \A k \in opening : k \in Nat /\ (k <= i => i - k \in Nat)
      BY <1>2, <1>3
    <3>2. 1 <= i
      BY <1>2
    <3>3. i - 1 \in B
      BY <1>3, <3>2
    <3> QED
      BY <3>1, <3>3
  <2>2. Min(B) \in B /\ \A y \in B : Min(B) <= y
    <3> HIDE DEF B
    <3> QED
      BY <2>1, MinIsLeast
  <2>3. PICK a \in opening : a <= i /\ Min(B) = i - a
    BY <2>2
  <2>4. \A k \in opening : k <= i => i - a <= i - k
    BY <2>2, <2>3
  <2> QED
    BY <1>2, <1>3, <2>3, <2>4
<1>5. PICK b \in D : /\ i <= b /\ b + 1 \in opening \union {last + 1}
                     /\ \A k \in opening : i < k => b < k
  <2> DEFINE B == {k \in opening \union {last + 1} : i < k}
  <2>1. B \in SUBSET Nat /\ B # {}
    <3>1. \A k \in opening \union {last + 1} : k \in Nat
      BY <1>2, <1>3
    <3>2. i < last + 1
      BY <1>2
    <3>3. last + 1 \in B
      BY <3>2
    <3> QED
      BY <3>1, <3>3
  <2>2. Min(B) \in B /\ \A y \in B : Min(B) <= y
    <3> HIDE DEF B
    <3> QED
      BY <2>1, MinIsLeast
  <2> DEFINE b == Min(B) - 1
  <2>3. b \in D /\ i <= b /\ b + 1 = Min(B)
    <3>1. Min(B) \in Nat /\ i < Min(B) /\ Min(B) <= last + 1
      BY <1>2, <1>3, <2>2
    <3> QED
      BY <1>2, <3>1
  <2>4. \A k \in opening : i < k => b < k
    <3>1. \A k \in opening : i < k => Min(B) <= k
      BY <2>2
    <3> HIDE DEF B
    <3> QED
      BY <1>2, <1>3, <2>3, <3>1
  <2>5. b + 1 \in opening \union {last + 1}
    BY <2>2, <2>3
  <2> QED
    BY <2>3, <2>4, <2>5
<1> DEFINE e == Excerpt(f, a, b)
<1>6. e.file = f /\ e.first = a /\ e.last = b
  BY DEF Excerpt
<1>7. e \in Chunks[p] /\ i \in Within(e)
  <2>1. e \in Excerpts(f)
    BY <1>3 DEF Excerpts, Excerpt
  <2>2. i \in Within(e) /\ a \in Within(e)
    BY <1>2, <1>3, <1>4, <1>5, <1>6 DEF Within
  <2>3. \A k \in Within(e) : k \in D /\ a <= k /\ k <= b
    BY <1>6 DEF Within
  <2>4. \A k \in Within(e) \intersect opening : k = a
    <3> SUFFICES ASSUME NEW k \in opening, a <= k, k <= b, k \in D PROVE k = a
      BY <2>3
    <3>1. ~(i < k)
      BY <1>2, <1>5
    <3> QED
      BY <1>2, <1>3, <1>4, <3>1
  <2>5. Within(e) \intersect opening = {a}
    BY <2>2, <2>4
  <2>6. e \in UNION {Excerpts(g) : g \in Readable(p)}
    BY <2>1
  <2> HIDE DEF e
  <2> QED
    BY <1>5, <1>6, <2>2, <2>5, <2>6 DEF Chunks, opening
<1> HIDE DEF e
<1>8. ASSUME NEW g \in Chunks[p], NEW h \in Chunks[p], g.file = f, h.file = f,
             i \in Within(g), i \in Within(h)
      PROVE  g = h
  <2>1. /\ g.first \in D /\ g.last \in D /\ h.first \in D /\ h.last \in D
        /\ g = Excerpt(f, g.first, g.last) /\ h = Excerpt(f, h.first, h.last)
        /\ Within(g) \intersect opening = {g.first} /\ Within(h) \intersect opening = {h.first}
    BY <1>8, ChunksAreExcerpts DEF opening
  <2>2. g.first <= i /\ i <= g.last /\ h.first <= i /\ i <= h.last
    BY <1>8 DEF Within
  <2>3. g.first \in opening /\ h.first \in opening
    BY <2>1
  <2>4. ~(g.first < h.first)
    <3> SUFFICES ASSUME g.first < h.first PROVE FALSE
      OBVIOUS
    <3>1. h.first \in Within(g)
      BY <1>2, <1>8, <2>1, <2>2 DEF Within
    <3>2. h.first = g.first
      BY <2>1, <2>3, <3>1
    <3> QED
      BY <1>2, <2>1, <3>2
  <2>5. ~(h.first < g.first)
    <3> SUFFICES ASSUME h.first < g.first PROVE FALSE
      OBVIOUS
    <3>1. g.first \in Within(h)
      BY <1>2, <1>8, <2>1, <2>2 DEF Within
    <3>2. h.first = g.first
      BY <2>1, <2>3, <3>1
    <3> QED
      BY <1>2, <2>1, <3>2
  <2>6. g.first = h.first
    BY <1>2, <2>1, <2>4, <2>5
  <2>7. ~(g.last < h.last) /\ ~(h.last < g.last)
    BY <1>8, <2>6, ChunkByFirst
  <2>8. g.last = h.last
    BY <1>2, <2>1, <2>7
  <2> QED
    BY <2>1, <2>6, <2>8
<1> QED
  BY <1>6, <1>7, <1>8

\* A chunk exceeds its length only by a paragraph that nothing precedes.
LEMMA ChunksStayShort ==
    ASSUME NEW p \in DOMAIN Projects, NEW e \in Chunks[p]
    PROVE  \/ Length({e}) <= ChunkChars
           \/ Length({Excerpt(e.file, e.first, e.last - 1)}) = 0
<1> DEFINE f == e.file
           opening == _chunk_text[f]
           before == Excerpt(f, e.first, e.last - 1)
           tail == {<<f, e.last, n>> : n \in 1..Text(f)[e.last].size}
<1>1. /\ IsExcerpt(e) /\ e.first \in DOMAIN Text(f) /\ e.last \in DOMAIN Text(f)
      /\ Within(e) \intersect opening = {e.first}
  BY ChunksAreExcerpts
<1>2. f \in DOMAIN Files
  BY <1>1 DEF IsExcerpt
<1>3. /\ DOMAIN Text(f) = 1..Len(Text(f)) /\ Len(Text(f)) \in Nat
      /\ Text(f)[e.last].size \in Nat
  BY <1>1, <1>2, FileRows
<1>4. e.first \in opening /\ e.first <= e.last /\ opening \subseteq DOMAIN Text(f)
  BY <1>1, <1>2, ParagraphsOpen DEF Within
<1>5. IsExcerpt(before) /\ before.file = f /\ before.first = e.first /\ before.last = e.last - 1
  BY <1>1, <1>2, <1>3 DEF IsExcerpt, Excerpt
<1>6. IsFiniteSet(Lines(before)) /\ IsFiniteSet(Lines(e))
  BY <1>1, <1>5, LinesAreFinite
<1>7. IsFiniteSet(tail) /\ Cardinality(tail) <= Text(f)[e.last].size
  <2> DEFINE N == 1..Text(f)[e.last].size
             g == [n \in N |-> <<f, e.last, n>>]
  <2>1. IsFiniteSet(N) /\ Cardinality(N) = Text(f)[e.last].size
    <3>1. \A n \in Nat : IsFiniteSet(1..n) /\ Cardinality(1..n) = n
      BY FS_Interval
    <3> HIDE DEF f
    <3> QED
      BY <1>3, <3>1
  <2>2. g \in Surjection(N, tail)
    BY DEF Surjection
  <2> HIDE DEF N, g, tail
  <2>3. IsFiniteSet(tail) /\ Cardinality(tail) <= Cardinality(N)
    BY <2>1, <2>2, FS_Surjection
  <2> QED
    BY <2>1, <2>3
<1>8. Lines(e) \subseteq Lines(before) \union tail
  <2>1. \A i \in Within(e) : i = e.last \/ i \in Within(before)
    BY <1>1, <1>3, <1>5 DEF Within
  <2> QED
    BY <1>5, <2>1 DEF Lines
<1>9. /\ Length({e}) = Cardinality(Lines(e)) /\ Length({before}) = Cardinality(Lines(before))
  <2>1. \A x : UNION {Lines(y) : y \in {x}} = Lines(x)
    OBVIOUS
  <2> QED
    BY <2>1 DEF Length
<1> HIDE DEF before, tail, opening
<1>10. /\ Length({e}) \in Nat /\ Length({before}) \in Nat
       /\ Length({e}) <= Length({before}) + Text(f)[e.last].size
  <2>1. /\ IsFiniteSet(Lines(before) \union tail) /\ IsFiniteSet(Lines(before) \intersect tail)
        /\ Cardinality(Lines(before) \union tail)
             = Cardinality(Lines(before)) + Cardinality(tail) - Cardinality(Lines(before) \intersect tail)
    BY <1>6, <1>7, FS_Union, FS_Intersection
  <2>2. /\ Cardinality(Lines(before)) \in Nat /\ Cardinality(tail) \in Nat
        /\ Cardinality(Lines(before) \intersect tail) \in Nat
        /\ Cardinality(Lines(before) \union tail) \in Nat /\ Cardinality(Lines(e)) \in Nat
    BY <1>6, <1>7, <2>1, FS_CardinalityType
  <2>3. Cardinality(Lines(e)) <= Cardinality(Lines(before) \union tail)
    BY <1>8, <2>1, FS_Subset
  <2> QED
    BY <1>3, <1>7, <1>9, <2>1, <2>2, <2>3
<1>11. CASE e.last = e.first
  <2>1. Within(before) = {}
    BY <1>1, <1>3, <1>5, <1>11 DEF Within
  <2>2. Lines(before) = {}
    BY <2>1 DEF Lines
  <2>3. Length({before}) = 0
    BY <1>9, <2>2, FS_EmptySet
  <2> QED
    BY <2>3 DEF before
<1>12. CASE e.last # e.first
  <2>1. e.last \notin opening
    <3>1. e.last \in Within(e)
      BY <1>1, <1>3, <1>4 DEF Within
    <3> QED
      BY <1>1, <1>12, <3>1
  <2>2. ~Opens(f, e.last, opening)
    BY <1>1, <1>2, <2>1, ParagraphsOpen DEF opening
  <2>3. e.first < e.last /\ \A k \in opening : k < e.last => k <= e.first
    <3>1. e.first < e.last
      BY <1>1, <1>3, <1>4, <1>12
    <3>2. \A k \in opening : k < e.last /\ e.first < k => k \in Within(e)
      BY <1>1, <1>3, <1>4 DEF Within
    <3>3. \A k \in opening : k < e.last /\ e.first < k => FALSE
      BY <1>1, <1>3, <1>4, <3>2
    <3> QED
      BY <1>1, <1>3, <1>4, <3>1, <3>3
  <2>4. ~(Length({before}) > 0 /\ Length({before}) + Text(f)[e.last].size > ChunkChars)
    BY <1>4, <2>2, <2>3 DEF Opens, before
  <2> QED
    BY <1>3, <1>10, <2>4, TheLimits DEF before
<1> QED
  BY <1>11, <1>12

\* project_context_service and retrieval, for every store: a selection is defined
\* and unique, chunking a file loses no paragraph and repeats none, and a chunk
\* exceeds its length only by a paragraph that nothing precedes in it.
THEOREM SelectionsAreDefined ==
    /\ \A p \in DOMAIN Projects, terms \in Queries :
          \E selected : _select_knowledge[p][terms] = {selected}
    /\ \A terms \in Queries, candidates \in SUBSET DOMAIN Claims :
          \E selected : Relevant[terms][candidates] = {selected}
    /\ \A p \in DOMAIN Projects : \A f \in Readable(p) : \A i \in DOMAIN Text(f) :
          /\ \E e \in Chunks[p] : e.file = f /\ i \in Within(e)
          /\ \A e, g \in Chunks[p] :
                e.file = f /\ g.file = f /\ i \in Within(e) /\ i \in Within(g) => e = g
    /\ \A p \in DOMAIN Projects : \A e \in Chunks[p] :
          \/ Length({e}) <= ChunkChars
          \/ Length({Excerpt(e.file, e.first, e.last - 1)}) = 0
<1>1. \A p \in DOMAIN Projects, terms \in Queries :
         \E selected : _select_knowledge[p][terms] = {selected}
  BY KnowledgeIsDefined
<1>2. \A terms \in Queries, candidates \in SUBSET DOMAIN Claims :
         \E selected : Relevant[terms][candidates] = {selected}
  BY RelevantIsDefined
<1>3. \A p \in DOMAIN Projects : \A f \in Readable(p) : \A i \in DOMAIN Text(f) :
         /\ \E e \in Chunks[p] : e.file = f /\ i \in Within(e)
         /\ \A e, g \in Chunks[p] :
               e.file = f /\ g.file = f /\ i \in Within(e) /\ i \in Within(g) => e = g
  BY EveryParagraphOnce
<1>4. \A p \in DOMAIN Projects : \A e \in Chunks[p] :
         \/ Length({e}) <= ChunkChars
         \/ Length({Excerpt(e.file, e.first, e.last - 1)}) = 0
  BY ChunksStayShort
<1> QED
  BY <1>1, <1>2, <1>3, <1>4

-----------------------------------------------------------------------------
(* PromptAssembly: what fits, who is meant and what is allowed             *)

LEMMA NothingToShow ==
    NoContext \in Contexts /\ _render_context(NoContext) = 0
<1>1. NoContext \in Contexts
  BY DEF NoContext, Contexts
<1>2. Cardinality({}) = 0
  BY FS_EmptySet
<1> QED
  BY <1>1, <1>2 DEF NoContext, _render_context

\* Compaction only takes away; what is left fits.
LEMMA FittedFits ==
    ASSUME NEW c \in Contexts
    PROVE  /\ Fitted(c) \in Contexts /\ _render_context(Fitted(c)) <= CharLimit
           /\ Fitted(c).claims \subseteq c.claims /\ Fitted(c).projects \subseteq c.projects
           /\ Fitted(c).contacts \subseteq c.contacts /\ Fitted(c).matches \subseteq c.matches
           /\ Fitted(c) # c => Fitted(c).episodes = 0
           /\ Fitted(c) # NoContext => Fitted(c).matches = c.matches
<1>1. CASE _render_context(c) <= CharLimit
  BY <1>1 DEF Fitted
<1>2. CASE ~(_render_context(c) <= CharLimit) /\ Enough(c) = {}
  <2>1. Fitted(c) = NoContext
    BY <1>2 DEF Fitted, Compacted
  <2>2. /\ NoContext.claims = {} /\ NoContext.projects = {} /\ NoContext.contacts = {}
        /\ NoContext.matches = {} /\ NoContext.episodes = 0
    BY DEF NoContext
  <2> QED
    BY <2>1, <2>2, NothingToShow, TheLimits
<1>3. CASE ~(_render_context(c) <= CharLimit) /\ Enough(c) # {}
  <2> DEFINE n == Min(Enough(c))
             r == render_compact(c, n)
  <2>1. Fitted(c) = r
    BY <1>3 DEF Fitted, Compacted
  <2>2. Enough(c) \in SUBSET Nat
    <3>1. c.claims \in SUBSET DOMAIN Claims /\ c.contacts \in SUBSET DOMAIN Contacts
          /\ c.projects \in SUBSET DOMAIN Projects
      BY DEF Contexts
    <3>2. Cardinality(c.contacts) \in Nat /\ Cardinality(c.claims) \in Nat
          /\ Cardinality(c.projects) \in Nat
      BY <3>1, TheTables, FS_Subset, FS_CardinalityType
    <3> QED
      BY <3>2 DEF Enough
  <2>3. n \in Enough(c)
    BY <1>3, <2>2, MinIsLeast
  <2>4. _render_context(r) <= CharLimit
    BY <2>3 DEF Enough
  <2>5. /\ r.claims \subseteq c.claims /\ r.projects \subseteq c.projects
        /\ r.contacts \subseteq c.contacts /\ r.matches = c.matches /\ r.episodes = 0
        /\ r = [claims |-> r.claims, projects |-> r.projects, contacts |-> r.contacts,
                matches |-> r.matches, episodes |-> r.episodes, full |-> FALSE]
    BY DEF render_compact, _prioritize_claims, First
  <2> HIDE DEF r
  <2>6. /\ r.claims \in SUBSET DOMAIN Claims /\ r.projects \in SUBSET DOMAIN Projects
        /\ r.contacts \in SUBSET DOMAIN Contacts /\ r.matches \in SUBSET DOMAIN Contacts
    <3>1. /\ c.claims \in SUBSET DOMAIN Claims /\ c.projects \in SUBSET DOMAIN Projects
          /\ c.contacts \in SUBSET DOMAIN Contacts /\ c.matches \in SUBSET DOMAIN Contacts
      BY DEF Contexts
    <3> QED
      BY <2>5, <3>1
  <2>7. [claims |-> r.claims, projects |-> r.projects, contacts |-> r.contacts,
         matches |-> r.matches, episodes |-> r.episodes, full |-> FALSE] \in Contexts
    BY <2>5, <2>6 DEF Contexts
  <2>8. r \in Contexts
    BY <2>5, <2>7
  <2> QED
    BY <2>1, <2>4, <2>5, <2>8
<1> QED
  BY <1>1, <1>2, <1>3

\* Contacts that are matched were read, and not guessed.
LEMMA MatchesAreMeant ==
    ASSUME NEW terms, NEW rows
    PROVE  /\ match_contacts(terms, rows) \subseteq rows
           /\ \A c \in match_contacts(terms, rows) :
                 ~ /\ Contacts[c].first \in terms
                   /\ {Contacts[c].last, Contacts[c].company, Contacts[c].role} \intersect terms = {}
                   /\ Contacts[c].tags \intersect terms = {}
                   /\ \E d \in rows \ {c} : Contacts[d].first = Contacts[c].first
<1>1. match_contacts(terms, rows) \subseteq {c \in rows : _reason_for(c, terms, rows) < 4}
  BY DEF match_contacts, First
<1>2. ASSUME NEW c \in rows,
             {Contacts[c].last, Contacts[c].company, Contacts[c].role} \intersect terms = {},
             Contacts[c].tags \intersect terms = {},
             \E d \in rows \ {c} : Contacts[d].first = Contacts[c].first
      PROVE  _reason_for(c, terms, rows) = 4
  <2>1. Contacts[c].last \notin terms /\ Contacts[c].company \notin terms
        /\ Contacts[c].role \notin terms
    BY <1>2
  <2>2. ~_first_name_is_unambiguous(c, rows)
    BY <1>2 DEF _first_name_is_unambiguous
  <2> QED
    BY <1>2, <2>1, <2>2 DEF _reason_for
<1>3. \A c \in match_contacts(terms, rows) : c \in rows /\ _reason_for(c, terms, rows) # 4
  BY <1>1
<1> QED
  BY <1>2, <1>3

LEMMA AllowedRows ==
    ASSUME NEW S, NEW rows, NEW local \in BOOLEAN
    PROVE  /\ Allowed(S, rows, local) \subseteq S
           /\ ~local => \A i \in Allowed(S, rows, local) :
                           rows[i].sensitivity \notin _LOCAL_ONLY_SENSITIVITIES
BY DEF Allowed

-----------------------------------------------------------------------------
(* PromptAssembly: the inductive invariant                                 *)

Prompts ==
    [phase : {"idle", "workspace", "claims", "projects", "tasks", "contacts",
              "recall", "done", "failed", "recalled"},
     input : Messages \union {NoPrompt.input},
     pending : SUBSET ((DOMAIN Projects) \X (1..5)),
     knowledge : SUBSET [file : DOMAIN Files, first : Nat, last : Nat],
     claims : SUBSET DOMAIN Claims, projects : SUBSET DOMAIN Projects,
     contacts : SUBSET DOMAIN Contacts, context : Contexts,
     identity : SUBSET DOMAIN Claims, relevant : SUBSET DOMAIN Claims,
     related : SUBSET DOMAIN Relations]

\* Nothing is kept between two turns, the files are chosen for a workspace, and
\* what is withheld is not read in the first place.
TurnInOrder ==
    /\ Reached("idle") => prompt = NoPrompt
    /\ Reached("workspace") => prompt.input \in Messages /\ prompt.input.workspace # 0
    /\ ~prompt.input.local =>
          /\ \A c \in prompt.claims : Claims[c].sensitivity \notin _LOCAL_ONLY_SENSITIVITIES
          /\ \A c \in prompt.contacts : Contacts[c].sensitivity \notin _LOCAL_ONLY_SENSITIVITIES

PromptInv ==
    /\ PromptTypeOK /\ TurnInOrder
    /\ ContextFits /\ RecallGivesWay /\ NamedPeopleSurvive /\ GuessesNobody
    /\ WithheldStaysOut /\ KnowledgeIsMaximal /\ LanesKeepBudget

LEMMA PromptTypes == PromptTypeOK <=> store \in Stored /\ prompt \in Prompts
BY DEF PromptTypeOK, Prompts

LEMMA PromptTypesNext == PromptTypeOK' <=> store' \in Stored /\ prompt' \in Prompts
BY DEF PromptTypeOK, Prompts

LEMMA TheInputs ==
    /\ \A input \in Messages : /\ input.local \in BOOLEAN /\ input.terms \in Queries
                               /\ input.workspace # 0 => input.workspace \in DOMAIN Projects
    /\ NoPrompt.input.local \in BOOLEAN
    /\ NoPrompt.input.workspace = 0
BY DEF Messages, NoPrompt

\* Nothing is shown before anything is read.
LEMMA NothingRead ==
    /\ NoPrompt \in Prompts /\ NoPrompt.phase = "idle" /\ NoPrompt.input.workspace = 0
    /\ NoPrompt.context = NoContext /\ NoPrompt.identity = {} /\ NoPrompt.relevant = {}
    /\ NoPrompt.claims = {} /\ NoPrompt.contacts = {}
BY NothingToShow DEF NoPrompt, Prompts

-----------------------------------------------------------------------------
(* PromptAssembly: every step keeps the invariant                          *)

\* A step that only reads: nothing is shown yet.
LEMMA StillReading ==
    ASSUME PromptInv, PromptTypeOK',
           prompt'.input = prompt.input, prompt'.context = prompt.context,
           prompt'.identity = prompt.identity, prompt'.relevant = prompt.relevant,
           prompt'.phase \notin {"idle", "done", "recalled"},
           prompt'.phase = "workspace" => prompt.phase = "workspace",
           KnowledgeIsMaximal',
           ~prompt.input.local =>
              /\ \A c \in prompt'.claims : Claims[c].sensitivity \notin _LOCAL_ONLY_SENSITIVITIES
              /\ \A c \in prompt'.contacts : Contacts[c].sensitivity \notin _LOCAL_ONLY_SENSITIVITIES
    PROVE  PromptInv'
<1>1. TurnInOrder'
  BY DEF PromptInv, TurnInOrder, Reached
<1>2. ContextFits'
  BY DEF PromptInv, ContextFits, Context
<1>3. RecallGivesWay' /\ NamedPeopleSurvive' /\ GuessesNobody' /\ LanesKeepBudget'
  BY DEF RecallGivesWay, NamedPeopleSurvive, GuessesNobody, LanesKeepBudget, Reached
<1>4. WithheldStaysOut'
  BY DEF PromptInv, WithheldStaysOut, Context, Shown
<1> QED
  BY <1>1, <1>2, <1>3, <1>4 DEF PromptInv

\* The files stay as they were chosen.
LEMMA SameKnowledge ==
    ASSUME PromptInv, prompt'.input = prompt.input, prompt'.knowledge = prompt.knowledge,
           prompt.phase \in {"workspace", "failed"} => prompt'.phase \in {"workspace", "failed"}
    PROVE  KnowledgeIsMaximal'
BY DEF PromptInv, KnowledgeIsMaximal

LEMMA InitKeepsPrompt == PromptInit => PromptInv
<1> SUFFICES ASSUME PromptInit PROVE PromptInv
  OBVIOUS
<1>1. store \in Stored /\ prompt = NoPrompt
  BY DEF PromptInit
<1>2. PromptTypeOK
  BY <1>1, NothingRead, PromptTypes
<1>3. TurnInOrder
  BY <1>1, NothingRead DEF TurnInOrder, Reached
<1>4. ContextFits
  BY <1>1, NothingRead, NothingToShow, TheLimits DEF ContextFits, Context
<1>5. RecallGivesWay /\ NamedPeopleSurvive /\ GuessesNobody /\ LanesKeepBudget
  BY <1>1, NothingRead
  DEF RecallGivesWay, NamedPeopleSurvive, GuessesNobody, LanesKeepBudget, Reached
<1>6. WithheldStaysOut
  BY <1>1, NothingRead DEF WithheldStaysOut, Context, Shown, NoContext
<1>7. KnowledgeIsMaximal
  BY <1>1, NothingRead DEF KnowledgeIsMaximal
<1> QED
  BY <1>2, <1>3, <1>4, <1>5, <1>6, <1>7 DEF PromptInv

\* A step after which a turn has begun or ended and nothing is shown.
LEMMA NothingShown ==
    ASSUME PromptInv, store' = store, prompt' \in Prompts,
           prompt'.phase \in {"idle", "workspace", "claims"},
           prompt'.phase = "idle" => prompt' = NoPrompt,
           prompt'.phase # "idle" => prompt'.input \in Messages,
           prompt'.phase = "workspace" <=> prompt'.input.workspace # 0,
           prompt'.context = NoContext, prompt'.identity = {}, prompt'.relevant = {},
           prompt'.claims = {}, prompt'.contacts = {}
    PROVE  PromptInv'
<1>1. PromptTypeOK'
  BY PromptTypes, PromptTypesNext DEF PromptInv
<1>2. TurnInOrder'
  BY DEF TurnInOrder, Reached
<1>3. ContextFits'
  BY NothingToShow, TheLimits DEF ContextFits, Context
<1>4. RecallGivesWay' /\ NamedPeopleSurvive' /\ GuessesNobody' /\ LanesKeepBudget'
  BY DEF RecallGivesWay, NamedPeopleSurvive, GuessesNobody, LanesKeepBudget, Reached
<1>5. WithheldStaysOut'
  BY DEF WithheldStaysOut, Context, Shown, NoContext
<1>6. KnowledgeIsMaximal'
  BY DEF KnowledgeIsMaximal
<1> QED
  BY <1>1, <1>2, <1>3, <1>4, <1>5, <1>6 DEF PromptInv

LEMMA BeginKeepsPrompt ==
    ASSUME PromptInv, NEW input \in Messages, _build_llm_messages(input)
    PROVE  PromptInv'
<1>1. store' = store
  BY DEF _build_llm_messages
<1>2. CASE input.workspace = 0
  <2>1. prompt' = [NoPrompt EXCEPT !.phase = "claims", !.input = input]
    BY <1>2 DEF _build_llm_messages
  <2>2. /\ prompt' \in Prompts /\ prompt'.phase = "claims" /\ prompt'.input = input
        /\ prompt'.context = NoContext /\ prompt'.identity = {} /\ prompt'.relevant = {}
        /\ prompt'.claims = {} /\ prompt'.contacts = {}
    BY <2>1, NothingRead DEF Prompts
  <2> QED
    BY <1>1, <1>2, <2>2, NothingShown
<1>3. CASE input.workspace # 0
  <2> DEFINE calls == {input.workspace} \X (1..5)
  <2>1. prompt' = [NoPrompt EXCEPT !.phase = "workspace", !.input = input, !.pending = calls]
    BY <1>3 DEF _build_llm_messages
  <2>2. calls \in SUBSET ((DOMAIN Projects) \X (1..5))
    BY <1>3, TheInputs
  <2> HIDE DEF calls
  <2>3. /\ prompt' \in Prompts /\ prompt'.phase = "workspace" /\ prompt'.input = input
        /\ prompt'.context = NoContext /\ prompt'.identity = {} /\ prompt'.relevant = {}
        /\ prompt'.claims = {} /\ prompt'.contacts = {}
    BY <2>1, <2>2, NothingRead DEF Prompts
  <2> QED
    BY <1>1, <1>3, <2>3, NothingShown
<1> QED
  BY <1>2, <1>3

LEMMA SentKeepsPrompt ==
    ASSUME PromptInv, Sent
    PROVE  PromptInv'
<1>1. store' = store /\ prompt' = NoPrompt
  BY DEF Sent
<1> QED
  BY <1>1, NothingRead, NothingShown

LEMMA ProjectReadKeepsPrompt ==
    ASSUME PromptInv, get_project
    PROVE  PromptInv'
<1>1. PICK call \in prompt.pending :
         prompt' = IF call[1] \in store.projects
                   THEN [prompt EXCEPT !.pending = @ \ {call}]
                   ELSE [prompt EXCEPT !.phase = "failed"]
  BY DEF get_project
<1>2. store' = store /\ prompt.phase \in {"workspace", "tasks"}
  BY DEF get_project
<1>3. store \in Stored /\ prompt \in Prompts
  BY PromptTypes DEF PromptInv
<1>4. /\ prompt' \in Prompts /\ prompt'.input = prompt.input /\ prompt'.context = prompt.context
      /\ prompt'.identity = prompt.identity /\ prompt'.relevant = prompt.relevant
      /\ prompt'.claims = prompt.claims /\ prompt'.contacts = prompt.contacts
      /\ prompt'.knowledge = prompt.knowledge
      /\ prompt'.phase \in {prompt.phase, "failed"}
  BY <1>1, <1>3 DEF Prompts
<1>5. PromptTypeOK'
  BY <1>2, <1>3, <1>4, PromptTypesNext
<1>6. KnowledgeIsMaximal'
  BY <1>2, <1>4, SameKnowledge
<1>7. ~prompt.input.local =>
         /\ \A c \in prompt.claims : Claims[c].sensitivity \notin _LOCAL_ONLY_SENSITIVITIES
         /\ \A c \in prompt.contacts : Contacts[c].sensitivity \notin _LOCAL_ONLY_SENSITIVITIES
  BY DEF PromptInv, TurnInOrder
<1> QED
  BY <1>2, <1>4, <1>5, <1>6, <1>7, StillReading

LEMMA BuildKeepsPrompt ==
    ASSUME PromptInv, build
    PROVE  PromptInv'
<1>1. /\ prompt.phase = "workspace" /\ store' = store
      /\ \E selected \in _select_knowledge[prompt.input.workspace][prompt.input.terms] :
            prompt' = [prompt EXCEPT !.phase = "claims", !.knowledge = selected]
  BY DEF build, Reached
<1> DEFINE p == prompt.input.workspace
           terms == prompt.input.terms
<1>2. PICK selected \in _select_knowledge[p][terms] :
         prompt' = [prompt EXCEPT !.phase = "claims", !.knowledge = selected]
  BY <1>1
<1>3. p \in DOMAIN Projects /\ terms \in Queries
  BY <1>1, TheInputs DEF PromptInv, TurnInOrder, Reached
<1>4. store \in Stored /\ prompt \in Prompts
  BY PromptTypes DEF PromptInv
<1> HIDE DEF p, terms
<1>5. /\ selected \subseteq [file : DOMAIN Files, first : Nat, last : Nat]
      /\ Length(selected) <= KnowledgeBudget
      /\ Length(Whole[p]) <= KnowledgeBudget => selected = Whole[p]
      /\ Length(Whole[p]) > KnowledgeBudget =>
            \A e \in Chunks[p] \ selected : Length(selected) + Length({e}) > KnowledgeBudget
  BY <1>3, KnowledgeIsSelected
<1>6. /\ prompt' \in Prompts /\ prompt'.input = prompt.input /\ prompt'.context = prompt.context
      /\ prompt'.identity = prompt.identity /\ prompt'.relevant = prompt.relevant
      /\ prompt'.claims = prompt.claims /\ prompt'.contacts = prompt.contacts
      /\ prompt'.knowledge = selected /\ prompt'.phase = "claims"
  BY <1>2, <1>4, <1>5 DEF Prompts
<1>7. PromptTypeOK'
  BY <1>1, <1>4, <1>6, PromptTypesNext
<1>8. KnowledgeIsMaximal'
  BY <1>5, <1>6 DEF KnowledgeIsMaximal, p
<1>9. ~prompt.input.local =>
         /\ \A c \in prompt.claims : Claims[c].sensitivity \notin _LOCAL_ONLY_SENSITIVITIES
         /\ \A c \in prompt.contacts : Contacts[c].sensitivity \notin _LOCAL_ONLY_SENSITIVITIES
  BY DEF PromptInv, TurnInOrder
<1> QED
  BY <1>1, <1>6, <1>7, <1>8, <1>9, StillReading

LEMMA ClaimsReadKeepsPrompt ==
    ASSUME PromptInv, list_claims
    PROVE  PromptInv'
<1> DEFINE allowed == Allowed(store.claims, Claims, prompt.input.local)
           limit == Min({MaxClaims, allocate_token_budget(allowed)})
           next == IF prompt.input.workspace = 0 THEN "projects" ELSE "contacts"
           read == First(limit, allowed, Listed)
<1>1. /\ prompt.phase = "claims" /\ store' = store
      /\ prompt' = [prompt EXCEPT !.phase = next, !.claims = read]
  BY DEF list_claims, Reached
<1>2. store \in Stored /\ prompt \in Prompts
  BY PromptTypes DEF PromptInv
<1>3. prompt.input.local \in BOOLEAN /\ store.claims \subseteq DOMAIN Claims
  BY <1>2, TheInputs DEF Prompts, Stored
<1>4. read \subseteq allowed
  BY DEF First
<1>5. /\ allowed \subseteq DOMAIN Claims
      /\ ~prompt.input.local => \A c \in allowed : Claims[c].sensitivity \notin _LOCAL_ONLY_SENSITIVITIES
  BY <1>3, AllowedRows
<1>6. next \in {"projects", "contacts"}
  OBVIOUS
<1> HIDE DEF allowed, limit, next, read
<1>7. /\ prompt' \in Prompts /\ prompt'.input = prompt.input /\ prompt'.context = prompt.context
      /\ prompt'.identity = prompt.identity /\ prompt'.relevant = prompt.relevant
      /\ prompt'.claims = read /\ prompt'.contacts = prompt.contacts
      /\ prompt'.knowledge = prompt.knowledge /\ prompt'.phase = next
  BY <1>1, <1>2, <1>4, <1>5, <1>6 DEF Prompts
<1>8. PromptTypeOK'
  BY <1>1, <1>2, <1>7, PromptTypesNext
<1>9. KnowledgeIsMaximal'
  BY <1>1, <1>7, SameKnowledge
<1>10. ~prompt.input.local =>
          /\ \A c \in read : Claims[c].sensitivity \notin _LOCAL_ONLY_SENSITIVITIES
          /\ \A c \in prompt.contacts : Contacts[c].sensitivity \notin _LOCAL_ONLY_SENSITIVITIES
  BY <1>4, <1>5 DEF PromptInv, TurnInOrder
<1> QED
  BY <1>1, <1>6, <1>7, <1>8, <1>9, <1>10, StillReading

LEMMA ProjectsReadKeepsPrompt ==
    ASSUME PromptInv, list_projects \/ list_tasks
    PROVE  PromptInv'
<1>1. store \in Stored /\ prompt \in Prompts
  BY PromptTypes DEF PromptInv
<1>2. store.projects \subseteq DOMAIN Projects
  BY <1>1 DEF Stored
<1>3. /\ prompt.phase \in {"projects", "tasks"} /\ store' = store
      /\ \/ prompt' = [prompt EXCEPT !.phase = "tasks", !.projects = store.projects,
                                     !.pending = store.projects \X {1}]
         \/ prompt' = [prompt EXCEPT !.phase = "contacts"]
  BY DEF list_projects, list_tasks, Reached
<1>4. store.projects \X {1} \in SUBSET ((DOMAIN Projects) \X (1..5))
  BY <1>2
<1>5. /\ prompt' \in Prompts /\ prompt'.input = prompt.input /\ prompt'.context = prompt.context
      /\ prompt'.identity = prompt.identity /\ prompt'.relevant = prompt.relevant
      /\ prompt'.claims = prompt.claims /\ prompt'.contacts = prompt.contacts
      /\ prompt'.knowledge = prompt.knowledge /\ prompt'.phase \in {"tasks", "contacts"}
  BY <1>1, <1>2, <1>3, <1>4 DEF Prompts
<1>6. PromptTypeOK'
  BY <1>1, <1>3, <1>5, PromptTypesNext
<1>7. KnowledgeIsMaximal'
  BY <1>3, <1>5, SameKnowledge
<1>8. ~prompt.input.local =>
         /\ \A c \in prompt.claims : Claims[c].sensitivity \notin _LOCAL_ONLY_SENSITIVITIES
         /\ \A c \in prompt.contacts : Contacts[c].sensitivity \notin _LOCAL_ONLY_SENSITIVITIES
  BY DEF PromptInv, TurnInOrder
<1> QED
  BY <1>5, <1>6, <1>7, <1>8, StillReading

LEMMA ContactsReadKeepsPrompt ==
    ASSUME PromptInv, list_contacts
    PROVE  PromptInv'
<1> DEFINE allowed == Allowed(store.contacts, Contacts, prompt.input.local)
<1>1. /\ prompt.phase = "contacts" /\ store' = store
      /\ prompt' = [prompt EXCEPT !.phase = "recall", !.contacts = allowed]
  BY DEF list_contacts, Reached
<1>2. store \in Stored /\ prompt \in Prompts
  BY PromptTypes DEF PromptInv
<1>3. prompt.input.local \in BOOLEAN /\ store.contacts \subseteq DOMAIN Contacts
  BY <1>2, TheInputs DEF Prompts, Stored
<1>4. /\ allowed \subseteq DOMAIN Contacts
      /\ ~prompt.input.local => \A c \in allowed : Contacts[c].sensitivity \notin _LOCAL_ONLY_SENSITIVITIES
  BY <1>3, AllowedRows
<1> HIDE DEF allowed
<1>5. /\ prompt' \in Prompts /\ prompt'.input = prompt.input /\ prompt'.context = prompt.context
      /\ prompt'.identity = prompt.identity /\ prompt'.relevant = prompt.relevant
      /\ prompt'.claims = prompt.claims /\ prompt'.contacts = allowed
      /\ prompt'.knowledge = prompt.knowledge /\ prompt'.phase = "recall"
  BY <1>1, <1>2, <1>4 DEF Prompts
<1>6. PromptTypeOK'
  BY <1>1, <1>2, <1>5, PromptTypesNext
<1>7. KnowledgeIsMaximal'
  BY <1>1, <1>5, SameKnowledge
<1>8. ~prompt.input.local =>
         /\ \A c \in prompt.claims : Claims[c].sensitivity \notin _LOCAL_ONLY_SENSITIVITIES
         /\ \A c \in allowed : Contacts[c].sensitivity \notin _LOCAL_ONLY_SENSITIVITIES
  BY <1>4 DEF PromptInv, TurnInOrder
<1> QED
  BY <1>5, <1>6, <1>7, <1>8, StillReading

LEMMA AssembleKeepsPrompt ==
    ASSUME PromptInv, assemble_with_report
    PROVE  PromptInv'
<1>1. PICK read \in {Gathered(n) : n \in 0..MaxEpisodes} :
         prompt' = [prompt EXCEPT !.phase = "done", !.context = Fitted(read)]
  BY DEF assemble_with_report
<1>2. store' = store /\ prompt.phase = "recall"
  BY DEF assemble_with_report, Reached
<1> DEFINE people == match_contacts(prompt.input.terms, prompt.contacts)
           roster == First(MaxContacts, prompt.contacts, Listed)
<1>3. PICK n \in 0..MaxEpisodes :
         read = [claims |-> prompt.claims, projects |-> prompt.projects,
                 contacts |-> roster, matches |-> people, episodes |-> n, full |-> TRUE]
  BY <1>1 DEF Gathered
<1>4. store \in Stored /\ prompt \in Prompts
  BY PromptTypes DEF PromptInv
<1>5. roster \subseteq prompt.contacts /\ people \subseteq prompt.contacts
  BY MatchesAreMeant DEF First
<1>6. \A c \in people : ~Guessed(c, prompt.contacts)
  BY MatchesAreMeant DEF Guessed
<1> HIDE DEF people, roster
<1>7. /\ read \in Contexts
      /\ read.claims = prompt.claims /\ read.projects = prompt.projects
      /\ read.contacts = roster /\ read.matches = people /\ read.full
  <2>1. /\ prompt.claims \in SUBSET DOMAIN Claims /\ prompt.projects \in SUBSET DOMAIN Projects
        /\ prompt.contacts \in SUBSET DOMAIN Contacts
    BY <1>4 DEF Prompts
  <2>2. n \in Nat
    BY TheLimits
  <2> QED
    BY <1>3, <1>5, <2>1, <2>2 DEF Contexts
<1> DEFINE shown == Fitted(read)
<1>8. /\ shown \in Contexts /\ _render_context(shown) <= CharLimit
      /\ shown.claims \subseteq read.claims /\ shown.contacts \subseteq read.contacts
      /\ shown.matches \subseteq read.matches
      /\ shown # read => shown.episodes = 0
      /\ shown # NoContext => shown.matches = read.matches
  BY <1>7, FittedFits
<1> HIDE DEF shown
<1>9. /\ prompt' \in Prompts /\ prompt'.input = prompt.input /\ prompt'.context = shown
      /\ prompt'.identity = prompt.identity /\ prompt'.relevant = prompt.relevant
      /\ prompt'.claims = prompt.claims /\ prompt'.contacts = prompt.contacts
      /\ prompt'.projects = prompt.projects
      /\ prompt'.knowledge = prompt.knowledge /\ prompt'.phase = "done"
  BY <1>1, <1>4, <1>8 DEF Prompts, shown
<1>10. PromptTypeOK'
  BY <1>2, <1>4, <1>9, PromptTypesNext
<1>11. KnowledgeIsMaximal'
  BY <1>2, <1>9, SameKnowledge
<1>12. TurnInOrder'
  BY <1>9 DEF PromptInv, TurnInOrder, Reached
<1>13. ContextFits'
  BY <1>8, <1>9 DEF ContextFits, Context
<1>14. RecallGivesWay'
  <2> SUFFICES ASSUME shown.episodes > 0
               PROVE  /\ shown.full
                      /\ shown.claims = prompt.claims /\ shown.projects = prompt.projects
                      /\ shown.contacts = First(MaxContacts, prompt.contacts, Listed)
    BY <1>9 DEF RecallGivesWay, Context
  <2>1. shown = read
    BY <1>8
  <2> QED
    BY <1>7, <2>1 DEF roster
<1>15. NamedPeopleSurvive'
  <2> SUFFICES ASSUME shown # NoContext
               PROVE  shown.matches = match_contacts(prompt.input.terms, prompt.contacts)
    BY <1>9 DEF NamedPeopleSurvive, Context
  <2> QED
    BY <1>7, <1>8 DEF people
<1>16. GuessesNobody'
  <2>1. \A c \in shown.matches : ~Guessed(c, prompt.contacts)
    BY <1>6, <1>7, <1>8
  <2>2. \A c : Guessed(c, prompt.contacts)' <=> Guessed(c, prompt.contacts)
    BY <1>9 DEF Guessed
  <2> QED
    BY <1>9, <2>1 DEF GuessesNobody, Context, Guessed
<1>17. WithheldStaysOut'
  <2>1. shown.claims \union prompt.identity \union prompt.relevant
          \subseteq prompt.claims \union prompt.identity \union prompt.relevant
        /\ shown.contacts \union shown.matches \subseteq prompt.contacts
    BY <1>5, <1>7, <1>8
  <2>2. ~prompt.input.local =>
           /\ \A c \in prompt.claims \union prompt.identity \union prompt.relevant :
                 Claims[c].sensitivity \notin _LOCAL_ONLY_SENSITIVITIES
           /\ \A c \in prompt.contacts : Contacts[c].sensitivity \notin _LOCAL_ONLY_SENSITIVITIES
    BY DEF PromptInv, TurnInOrder, WithheldStaysOut, Shown
  <2> QED
    BY <1>9, <2>1, <2>2 DEF WithheldStaysOut, Context, Shown
<1>18. LanesKeepBudget'
  BY <1>9 DEF LanesKeepBudget, Reached
<1> QED
  BY <1>10, <1>11, <1>12, <1>13, <1>14, <1>15, <1>16, <1>17, <1>18 DEF PromptInv

LEMMA RecallKeepsPrompt ==
    ASSUME PromptInv, NEW input \in Messages, recall(input)
    PROVE  PromptInv'
<1> DEFINE candidates == Allowed(store.claims, Claims, input.local)
           floor == IdentityFloor(candidates)
           edges == _load_related_edges(input.terms)
<1>1. PICK relevant \in Relevant[input.terms][candidates] :
         prompt' = [NoPrompt EXCEPT !.phase = "recalled", !.input = input,
                       !.identity = floor, !.relevant = relevant, !.related = edges]
  BY DEF recall
<1>2. store' = store /\ input.workspace = 0
  BY DEF recall
<1>3. store \in Stored
  BY PromptTypes DEF PromptInv
<1>4. input.local \in BOOLEAN /\ input.terms \in Queries
  BY TheInputs
<1>5. /\ candidates \in SUBSET DOMAIN Claims
      /\ ~input.local => \A c \in candidates : Claims[c].sensitivity \notin _LOCAL_ONLY_SENSITIVITIES
  <2>1. store.claims \subseteq DOMAIN Claims
    BY <1>3 DEF Stored
  <2> QED
    BY <1>4, <2>1, AllowedRows
<1>6. edges \subseteq DOMAIN Relations
  BY DEF _load_related_edges, First
<1> HIDE DEF candidates, edges
<1> DEFINE shown == floor \union relevant
<1>7. /\ floor \subseteq candidates /\ relevant \subseteq candidates
      /\ LanesUsed(input.terms, candidates, shown)
  BY <1>4, <1>5, TheRecallBlock
<1> HIDE DEF floor
<1>8. /\ prompt' \in Prompts /\ prompt'.input = input /\ prompt'.context = NoContext
      /\ prompt'.identity = floor /\ prompt'.relevant = relevant
      /\ prompt'.claims = {} /\ prompt'.contacts = {} /\ prompt'.phase = "recalled"
  BY <1>1, <1>5, <1>6, <1>7, NothingRead DEF Prompts
<1>9. PromptTypeOK'
  BY <1>2, <1>3, <1>8, PromptTypesNext
<1>10. KnowledgeIsMaximal'
  BY <1>2, <1>8 DEF KnowledgeIsMaximal
<1>11. TurnInOrder'
  BY <1>8 DEF TurnInOrder, Reached
<1>12. ContextFits'
  BY <1>8, NothingToShow, TheLimits DEF ContextFits, Context
<1>13. RecallGivesWay' /\ NamedPeopleSurvive' /\ GuessesNobody'
  BY <1>8 DEF RecallGivesWay, NamedPeopleSurvive, GuessesNobody, Reached
<1>14. Shown' = shown
  BY <1>8 DEF Shown
<1>15. WithheldStaysOut'
  <2>1. Context'.claims = {} /\ Context'.contacts = {} /\ Context'.matches = {}
    BY <1>8 DEF Context, NoContext
  <2>2. shown \subseteq candidates
    BY <1>7
  <2> HIDE DEF shown
  <2> QED
    BY <1>5, <1>8, <1>14, <2>1, <2>2 DEF WithheldStaysOut
<1>16. LanesKeepBudget'
  <2>1. Allowed(store.claims, Claims, prompt.input.local)' = candidates
    BY <1>2, <1>8 DEF candidates, Allowed
  <2> HIDE DEF shown
  <2> QED
    BY <1>7, <1>8, <1>14, <2>1 DEF LanesKeepBudget, LanesUsed
<1> QED
  BY <1>9, <1>10, <1>11, <1>12, <1>13, <1>15, <1>16 DEF PromptInv

LEMMA DeleteKeepsPrompt ==
    ASSUME PromptInv, NEW p \in Deletable, delete_project(p)
    PROVE  PromptInv'
<1>1. store \in Stored /\ prompt \in Prompts
  BY PromptTypes DEF PromptInv
<1>2. prompt' = prompt /\ store' = [store EXCEPT !.projects = @ \ {p}]
  BY DEF delete_project
<1>3. store' \in Stored /\ store'.claims = store.claims
  BY <1>1, <1>2 DEF Stored
<1>4. PromptTypeOK'
  BY <1>1, <1>2, <1>3, PromptTypesNext
<1>5. TurnInOrder'
  BY <1>2 DEF PromptInv, TurnInOrder, Reached
<1>6. ContextFits' /\ RecallGivesWay' /\ NamedPeopleSurvive' /\ WithheldStaysOut'
  BY <1>2
  DEF PromptInv, ContextFits, RecallGivesWay, NamedPeopleSurvive, WithheldStaysOut, Context,
      Shown, Reached
<1>7. GuessesNobody' /\ KnowledgeIsMaximal'
  BY <1>2 DEF PromptInv, GuessesNobody, KnowledgeIsMaximal, Guessed, Context, Reached
<1>8. LanesKeepBudget'
  BY <1>2, <1>3 DEF PromptInv, LanesKeepBudget, Reached, Shown
<1> QED
  BY <1>4, <1>5, <1>6, <1>7, <1>8 DEF PromptInv

LEMMA StepKeepsPrompt == PromptInv /\ [PromptNext]_promptVars => PromptInv'
<1> SUFFICES ASSUME PromptInv, [PromptNext]_promptVars PROVE PromptInv'
  OBVIOUS
<1>1. CASE \E input \in Messages : _build_llm_messages(input) \/ recall(input)
  BY <1>1, BeginKeepsPrompt, RecallKeepsPrompt
<1>2. CASE get_project
  BY <1>2, ProjectReadKeepsPrompt
<1>3. CASE build
  BY <1>3, BuildKeepsPrompt
<1>4. CASE list_claims
  BY <1>4, ClaimsReadKeepsPrompt
<1>5. CASE list_projects \/ list_tasks
  BY <1>5, ProjectsReadKeepsPrompt
<1>6. CASE list_contacts
  BY <1>6, ContactsReadKeepsPrompt
<1>7. CASE assemble_with_report
  BY <1>7, AssembleKeepsPrompt
<1>8. CASE Sent
  BY <1>8, SentKeepsPrompt
<1>9. CASE \E p \in Deletable : delete_project(p)
  BY <1>9, DeleteKeepsPrompt
<1>10. CASE UNCHANGED promptVars
  <2>1. store' = store /\ prompt' = prompt
    BY <1>10 DEF promptVars
  <2>2. PromptTypeOK'
    BY <2>1, PromptTypes, PromptTypesNext DEF PromptInv
  <2>3. TurnInOrder'
    BY <2>1 DEF PromptInv, TurnInOrder, Reached
  <2>4. ContextFits' /\ RecallGivesWay' /\ NamedPeopleSurvive' /\ WithheldStaysOut'
    BY <2>1
    DEF PromptInv, ContextFits, RecallGivesWay, NamedPeopleSurvive, WithheldStaysOut, Context,
        Shown, Reached
  <2>5. GuessesNobody' /\ KnowledgeIsMaximal' /\ LanesKeepBudget'
    BY <2>1 DEF PromptInv, GuessesNobody, KnowledgeIsMaximal, LanesKeepBudget, Guessed, Context,
        Reached, Shown
  <2> QED
    BY <2>2, <2>3, <2>4, <2>5 DEF PromptInv
<1> QED
  BY <1>1, <1>2, <1>3, <1>4, <1>5, <1>6, <1>7, <1>8, <1>9, <1>10 DEF PromptNext

-----------------------------------------------------------------------------
(* PromptAssembly: theorems                                                *)

LEMMA PromptInvariant == PromptSpec => []PromptInv
<1>1. PromptInit => PromptInv
  BY InitKeepsPrompt
<1>2. PromptInv /\ [PromptNext]_promptVars => PromptInv'
  BY StepKeepsPrompt
<1> QED
  BY <1>1, <1>2, PTL DEF PromptSpec

\* However much is stored, named and recalled, the user context stays within its
\* limit (_CHAR_LIMIT), and recalled episodes are shown only next to everything
\* else (the loops of assemble_with_report).
THEOREM PromptFits == PromptSpec => []BlockFits
<1>1. PromptInv => BlockFits
  BY DEF PromptInv, BlockFits
<1> QED
  BY <1>1, PromptInvariant, PTL

\* match_contacts and compaction: whoever a message names is described in full,
\* and nobody because of a first name that several contacts carry.
THEOREM OnlyPeopleMeant == PromptSpec => []MentionedPeople
<1>1. PromptInv => MentionedPeople
  BY DEF PromptInv, MentionedPeople
<1> QED
  BY <1>1, PromptInvariant, PTL

\* No S3 or S4 claim or contact is shown to a provider that is not local, by
\* whatever path it could get into a block.
THEOREM PrivateRowsStayLocal == PromptSpec => []WithheldStaysOut
<1>1. PromptInv => WithheldStaysOut
  BY DEF PromptInv
<1> QED
  BY <1>1, PromptInvariant, PTL

\* _select_knowledge and the lanes of recall: greedy selection never exceeds a
\* budget, and nothing it leaves out would have fitted into what is left.
THEOREM BudgetsNotWasted == PromptSpec => []BudgetsWellUsed
<1>1. PromptInv => BudgetsWellUsed
  BY DEF PromptInv, BudgetsWellUsed
<1> QED
  BY <1>1, PromptInvariant, PTL

=============================================================================
