--------------------------- MODULE MemoryWriteProofs ---------------------------
(***************************************************************************)
(* Proofs about MemoryWrite for every set of writers and facts and every   *)
(* cap: how many values of a single-valued attribute overlapping requests  *)
(* may leave behind, and how far they may pass the rebound cap.            *)
(***************************************************************************)
EXTENDS MemoryWrite, TLAPS, FiniteSetTheorems

-----------------------------------------------------------------------------
(* The inductive invariant                                                 *)

WriterType == [phase : Phases, fact : Fact \union {NoFact}, old : Nat, active : BOOLEAN]

Types ==
    /\ facts \in Seq([fact : Fact, state : States])
    /\ rebound \in [age : {"none", "recent", "idle"}, active : BOOLEAN, count : Nat, ttl : BOOLEAN]
    /\ writer \in [Writers -> WriterType]
    /\ writes \in 0 .. MaxWrites /\ edits \in 0 .. MaxEdits
    /\ confirming \subseteq DOMAIN facts /\ unchecked \subseteq DOMAIN facts
    /\ flood \in [resumed : BOOLEAN, written : Nat, lost : Nat]

WriterKnows(w) ==
    /\ ~At(w, "idle") => writer[w].fact \in Fact
    /\ At(w, "supersede") => writer[w].old \in DOMAIN facts

\* Requests that have yet to insert; that have yet to be counted; that have
\* passed the rebound cap and are yet to insert; that have inserted what the
\* count does not yet hold.
Early == {w \in Writers : writer[w].phase \in {"rebound", "find", "supersede", "create"}}
Uncounted == {w \in Writers : writer[w].phase \in {"rebound", "find", "supersede", "create",
                                                   "hset", "hincrby"}}
Granted == {w \in Writers : writer[w].phase \in {"find", "supersede", "create"} /\ Counts(w)}
Pending == {w \in Writers : writer[w].phase \in {"hset", "hincrby"} /\ Counts(w)}

\* Each request is counted, and adds to what is written, at most once.
OncePerRequest ==
    /\ rebound.count + Cardinality(Uncounted) <= writes
    /\ flood.written + Cardinality(Early) <= writes

\* The mode outlasts the first write after the gap: the age of the hash or its
\* flag says so, and every request that may still write the flag knows.
ModeIsKept ==
    flood.resumed =>
      /\ rebound.active \/ rebound.age = "idle"
      /\ \A w \in Writers : writer[w].phase \in {"find", "supersede", "create", "hset"}
                              => writer[w].active

\* What a resumed session has written is counted, about to be, or lost; what it
\* may still write beyond the count stays within the cap and one per request.
FloodBounded ==
    IF flood.resumed
    THEN /\ flood.lost + Cardinality(Pending) <= flood.written
         /\ flood.written <= rebound.count + Cardinality(Pending) + flood.lost
         /\ flood.written + Cardinality(Granted)
              <= MaxNonIdentity + Cardinality(Writers) - 1 + flood.lost
    ELSE flood.written = 0 /\ flood.lost = 0

\* Requests that will insert a value of this attribute, the values they are about
\* to supersede, and the values nobody is about to supersede, without those that
\* became current past the lookup.
Inserting(lane, attribute) ==
    {w \in Writers : /\ writer[w].phase \in {"supersede", "create"}
                     /\ writer[w].fact.lane = lane /\ writer[w].fact.attribute = attribute}

Superseding(lane, attribute) ==
    {writer[w].old : w \in {v \in Inserting(lane, attribute) : At(v, "supersede")}}

Staying(lane, attribute) == (Values(lane, attribute) \ unchecked) \ Superseding(lane, attribute)

SingleLanes == {"identity", "authorization"}

OnePerWriter ==
    \A lane \in SingleLanes, attribute \in STRING :
      Cardinality(Staying(lane, attribute)) + Cardinality(Inserting(lane, attribute))
        <= Cardinality(Writers)

WriteInv ==
    /\ Types /\ (\A w \in Writers : WriterKnows(w))
    /\ OncePerRequest /\ ModeIsKept /\ FloodBounded
    /\ OnePerWriter

-----------------------------------------------------------------------------
(* Counting requests                                                       *)

\* A set of requests that one request may enter or leave.
MovesBy(S, T, w) ==
    /\ IsFiniteSet(S) /\ IsFiniteSet(T)
    /\ Cardinality(S) \in Nat /\ Cardinality(T) \in Nat
    /\ (w \in S <=> w \in T) => Cardinality(T) = Cardinality(S)
    /\ w \in S /\ w \notin T => Cardinality(S) = Cardinality(T) + 1
    /\ w \notin S /\ w \in T => Cardinality(T) = Cardinality(S) + 1

LEMMA CardMoves ==
    ASSUME NEW S \in SUBSET Writers, NEW T \in SUBSET Writers, NEW w \in Writers,
           \A v \in Writers : v # w => (v \in S <=> v \in T)
    PROVE  MovesBy(S, T, w)
<1>1. IsFiniteSet(S) /\ IsFiniteSet(T)
  BY WriteAssumption, FS_Subset
<1>2. Cardinality(S) \in Nat /\ Cardinality(T) \in Nat
  BY <1>1, FS_CardinalityType
<1>3. CASE w \in S <=> w \in T
  <2>1. S = T
    BY <1>3
  <2> QED
    BY <1>1, <1>2, <1>3, <2>1 DEF MovesBy
<1>4. CASE w \in S /\ w \notin T
  <2>1. S = T \union {w}
    BY <1>4
  <2>2. Cardinality(S) = Cardinality(T) + 1
    BY <1>1, <1>4, <2>1, FS_AddElement
  <2> QED
    BY <1>1, <1>2, <1>4, <2>2 DEF MovesBy
<1>5. CASE w \notin S /\ w \in T
  <2>1. T = S \union {w}
    BY <1>5
  <2>2. Cardinality(T) = Cardinality(S) + 1
    BY <1>1, <1>5, <2>1, FS_AddElement
  <2> QED
    BY <1>1, <1>2, <1>5, <2>2 DEF MovesBy
<1> QED
  BY <1>3, <1>4, <1>5

\* One request moves to x; the sets of requests follow.
LEMMA WriterMoves ==
    ASSUME Types, NEW w \in Writers, NEW x \in WriterType, writer' = [writer EXCEPT ![w] = x]
    PROVE  /\ writer' \in [Writers -> WriterType]
           /\ writer'[w] = x /\ \A v \in Writers : v # w => writer'[v] = writer[v]
           /\ MovesBy(Early, Early', w) /\ MovesBy(Uncounted, Uncounted', w)
           /\ MovesBy(Granted, Granted', w) /\ MovesBy(Pending, Pending', w)
<1>1. /\ writer' \in [Writers -> WriterType]
      /\ writer'[w] = x /\ \A v \in Writers : v # w => writer'[v] = writer[v]
  BY DEF Types
<1>2. MovesBy(Early, Early', w)
  <2>1. /\ Early \in SUBSET Writers /\ Early' \in SUBSET Writers
        /\ \A v \in Writers : v # w => (v \in Early <=> v \in Early')
    BY <1>1 DEF Early
  <2> QED
    BY <2>1, CardMoves
<1>3. MovesBy(Uncounted, Uncounted', w)
  <2>1. /\ Uncounted \in SUBSET Writers /\ Uncounted' \in SUBSET Writers
        /\ \A v \in Writers : v # w => (v \in Uncounted <=> v \in Uncounted')
    BY <1>1 DEF Uncounted
  <2> QED
    BY <2>1, CardMoves
<1>4. MovesBy(Granted, Granted', w)
  <2>1. /\ Granted \in SUBSET Writers /\ Granted' \in SUBSET Writers
        /\ \A v \in Writers : v # w => (v \in Granted <=> v \in Granted')
    BY <1>1 DEF Granted, Counts
  <2> QED
    BY <2>1, CardMoves
<1>5. MovesBy(Pending, Pending', w)
  <2>1. /\ Pending \in SUBSET Writers /\ Pending' \in SUBSET Writers
        /\ \A v \in Writers : v # w => (v \in Pending <=> v \in Pending')
    BY <1>1 DEF Pending, Counts
  <2> QED
    BY <2>1, CardMoves
<1> QED
  BY <1>1, <1>2, <1>3, <1>4, <1>5

LEMMA Bounds ==
    /\ MaxNonIdentity \in Nat /\ MaxWrites \in Nat /\ MaxEdits \in Nat
    /\ IsFiniteSet(Writers) /\ Cardinality(Writers) \in Nat /\ Cardinality(Writers) >= 1
<1>1. IsFiniteSet(Writers) /\ Cardinality(Writers) \in Nat
  BY WriteAssumption, FS_CardinalityType
<1>2. Cardinality(Writers) # 0
  BY <1>1, WriteAssumption, FS_EmptySet
<1> QED
  BY <1>1, <1>2, WriteAssumption

LEMMA DisjointCards ==
    ASSUME NEW G \in SUBSET Writers, NEW P \in SUBSET Writers, G \cap P = {}
    PROVE  /\ Cardinality(G) \in Nat /\ Cardinality(P) \in Nat
           /\ Cardinality(G) + Cardinality(P) <= Cardinality(Writers)
<1>1. IsFiniteSet(G) /\ IsFiniteSet(P)
  BY Bounds, FS_Subset
<1>2. Cardinality(G \union P) = Cardinality(G) + Cardinality(P) - Cardinality(G \cap P)
  BY <1>1, FS_Union
<1>3. Cardinality(G \cap P) = 0
  BY FS_EmptySet
<1>4. Cardinality(G \union P) <= Cardinality(Writers)
  BY Bounds, FS_Subset
<1>5. Cardinality(G) \in Nat /\ Cardinality(P) \in Nat
  BY <1>1, FS_CardinalityType
<1> QED
  BY <1>2, <1>3, <1>4, <1>5

-----------------------------------------------------------------------------
(* The rebound cap, step by step                                           *)

CountsInv == OncePerRequest /\ ModeIsKept /\ FloodBounded

LEMMA BeginCounts ==
    ASSUME WriteInv, NEW w \in Writers, At(w, "idle"), NEW x \in WriterType,
           writer' = [writer EXCEPT ![w] = x], x.phase = "rebound",
           writes' = writes + 1, UNCHANGED <<rebound, flood>>
    PROVE  CountsInv'
<1>1. /\ writer'[w] = x /\ \A v \in Writers : v # w => writer'[v] = writer[v]
      /\ MovesBy(Early, Early', w) /\ MovesBy(Uncounted, Uncounted', w)
      /\ MovesBy(Granted, Granted', w) /\ MovesBy(Pending, Pending', w)
  BY WriterMoves DEF WriteInv
<1>2. /\ w \notin Early /\ w \notin Uncounted /\ w \notin Granted /\ w \notin Pending
      /\ w \in Early' /\ w \in Uncounted' /\ w \notin Granted' /\ w \notin Pending'
  BY <1>1 DEF At, Early, Uncounted, Granted, Pending
<1>3. OncePerRequest'
  BY <1>1, <1>2 DEF WriteInv, OncePerRequest, MovesBy, Types
<1>4. ModeIsKept'
  BY <1>1 DEF WriteInv, ModeIsKept
<1>5. FloodBounded'
  BY <1>1, <1>2 DEF WriteInv, FloodBounded, MovesBy
<1> QED
  BY <1>3, <1>4, <1>5 DEF CountsInv

LEMMA GrantCounts ==
    ASSUME WriteInv, NEW w \in Writers, At(w, "rebound"), NEW x \in WriterType,
           writer' = [writer EXCEPT ![w] = x],
           x.phase = "find", x.fact = writer[w].fact,
           x.active = (rebound.active \/ rebound.age = "idle"),
           evaluate_rebound(x.fact.lane, x.active, rebound.count),
           UNCHANGED <<writes, rebound, flood>>
    PROVE  CountsInv'
<1>1. /\ writer' \in [Writers -> WriterType]
      /\ writer'[w] = x /\ \A v \in Writers : v # w => writer'[v] = writer[v]
      /\ MovesBy(Early, Early', w) /\ MovesBy(Uncounted, Uncounted', w)
      /\ MovesBy(Granted, Granted', w) /\ MovesBy(Pending, Pending', w)
  BY WriterMoves DEF WriteInv
<1>2. /\ w \in Early /\ w \in Uncounted /\ w \notin Granted /\ w \notin Pending
      /\ w \in Early' /\ w \in Uncounted' /\ w \notin Pending'
      /\ w \in Granted' => x.fact.lane # "identity"
  BY <1>1 DEF At, Early, Uncounted, Granted, Pending, Counts
<1>3. OncePerRequest'
  BY <1>1, <1>2 DEF WriteInv, OncePerRequest, MovesBy, Types
<1>4. ModeIsKept'
  BY <1>1 DEF WriteInv, ModeIsKept
<1>5. FloodBounded'
  <2>1. CASE ~(flood.resumed /\ w \in Granted')
    BY <1>1, <1>2, <2>1 DEF WriteInv, FloodBounded, MovesBy
  <2>2. CASE flood.resumed /\ w \in Granted'
    <3>1. rebound.count < MaxNonIdentity
      BY <1>2, <2>2 DEF evaluate_rebound, WriteInv, ModeIsKept
    <3>2. Granted' \in SUBSET Writers /\ Pending' \in SUBSET Writers /\ Granted' \cap Pending' = {}
      BY DEF Granted, Pending
    <3>3. Cardinality(Granted') + Cardinality(Pending') <= Cardinality(Writers)
      BY <3>2, DisjointCards
    <3>4. Cardinality(Pending') = Cardinality(Pending)
      BY <1>1, <1>2 DEF MovesBy
    <3> HIDE DEF Granted, Pending
    <3>5. /\ Cardinality(Granted') \in Nat /\ Cardinality(Pending) \in Nat
          /\ rebound.count \in Nat /\ flood.written \in Nat /\ flood.lost \in Nat
      BY <1>1 DEF MovesBy, WriteInv, Types
    <3> QED
      BY <2>2, <3>1, <3>3, <3>4, <3>5, Bounds DEF WriteInv, FloodBounded
  <2> QED
    BY <2>1, <2>2
<1> QED
  BY <1>3, <1>4, <1>5 DEF CountsInv

\* Between the cap and the INSERT.
LEMMA OnwardCounts ==
    ASSUME WriteInv, NEW w \in Writers, NEW x \in WriterType,
           writer[w].phase \in {"find", "supersede"}, x.phase \in {"supersede", "create"},
           writer' = [writer EXCEPT ![w] = x],
           x.fact = writer[w].fact, x.active = writer[w].active,
           UNCHANGED <<writes, rebound, flood>>
    PROVE  CountsInv'
<1>1. /\ writer'[w] = x /\ \A v \in Writers : v # w => writer'[v] = writer[v]
      /\ MovesBy(Early, Early', w) /\ MovesBy(Uncounted, Uncounted', w)
      /\ MovesBy(Granted, Granted', w) /\ MovesBy(Pending, Pending', w)
  BY WriterMoves DEF WriteInv
<1>2. /\ w \in Early /\ w \in Uncounted /\ w \notin Pending
      /\ w \in Early' /\ w \in Uncounted' /\ w \notin Pending'
      /\ w \in Granted <=> w \in Granted'
  BY <1>1 DEF Early, Uncounted, Granted, Pending, Counts
<1>3. OncePerRequest'
  BY <1>1, <1>2 DEF WriteInv, OncePerRequest, MovesBy, Types
<1>4. ModeIsKept'
  BY <1>1 DEF WriteInv, ModeIsKept
<1>5. FloodBounded'
  BY <1>1, <1>2 DEF WriteInv, FloodBounded, MovesBy
<1> QED
  BY <1>3, <1>4, <1>5 DEF CountsInv

\* The end of a request; one that dies before it is counted is remembered.
LEMMA EndCounts ==
    ASSUME WriteInv, NEW w \in Writers, writer' = [writer EXCEPT ![w] = Idle], UNCHANGED writes,
           rebound'.count = rebound.count, rebound'.active = rebound.active,
           rebound'.age = rebound.age,
           flood' = IF flood.resumed /\ Counts(w) /\ writer[w].phase \in {"hset", "hincrby"}
                    THEN [flood EXCEPT !.lost = @ + 1] ELSE flood
    PROVE  CountsInv' /\ flood' \in [resumed : BOOLEAN, written : Nat, lost : Nat]
<1>0. Idle \in WriterType /\ Idle.phase = "idle"
  BY DEF Idle, WriterType, Phases
<1>1. /\ writer'[w] = Idle /\ \A v \in Writers : v # w => writer'[v] = writer[v]
      /\ MovesBy(Early, Early', w) /\ MovesBy(Uncounted, Uncounted', w)
      /\ MovesBy(Granted, Granted', w) /\ MovesBy(Pending, Pending', w)
  BY <1>0, WriterMoves DEF WriteInv
<1>2. w \notin Early' /\ w \notin Uncounted' /\ w \notin Granted' /\ w \notin Pending'
  BY <1>0, <1>1 DEF Early, Uncounted, Granted, Pending
<1>3. /\ flood'.resumed = flood.resumed /\ flood'.written = flood.written
      /\ flood'.lost = IF flood.resumed /\ w \in Pending THEN flood.lost + 1 ELSE flood.lost
      /\ flood' \in [resumed : BOOLEAN, written : Nat, lost : Nat]
  BY DEF WriteInv, Types, Pending
<1>4. /\ flood.lost \in Nat /\ flood.written \in Nat /\ rebound.count \in Nat /\ writes \in Int
      /\ OncePerRequest /\ FloodBounded
  BY Bounds DEF WriteInv, Types
<1>5. OncePerRequest'
  <2>1. /\ Cardinality(Early)' <= Cardinality(Early)
        /\ Cardinality(Uncounted)' <= Cardinality(Uncounted)
        /\ Cardinality(Early) \in Nat /\ Cardinality(Early)' \in Nat
        /\ Cardinality(Uncounted) \in Nat /\ Cardinality(Uncounted)' \in Nat
    BY <1>1, <1>2 DEF MovesBy
  <2> HIDE DEF Early, Uncounted
  <2> QED
    BY <1>3, <1>4, <2>1 DEF OncePerRequest
<1>6. ModeIsKept'
  BY <1>0, <1>1, <1>3 DEF WriteInv, ModeIsKept
<1>7. FloodBounded'
  <2>1. /\ Cardinality(Granted)' <= Cardinality(Granted)
        /\ Cardinality(Granted) \in Nat /\ Cardinality(Granted)' \in Nat
        /\ Cardinality(Pending) \in Nat /\ Cardinality(Pending)' \in Nat
        /\ w \in Pending => Cardinality(Pending) = Cardinality(Pending)' + 1
        /\ w \notin Pending => Cardinality(Pending)' = Cardinality(Pending)
    BY <1>1, <1>2 DEF MovesBy
  <2>2. CASE w \in Pending
    BY <1>3, <1>4, <2>1, <2>2, Bounds DEF FloodBounded
  <2>3. CASE w \notin Pending
    BY <1>3, <1>4, <2>1, <2>3, Bounds DEF FloodBounded
  <2> QED
    BY <2>2, <2>3
<1> QED
  BY <1>3, <1>5, <1>6, <1>7 DEF CountsInv

LEMMA CreateCounts ==
    ASSUME WriteInv, NEW w \in Writers, At(w, "create"), NEW x \in WriterType,
           writer' = [writer EXCEPT ![w] = x],
           x.phase = "hset", x.fact = writer[w].fact, x.active = writer[w].active,
           UNCHANGED <<writes, rebound>>,
           flood' = IF Counts(w) /\ flood.resumed THEN [flood EXCEPT !.written = @ + 1] ELSE flood
    PROVE  CountsInv' /\ flood' \in [resumed : BOOLEAN, written : Nat, lost : Nat]
<1>1. /\ writer'[w] = x /\ \A v \in Writers : v # w => writer'[v] = writer[v]
      /\ MovesBy(Early, Early', w) /\ MovesBy(Uncounted, Uncounted', w)
      /\ MovesBy(Granted, Granted', w) /\ MovesBy(Pending, Pending', w)
  BY WriterMoves DEF WriteInv
<1>2. /\ w \in Early /\ w \in Uncounted /\ w \notin Pending
      /\ w \notin Early' /\ w \in Uncounted' /\ w \notin Granted'
      /\ w \in Granted <=> Counts(w)
      /\ w \in Pending' <=> Counts(w)
  BY <1>1 DEF At, Early, Uncounted, Granted, Pending, Counts
<1>3. /\ flood'.resumed = flood.resumed /\ flood'.lost = flood.lost
      /\ flood'.written = IF Counts(w) /\ flood.resumed THEN flood.written + 1 ELSE flood.written
      /\ flood' \in [resumed : BOOLEAN, written : Nat, lost : Nat]
  BY DEF WriteInv, Types
<1>4. /\ flood.lost \in Nat /\ flood.written \in Nat /\ rebound.count \in Nat /\ writes \in Int
      /\ OncePerRequest /\ FloodBounded
  BY Bounds DEF WriteInv, Types
<1>5. OncePerRequest'
  <2>1. /\ Cardinality(Early) = Cardinality(Early)' + 1
        /\ Cardinality(Uncounted)' = Cardinality(Uncounted)
        /\ Cardinality(Early)' \in Nat /\ Cardinality(Uncounted) \in Nat
    BY <1>1, <1>2 DEF MovesBy
  <2> HIDE DEF Early, Uncounted
  <2> QED
    BY <1>3, <1>4, <2>1 DEF OncePerRequest
<1>6. ModeIsKept'
  BY <1>1, <1>3 DEF WriteInv, ModeIsKept, At
<1>7. FloodBounded'
  <2>1. /\ Cardinality(Granted)' \in Nat /\ Cardinality(Pending) \in Nat
        /\ Counts(w) => /\ Cardinality(Granted) = Cardinality(Granted)' + 1
                        /\ Cardinality(Pending)' = Cardinality(Pending) + 1
        /\ ~Counts(w) => /\ Cardinality(Granted) = Cardinality(Granted)'
                         /\ Cardinality(Pending)' = Cardinality(Pending)
    BY <1>1, <1>2 DEF MovesBy
  <2>2. CASE Counts(w)
    BY <1>3, <1>4, <2>1, <2>2, Bounds DEF FloodBounded
  <2>3. CASE ~Counts(w)
    BY <1>3, <1>4, <2>1, <2>3, Bounds DEF FloodBounded
  <2> QED
    BY <2>2, <2>3
<1> QED
  BY <1>3, <1>5, <1>6, <1>7 DEF CountsInv

LEMMA HsetCounts ==
    ASSUME WriteInv, NEW w \in Writers, At(w, "hset"), NEW x \in WriterType,
           writer' = [writer EXCEPT ![w] = x],
           x.phase = IF Counts(w) THEN "hincrby" ELSE "expire",
           x.fact = writer[w].fact,
           UNCHANGED <<writes, flood>>,
           rebound'.count = rebound.count, rebound'.active = writer[w].active
    PROVE  CountsInv'
<1>1. /\ writer'[w] = x /\ \A v \in Writers : v # w => writer'[v] = writer[v]
      /\ MovesBy(Early, Early', w) /\ MovesBy(Uncounted, Uncounted', w)
      /\ MovesBy(Granted, Granted', w) /\ MovesBy(Pending, Pending', w)
  BY WriterMoves DEF WriteInv
<1>2. /\ w \notin Early /\ w \in Uncounted /\ w \notin Granted
      /\ w \notin Early' /\ w \notin Granted'
      /\ w \in Pending <=> w \in Pending'
  BY <1>1 DEF At, Early, Uncounted, Granted, Pending, Counts
<1>3. OncePerRequest'
  <2>1. /\ Cardinality(Early) = Cardinality(Early)'
        /\ Cardinality(Uncounted)' <= Cardinality(Uncounted)
        /\ Cardinality(Early)' \in Nat /\ Cardinality(Uncounted) \in Nat /\ Cardinality(Uncounted)' \in Nat
    BY <1>1, <1>2 DEF MovesBy
  <2>2. rebound.count \in Nat /\ writes \in Int /\ OncePerRequest
    BY Bounds DEF WriteInv, Types
  <2> HIDE DEF Early, Uncounted
  <2> QED
    BY <2>1, <2>2 DEF OncePerRequest
<1>4. ModeIsKept'
  BY <1>1 DEF WriteInv, ModeIsKept, At, Counts
<1>5. FloodBounded'
  BY <1>1, <1>2 DEF WriteInv, FloodBounded, MovesBy
<1> QED
  BY <1>3, <1>4, <1>5 DEF CountsInv

LEMMA HincrbyCounts ==
    ASSUME WriteInv, NEW w \in Writers, At(w, "hincrby"), NEW x \in WriterType,
           writer' = [writer EXCEPT ![w] = x], x.phase = "expire",
           UNCHANGED <<writes, flood>>,
           rebound'.count = rebound.count + 1, rebound'.active = rebound.active,
           rebound'.age = rebound.age
    PROVE  CountsInv'
<1>1. /\ writer'[w] = x /\ \A v \in Writers : v # w => writer'[v] = writer[v]
      /\ MovesBy(Early, Early', w) /\ MovesBy(Uncounted, Uncounted', w)
      /\ MovesBy(Granted, Granted', w) /\ MovesBy(Pending, Pending', w)
  BY WriterMoves DEF WriteInv
<1>2. /\ w \notin Early /\ w \in Uncounted /\ w \notin Granted
      /\ w \notin Early' /\ w \notin Uncounted' /\ w \notin Granted' /\ w \notin Pending'
  BY <1>1 DEF At, Early, Uncounted, Granted, Pending, Counts
<1>3. /\ flood.lost \in Nat /\ flood.written \in Nat /\ rebound.count \in Nat /\ writes \in Int
      /\ OncePerRequest /\ FloodBounded
  BY Bounds DEF WriteInv, Types
<1>4. OncePerRequest'
  <2>1. /\ Cardinality(Early) = Cardinality(Early)'
        /\ Cardinality(Uncounted) = Cardinality(Uncounted)' + 1
        /\ Cardinality(Early)' \in Nat /\ Cardinality(Uncounted)' \in Nat
    BY <1>1, <1>2 DEF MovesBy
  <2> HIDE DEF Early, Uncounted
  <2> QED
    BY <1>3, <2>1 DEF OncePerRequest
<1>5. ModeIsKept'
  BY <1>1 DEF WriteInv, ModeIsKept
<1>6. FloodBounded'
  <2>1. /\ Cardinality(Granted)' = Cardinality(Granted)
        /\ Cardinality(Pending) <= Cardinality(Pending)' + 1
        /\ Cardinality(Pending)' <= Cardinality(Pending)
        /\ Cardinality(Granted) \in Nat
        /\ Cardinality(Pending) \in Nat /\ Cardinality(Pending)' \in Nat
    BY <1>1, <1>2 DEF MovesBy
  <2> HIDE DEF Granted, Pending
  <2> QED
    BY <1>3, <2>1, Bounds DEF FloodBounded
<1> QED
  BY <1>4, <1>5, <1>6 DEF CountsInv

\* Between requests: the gap begins, or the hash goes.
LEMMA QuietCounts ==
    ASSUME WriteInv, Quiet, UNCHANGED <<writer, writes>>, NEW resumed \in BOOLEAN,
           flood' = NewFlood(resumed),
           rebound'.count \in Nat, rebound'.count <= rebound.count,
           resumed => rebound'.age = "idle"
    PROVE  CountsInv' /\ flood' \in [resumed : BOOLEAN, written : Nat, lost : Nat]
<1>1. /\ Early = {} /\ Uncounted = {} /\ Granted = {} /\ Pending = {}
      /\ Early' = {} /\ Uncounted' = {} /\ Granted' = {} /\ Pending' = {}
  BY DEF Quiet, At, Early, Uncounted, Granted, Pending
<1>2. Cardinality({}) = 0
  BY FS_EmptySet
<1>3. flood'.resumed = resumed /\ flood'.written = 0 /\ flood'.lost = 0
      /\ flood' \in [resumed : BOOLEAN, written : Nat, lost : Nat]
  BY DEF NewFlood
<1>4. OncePerRequest'
  <2>1. rebound.count \in Nat /\ writes \in Int /\ OncePerRequest /\ writes >= 0
    BY Bounds DEF WriteInv, Types
  <2> HIDE DEF Early, Uncounted
  <2> QED
    BY <1>1, <1>2, <1>3, <2>1 DEF OncePerRequest
<1>5. ModeIsKept'
  BY <1>3 DEF ModeIsKept, Quiet, At
<1>6. FloodBounded'
  BY <1>1, <1>2, <1>3, Bounds DEF FloodBounded
<1> QED
  BY <1>3, <1>4, <1>5, <1>6 DEF CountsInv

-----------------------------------------------------------------------------
(* The table of facts                                                      *)

Row == [fact : Fact, state : States]

\* The state of one claim changes.
LEMMA UpdateMoves ==
    ASSUME Types, NEW c \in DOMAIN facts, NEW state \in {"superseded", "retracted"},
           facts' = [facts EXCEPT ![c] = [@ EXCEPT !.state = state]]
    PROVE  /\ facts' \in Seq(Row) /\ DOMAIN facts' = DOMAIN facts
           /\ \A lane, attribute : Values(lane, attribute)' = Values(lane, attribute) \ {c}
<1> DEFINE row == [facts[c] EXCEPT !.state = state]
<1>1. facts \in Seq(Row) /\ facts[c] \in Row
  <2>1. facts \in Seq(Row)
    BY DEF Types, Row
  <2> QED
    BY <2>1
<1>2. row \in Row /\ row.state = state /\ row.fact = facts[c].fact
  BY <1>1 DEF Row, States
<1>3. facts' = [facts EXCEPT ![c] = row]
  OBVIOUS
<1> HIDE DEF row
<1>4. /\ facts' \in Seq(Row) /\ DOMAIN facts' = DOMAIN facts /\ facts'[c] = row
      /\ \A d \in DOMAIN facts : d # c => facts'[d] = facts[d]
  BY <1>1, <1>2, <1>3
<1> QED
  BY <1>2, <1>4 DEF Values, Current

LEMMA InsertMoves ==
    ASSUME Types, NEW f \in Fact, facts' = Append(facts, [fact |-> f, state |-> "tentative"])
    PROVE  /\ facts' \in Seq(Row) /\ DOMAIN facts \subseteq DOMAIN facts'
           /\ \A lane, attribute :
                /\ Values(lane, attribute)' \subseteq Values(lane, attribute) \union {Len(facts) + 1}
                /\ ~(lane = f.lane /\ attribute = f.attribute)
                     => Values(lane, attribute)' = Values(lane, attribute)
<1> DEFINE row == [fact |-> f, state |-> "tentative"]
<1>1. facts \in Seq(Row) /\ Len(facts) \in Nat
  BY DEF Types, Row
<1>2. row \in Row /\ row.fact = f
  BY DEF Row, States
<1>3. facts' = Append(facts, row)
  OBVIOUS
<1> HIDE DEF row
<1>4. /\ facts' \in Seq(Row)
      /\ DOMAIN facts = 1..Len(facts) /\ DOMAIN facts' = 1..(Len(facts) + 1)
      /\ facts'[Len(facts) + 1] = row
      /\ \A d \in 1..Len(facts) : facts'[d] = facts[d]
  BY <1>1, <1>2, <1>3
<1>5. 1..(Len(facts) + 1) = 1..Len(facts) \union {Len(facts) + 1}
  BY <1>1
<1> QED
  BY <1>2, <1>4, <1>5 DEF Values, Current

LEMMA FiniteValues ==
    ASSUME Types, NEW lane, NEW attribute
    PROVE  IsFiniteSet(Values(lane, attribute))
<1>1. DOMAIN facts = 1..Len(facts) /\ Len(facts) \in Nat
  <2>1. facts \in Seq(Row)
    BY DEF Types, Row
  <2> QED
    BY <2>1
<1>2. IsFiniteSet(1..Len(facts))
  BY <1>1, FS_Interval
<1> QED
  BY <1>1, <1>2, FS_Subset DEF Values

LEMMA OneMore ==
    ASSUME NEW S, IsFiniteSet(S), NEW e, NEW T, T \subseteq S \union {e}
    PROVE  /\ Cardinality(S) \in Nat /\ Cardinality(T) \in Nat
           /\ Cardinality(T) <= Cardinality(S) + 1
           /\ T \subseteq S => Cardinality(T) <= Cardinality(S)
<1>1. IsFiniteSet(S \union {e}) /\ Cardinality(S) \in Nat
  BY FS_AddElement, FS_CardinalityType
<1>2. Cardinality(S \union {e}) <= Cardinality(S) + 1
  <2>1. CASE e \in S
    <3>1. S \union {e} = S
      BY <2>1
    <3> QED
      BY <1>1, <3>1
  <2>2. CASE e \notin S
    BY <1>1, <2>2, FS_AddElement
  <2> QED
    BY <2>1, <2>2
<1>3. IsFiniteSet(T) /\ Cardinality(T) \in Nat /\ Cardinality(T) <= Cardinality(S \union {e})
  BY <1>1, FS_Subset, FS_CardinalityType
<1>4. T \subseteq S => Cardinality(T) <= Cardinality(S)
  BY FS_Subset
<1>5. Cardinality(S \union {e}) \in Nat
  BY <1>1, FS_CardinalityType
<1> QED
  BY <1>1, <1>2, <1>3, <1>4, <1>5

-----------------------------------------------------------------------------
(* The values of an attribute, step by step                                *)

\* What is left of an attribute and who will add to it, when one request moves.
LEMMA PoolMoves ==
    ASSUME WriteInv, NEW w \in Writers, NEW x \in WriterType, writer' = [writer EXCEPT ![w] = x],
           NEW lane \in SingleLanes, NEW attribute \in STRING
    PROVE  /\ writer'[w] = x /\ \A v \in Writers : v # w => writer'[v] = writer[v]
           /\ MovesBy(Inserting(lane, attribute), Inserting(lane, attribute)', w)
           /\ Superseding(lane, attribute) \subseteq
                Superseding(lane, attribute)' \union
                {e \in {writer[w].old} : w \in Inserting(lane, attribute) /\ At(w, "supersede")}
           /\ IsFiniteSet(Staying(lane, attribute))
           /\ Cardinality(Staying(lane, attribute)) \in Nat
           /\ Cardinality(Staying(lane, attribute)) + Cardinality(Inserting(lane, attribute))
                <= Cardinality(Writers)
<1>1. writer'[w] = x /\ \A v \in Writers : v # w => writer'[v] = writer[v]
  BY WriterMoves DEF WriteInv
<1>2. /\ Inserting(lane, attribute) \in SUBSET Writers /\ Inserting(lane, attribute)' \in SUBSET Writers
      /\ \A v \in Writers : v # w =>
           (v \in Inserting(lane, attribute) <=> v \in Inserting(lane, attribute)')
  BY <1>1 DEF Inserting
<1>3. MovesBy(Inserting(lane, attribute), Inserting(lane, attribute)', w)
  BY <1>2, CardMoves
<1>4. ASSUME NEW v \in Inserting(lane, attribute), At(v, "supersede"), v # w
      PROVE  writer[v].old \in Superseding(lane, attribute)'
  BY <1>1, <1>2, <1>4 DEF Superseding, At
<1>5. IsFiniteSet(Staying(lane, attribute)) /\ Cardinality(Staying(lane, attribute)) \in Nat
  BY FiniteValues, FS_Subset, FS_CardinalityType DEF Staying, WriteInv
<1> QED
  BY <1>1, <1>3, <1>4, <1>5 DEF Superseding, WriteInv, OnePerWriter

\* A request that neither begins nor ends an insertion.
LEMMA OutsideValues ==
    ASSUME WriteInv, UNCHANGED <<facts, unchecked>>, NEW w \in Writers, NEW x \in WriterType,
           writer' = [writer EXCEPT ![w] = x],
           writer[w].phase \notin {"supersede", "create"}, x.phase \notin {"supersede", "create"}
    PROVE  OnePerWriter'
<1>1. writer'[w] = x /\ \A v \in Writers : v # w => writer'[v] = writer[v]
  BY WriterMoves DEF WriteInv
<1>2. \A lane, attribute : Inserting(lane, attribute)' = Inserting(lane, attribute)
  BY <1>1 DEF Inserting
<1>3. \A lane, attribute : Superseding(lane, attribute)' = Superseding(lane, attribute)
  BY <1>1, <1>2 DEF Superseding, Inserting, At
<1>4. \A lane, attribute : Staying(lane, attribute)' = Staying(lane, attribute)
  BY <1>3 DEF Staying, Values, Current
<1> QED
  BY <1>2, <1>4 DEF WriteInv, OnePerWriter

\* The lookup has found nothing, or one value, which it will supersede.
LEMMA FoundValues ==
    ASSUME WriteInv, UNCHANGED <<facts, unchecked>>, NEW w \in Writers, At(w, "find"), NEW x \in WriterType,
           writer' = [writer EXCEPT ![w] = x], x.phase \in {"supersede", "create"},
           single_valued(x.fact.lane) =>
             IF x.phase = "create" THEN Matches(x.fact) = {} ELSE Matches(x.fact) = {x.old}
    PROVE  OnePerWriter'
<1> SUFFICES ASSUME NEW lane \in SingleLanes, NEW attribute \in STRING
             PROVE  (Cardinality(Staying(lane, attribute)) + Cardinality(Inserting(lane, attribute))
                       <= Cardinality(Writers))'
  BY DEF OnePerWriter
<1>1. /\ writer'[w] = x /\ \A v \in Writers : v # w => writer'[v] = writer[v]
      /\ MovesBy(Inserting(lane, attribute), Inserting(lane, attribute)', w)
      /\ Cardinality(Staying(lane, attribute)) + Cardinality(Inserting(lane, attribute))
           <= Cardinality(Writers)
  BY PoolMoves
<1>2. w \notin Inserting(lane, attribute)
  BY DEF At, Inserting
<1>3. Values(lane, attribute)' = Values(lane, attribute)
  BY DEF Values, Current
<1>4. CASE w \in Inserting(lane, attribute)'
  <2>1. x.fact.lane = lane /\ x.fact.attribute = attribute /\ single_valued(lane)
    BY <1>1, <1>4 DEF Inserting, SingleLanes, single_valued
  <2>2. Values(lane, attribute) \subseteq Matches(x.fact)
    BY <2>1 DEF Values, Matches
  <2>3. Staying(lane, attribute)' = {}
    <3>1. CASE x.phase = "create"
      BY <1>3, <2>1, <2>2, <3>1 DEF Staying
    <3>2. CASE x.phase = "supersede"
      <4>1. x.old \in Superseding(lane, attribute)'
        BY <1>1, <1>4, <3>2 DEF Superseding, At
      <4>2. Values(lane, attribute)' \subseteq {x.old}
        BY <1>3, <2>1, <2>2, <3>2
      <4> QED
        BY <4>1, <4>2 DEF Staying
    <3> QED
      BY <3>1, <3>2
  <2>4. Cardinality(Staying(lane, attribute)') = 0
    BY <2>3, FS_EmptySet
  <2>5. /\ Cardinality(Inserting(lane, attribute)') \in Nat
        /\ Cardinality(Inserting(lane, attribute)') <= Cardinality(Writers)
    BY <1>1, Bounds, FS_Subset DEF MovesBy, Inserting
  <2> QED
    BY <2>4, <2>5, Bounds
<1>5. CASE w \notin Inserting(lane, attribute)'
  <2>1. Inserting(lane, attribute)' = Inserting(lane, attribute)
    BY <1>1, <1>2, <1>5 DEF Inserting
  <2>2. Superseding(lane, attribute)' = Superseding(lane, attribute)
    BY <1>1, <1>2, <2>1 DEF Superseding, Inserting, At
  <2>3. Staying(lane, attribute)' = Staying(lane, attribute)
    BY <1>3, <2>2 DEF Staying
  <2> QED
    BY <1>1, <2>1, <2>3
<1> QED
  BY <1>4, <1>5

LEMMA SupersedeValues ==
    ASSUME WriteInv, UNCHANGED unchecked, NEW w \in Writers, At(w, "supersede"), NEW x \in WriterType,
           writer' = [writer EXCEPT ![w] = x], x.phase = "create", x.fact = writer[w].fact,
           \A lane, attribute : Values(lane, attribute)' = Values(lane, attribute) \ {writer[w].old}
    PROVE  OnePerWriter'
<1> SUFFICES ASSUME NEW lane \in SingleLanes, NEW attribute \in STRING
             PROVE  (Cardinality(Staying(lane, attribute)) + Cardinality(Inserting(lane, attribute))
                       <= Cardinality(Writers))'
  BY DEF OnePerWriter
<1>1. /\ writer'[w] = x /\ \A v \in Writers : v # w => writer'[v] = writer[v]
      /\ MovesBy(Inserting(lane, attribute), Inserting(lane, attribute)', w)
      /\ Superseding(lane, attribute) \subseteq Superseding(lane, attribute)' \union {writer[w].old}
      /\ IsFiniteSet(Staying(lane, attribute)) /\ Cardinality(Staying(lane, attribute)) \in Nat
      /\ Cardinality(Staying(lane, attribute)) + Cardinality(Inserting(lane, attribute))
           <= Cardinality(Writers)
  BY PoolMoves
<1>2. w \in Inserting(lane, attribute) <=> w \in Inserting(lane, attribute)'
  BY <1>1 DEF Inserting, At
<1>3. Staying(lane, attribute)' \subseteq Staying(lane, attribute)
  BY <1>1 DEF Staying
<1>4. /\ Cardinality(Staying(lane, attribute)') <= Cardinality(Staying(lane, attribute))
      /\ Cardinality(Staying(lane, attribute)') \in Nat
  BY <1>1, <1>3, FS_Subset, FS_CardinalityType
<1>5. /\ Cardinality(Inserting(lane, attribute)') = Cardinality(Inserting(lane, attribute))
      /\ Cardinality(Inserting(lane, attribute)) \in Nat
  BY <1>1, <1>2 DEF MovesBy
<1> QED
  BY <1>1, <1>4, <1>5, Bounds

LEMMA CreateValues ==
    ASSUME WriteInv, UNCHANGED unchecked, NEW w \in Writers, At(w, "create"), NEW x \in WriterType,
           writer' = [writer EXCEPT ![w] = x], x.phase = "hset",
           NEW new,
           \A lane, attribute :
             /\ Values(lane, attribute)' \subseteq Values(lane, attribute) \union {new}
             /\ ~(lane = writer[w].fact.lane /\ attribute = writer[w].fact.attribute)
                  => Values(lane, attribute)' = Values(lane, attribute)
    PROVE  OnePerWriter'
<1> SUFFICES ASSUME NEW lane \in SingleLanes, NEW attribute \in STRING
             PROVE  (Cardinality(Staying(lane, attribute)) + Cardinality(Inserting(lane, attribute))
                       <= Cardinality(Writers))'
  BY DEF OnePerWriter
<1>1. /\ writer'[w] = x /\ \A v \in Writers : v # w => writer'[v] = writer[v]
      /\ MovesBy(Inserting(lane, attribute), Inserting(lane, attribute)', w)
      /\ Superseding(lane, attribute) \subseteq Superseding(lane, attribute)'
      /\ IsFiniteSet(Staying(lane, attribute)) /\ Cardinality(Staying(lane, attribute)) \in Nat
      /\ Cardinality(Staying(lane, attribute)) + Cardinality(Inserting(lane, attribute))
           <= Cardinality(Writers)
  BY PoolMoves DEF At
<1>2. /\ w \notin Inserting(lane, attribute)'
      /\ w \in Inserting(lane, attribute)
           <=> lane = writer[w].fact.lane /\ attribute = writer[w].fact.attribute
  BY <1>1 DEF Inserting, At
<1>3. /\ Staying(lane, attribute)' \subseteq Staying(lane, attribute) \union {new}
      /\ w \notin Inserting(lane, attribute)
           => Staying(lane, attribute)' \subseteq Staying(lane, attribute)
  BY <1>1, <1>2 DEF Staying
<1>4. /\ Cardinality(Staying(lane, attribute)') \in Nat
      /\ Cardinality(Staying(lane, attribute)') <= Cardinality(Staying(lane, attribute)) + 1
      /\ w \notin Inserting(lane, attribute)
           => Cardinality(Staying(lane, attribute)') <= Cardinality(Staying(lane, attribute))
  BY <1>1, <1>3, OneMore
<1>5. /\ Cardinality(Inserting(lane, attribute)) \in Nat
      /\ Cardinality(Inserting(lane, attribute)') \in Nat
      /\ w \in Inserting(lane, attribute)
           => Cardinality(Inserting(lane, attribute)) = Cardinality(Inserting(lane, attribute)') + 1
      /\ w \notin Inserting(lane, attribute)
           => Cardinality(Inserting(lane, attribute)) = Cardinality(Inserting(lane, attribute)')
  BY <1>1, <1>2 DEF MovesBy
<1> QED
  BY <1>1, <1>4, <1>5, Bounds

\* A request that dies gives its place up for the value it leaves behind.
LEMMA EndValues ==
    ASSUME WriteInv, UNCHANGED <<facts, unchecked>>, NEW w \in Writers, writer' = [writer EXCEPT ![w] = Idle]
    PROVE  OnePerWriter'
<1> SUFFICES ASSUME NEW lane \in SingleLanes, NEW attribute \in STRING
             PROVE  (Cardinality(Staying(lane, attribute)) + Cardinality(Inserting(lane, attribute))
                       <= Cardinality(Writers))'
  BY DEF OnePerWriter
<1>0. Idle \in WriterType /\ Idle.phase = "idle"
  BY DEF Idle, WriterType, Phases
<1>1. /\ writer'[w] = Idle /\ \A v \in Writers : v # w => writer'[v] = writer[v]
      /\ MovesBy(Inserting(lane, attribute), Inserting(lane, attribute)', w)
      /\ Superseding(lane, attribute) \subseteq
           Superseding(lane, attribute)' \union
           {e \in {writer[w].old} : w \in Inserting(lane, attribute) /\ At(w, "supersede")}
      /\ IsFiniteSet(Staying(lane, attribute)) /\ Cardinality(Staying(lane, attribute)) \in Nat
      /\ Cardinality(Staying(lane, attribute)) + Cardinality(Inserting(lane, attribute))
           <= Cardinality(Writers)
  BY <1>0, PoolMoves
<1>2. w \notin Inserting(lane, attribute)'
  BY <1>0, <1>1 DEF Inserting
<1>3. Values(lane, attribute)' = Values(lane, attribute)
  BY DEF Values, Current
<1>4. /\ Staying(lane, attribute)' \subseteq Staying(lane, attribute) \union {writer[w].old}
      /\ w \notin Inserting(lane, attribute)
           => Staying(lane, attribute)' \subseteq Staying(lane, attribute)
  BY <1>1, <1>3 DEF Staying
<1>5. /\ Cardinality(Staying(lane, attribute)') \in Nat
      /\ Cardinality(Staying(lane, attribute)') <= Cardinality(Staying(lane, attribute)) + 1
      /\ w \notin Inserting(lane, attribute)
           => Cardinality(Staying(lane, attribute)') <= Cardinality(Staying(lane, attribute))
  BY <1>1, <1>4, OneMore
<1>6. /\ Cardinality(Inserting(lane, attribute)) \in Nat
      /\ Cardinality(Inserting(lane, attribute)') \in Nat
      /\ w \in Inserting(lane, attribute)
           => Cardinality(Inserting(lane, attribute)) = Cardinality(Inserting(lane, attribute)') + 1
      /\ w \notin Inserting(lane, attribute)
           => Cardinality(Inserting(lane, attribute)) = Cardinality(Inserting(lane, attribute)')
  BY <1>1, <1>2 DEF MovesBy
<1> QED
  BY <1>1, <1>5, <1>6, Bounds

-----------------------------------------------------------------------------
(* Every step                                                              *)

\* The parts of the invariant put together again.
LEMMA Reassemble ==
    ASSUME Types', CountsInv', OnePerWriter', \A w \in Writers : WriterKnows(w)'
    PROVE  WriteInv'
BY DEF CountsInv, WriteInv

\* One request moves: it knows what its phase says, the others know what they knew.
LEMMA OthersKnow ==
    ASSUME WriteInv, DOMAIN facts \subseteq DOMAIN facts', NEW w \in Writers,
           \A v \in Writers : v # w => writer'[v] = writer[v],
           WriterKnows(w)'
    PROVE  \A v \in Writers : WriterKnows(v)'
BY DEF WriteInv, WriterKnows, At

LEMMA BeginStep ==
    ASSUME WriteInv, NEW w \in Writers, write_fact(w)
    PROVE  WriteInv'
<1>1. PICK f \in Facts :
        writer' = [writer EXCEPT ![w] = [Idle EXCEPT !.phase = "rebound", !.fact = f]]
  BY DEF write_fact
<1> DEFINE x == [Idle EXCEPT !.phase = "rebound", !.fact = f]
<1>2. x \in WriterType /\ x.phase = "rebound" /\ x.fact \in Fact
  BY WriteAssumption DEF Idle, WriterType, Phases
<1>3. writer' = [writer EXCEPT ![w] = x]
  BY <1>1
<1>4. /\ At(w, "idle") /\ writes < MaxWrites /\ writes' = writes + 1
      /\ UNCHANGED <<facts, rebound, edits, confirming, unchecked, flood>>
  BY DEF write_fact, editVars
<1> HIDE DEF x
<1>5. /\ writer' \in [Writers -> WriterType] /\ writer'[w] = x
      /\ \A v \in Writers : v # w => writer'[v] = writer[v]
  BY <1>2, <1>3, WriterMoves DEF WriteInv
<1>6. Types'
  BY <1>4, <1>5, Bounds DEF WriteInv, Types
<1>7. CountsInv'
  BY <1>2, <1>3, <1>4, BeginCounts
<1>8. OnePerWriter'
  BY <1>2, <1>3, <1>4, OutsideValues DEF At
<1>9. \A v \in Writers : WriterKnows(v)'
  BY <1>2, <1>4, <1>5, OthersKnow DEF WriterKnows, At
<1> QED
  BY <1>6, <1>7, <1>8, <1>9, Reassemble

\* A request ends, by its last command, by a refusal or by a failure.
LEMMA EndStep ==
    ASSUME WriteInv, NEW w \in Writers, writer' = [writer EXCEPT ![w] = Idle],
           UNCHANGED <<facts, writes, edits, confirming, unchecked>>,
           rebound' = rebound \/ rebound' = [rebound EXCEPT !.ttl = TRUE],
           flood' = IF flood.resumed /\ Counts(w) /\ writer[w].phase \in {"hset", "hincrby"}
                    THEN [flood EXCEPT !.lost = @ + 1] ELSE flood
    PROVE  WriteInv'
<1>0. Idle \in WriterType /\ Idle.phase = "idle"
  BY DEF Idle, WriterType, Phases
<1>1. /\ writer' \in [Writers -> WriterType] /\ writer'[w] = Idle
      /\ \A v \in Writers : v # w => writer'[v] = writer[v]
  BY <1>0, WriterMoves DEF WriteInv
<1>2. /\ rebound'.count = rebound.count /\ rebound'.active = rebound.active
      /\ rebound'.age = rebound.age
      /\ rebound' \in [age : {"none", "recent", "idle"}, active : BOOLEAN, count : Nat, ttl : BOOLEAN]
  BY DEF WriteInv, Types
<1>3. CountsInv' /\ flood' \in [resumed : BOOLEAN, written : Nat, lost : Nat]
  BY <1>2, EndCounts
<1>4. Types'
  BY <1>1, <1>2, <1>3 DEF WriteInv, Types
<1>5. OnePerWriter'
  BY EndValues
<1>6. \A v \in Writers : WriterKnows(v)'
  BY <1>0, <1>1, OthersKnow DEF WriterKnows, At
<1> QED
  BY <1>3, <1>4, <1>5, <1>6, Reassemble

LEMMA ReboundStep ==
    ASSUME WriteInv, NEW w \in Writers, _read_rebound_state(w)
    PROVE  WriteInv'
<1> DEFINE active == rebound.active \/ rebound.age = "idle"
           x == [writer[w] EXCEPT !.phase = "find", !.active = active]
<1>1. /\ At(w, "rebound") /\ UNCHANGED <<facts, rebound, writes, edits, confirming, unchecked, flood>>
      /\ \/ /\ evaluate_rebound(writer[w].fact.lane, active, rebound.count)
            /\ writer' = [writer EXCEPT ![w] = x]
         \/ writer' = [writer EXCEPT ![w] = Idle]
  BY DEF editVars, _read_rebound_state, WriteInv, Types
<1>2. CASE writer' = [writer EXCEPT ![w] = Idle]
  BY <1>1, <1>2, EndStep DEF At
<1>3. CASE /\ evaluate_rebound(writer[w].fact.lane, active, rebound.count)
           /\ writer' = [writer EXCEPT ![w] = x]
  <2>1. active \in BOOLEAN /\ writer[w] \in WriterType /\ writer[w].fact \in Fact
    BY <1>1 DEF WriteInv, Types, WriterKnows, At
  <2>2. x \in WriterType /\ x.phase = "find" /\ x.fact = writer[w].fact /\ x.active = active
    BY <2>1 DEF WriterType, Phases
  <2> HIDE DEF x
  <2>3. /\ writer' \in [Writers -> WriterType] /\ writer'[w] = x
        /\ \A v \in Writers : v # w => writer'[v] = writer[v]
    BY <1>3, <2>2, WriterMoves DEF WriteInv
  <2>4. Types'
    BY <1>1, <2>3 DEF WriteInv, Types
  <2>5. CountsInv'
    BY <1>1, <1>3, <2>2, GrantCounts
  <2>6. OnePerWriter'
    BY <1>1, <1>3, <2>2, OutsideValues DEF At
  <2>7. \A v \in Writers : WriterKnows(v)'
    BY <1>1, <2>1, <2>2, <2>3, OthersKnow DEF WriterKnows, At
  <2> QED
    BY <2>4, <2>5, <2>6, <2>7, Reassemble
<1> QED
  BY <1>1, <1>2, <1>3

LEMMA FindStep ==
    ASSUME WriteInv, NEW w \in Writers, _find_single_valued(w)
    PROVE  WriteInv'
<1> DEFINE f == writer[w].fact
           found == Matches(f)
           old == CHOOSE c \in found : TRUE
           create == [writer[w] EXCEPT !.phase = "create"]
           supersede == [writer[w] EXCEPT !.phase = "supersede", !.old = old]
<1>1. /\ At(w, "find") /\ UNCHANGED <<facts, rebound, writes, edits, confirming, unchecked, flood>>
      /\ writer[w] \in WriterType /\ f \in Fact
  BY DEF editVars, _find_single_valued, WriteInv, Types, WriterKnows, At
<1>2. \/ writer' = [writer EXCEPT ![w] = Idle]
      \/ /\ ~single_valued(f.lane) \/ found = {}
         /\ writer' = [writer EXCEPT ![w] = create]
      \/ /\ single_valued(f.lane) /\ found # {} /\ ~(Cardinality(found) > 1)
         /\ writer' = [writer EXCEPT ![w] = supersede]
  BY DEF _find_single_valued, WriteInv, Types
<1>3. found \subseteq DOMAIN facts /\ DOMAIN facts = 1..Len(facts) /\ Len(facts) \in Nat
  <2>1. facts \in Seq(Row)
    BY DEF WriteInv, Types, Row
  <2> QED
    BY <2>1 DEF Matches
<1>4. ASSUME NEW x \in WriterType, x.phase \in {"supersede", "create"}, x.fact = f,
             x.active = writer[w].active, writer' = [writer EXCEPT ![w] = x],
             x.phase = "supersede" => x.old \in DOMAIN facts,
             single_valued(f.lane) => IF x.phase = "create" THEN found = {} ELSE found = {x.old}
      PROVE  WriteInv'
  <2>1. /\ writer' \in [Writers -> WriterType] /\ writer'[w] = x
        /\ \A v \in Writers : v # w => writer'[v] = writer[v]
    BY <1>4, WriterMoves DEF WriteInv
  <2>2. Types'
    BY <1>1, <2>1 DEF WriteInv, Types
  <2>3. CountsInv'
    BY <1>1, <1>4, OnwardCounts DEF At
  <2>4. OnePerWriter'
    BY <1>1, <1>4, FoundValues
  <2>5. \A v \in Writers : WriterKnows(v)'
    BY <1>1, <1>4, <2>1, OthersKnow DEF WriterKnows, At
  <2> QED
    BY <2>2, <2>3, <2>4, <2>5, Reassemble
<1>5. CASE writer' = [writer EXCEPT ![w] = Idle]
  BY <1>1, <1>5, EndStep DEF At
<1>6. CASE /\ ~single_valued(f.lane) \/ found = {}
           /\ writer' = [writer EXCEPT ![w] = create]
  <2>1. create \in WriterType /\ create.phase = "create" /\ create.fact = f
        /\ create.active = writer[w].active
    BY <1>1 DEF WriterType, Phases
  <2> HIDE DEF create, f, found
  <2> QED
    BY <1>4, <1>6, <2>1
<1>7. CASE /\ single_valued(f.lane) /\ found # {} /\ ~(Cardinality(found) > 1)
           /\ writer' = [writer EXCEPT ![w] = supersede]
  <2>1. old \in found /\ old \in DOMAIN facts /\ old \in Nat
    BY <1>3, <1>7
  <2>2. found = {old}
    <3>1. IsFiniteSet(found)
      <4>1. IsFiniteSet(1..Len(facts))
        BY <1>3, FS_Interval
      <4> HIDE DEF found
      <4> QED
        BY <1>3, <4>1, FS_Subset
    <3>2. Cardinality(found) \in Nat /\ Cardinality(found) # 0
      BY <1>7, <3>1, FS_CardinalityType, FS_EmptySet
    <3>3. Cardinality(found) = 1
      BY <1>7, <3>2
    <3> HIDE DEF found, old
    <3>4. \E e : found = {e}
      BY <3>1, <3>3, FS_Singleton
    <3> QED
      BY <2>1, <3>4
  <2> HIDE DEF old
  <2>3. supersede \in WriterType /\ supersede.phase = "supersede" /\ supersede.fact = f
        /\ supersede.active = writer[w].active /\ supersede.old = old
    BY <1>1, <2>1 DEF WriterType, Phases
  <2> HIDE DEF supersede, f, found
  <2> QED
    BY <1>4, <1>7, <2>1, <2>2, <2>3
<1> QED
  BY <1>2, <1>5, <1>6, <1>7

LEMMA SupersedeStep ==
    ASSUME WriteInv, NEW w \in Writers, Supersede(w)
    PROVE  WriteInv'
<1> DEFINE x == [writer[w] EXCEPT !.phase = "create"]
           c == writer[w].old
<1>1. /\ At(w, "supersede") /\ UNCHANGED <<rebound, writes, edits, confirming, unchecked, flood>>
      /\ writer[w] \in WriterType /\ writer[w].fact \in Fact /\ c \in DOMAIN facts
      /\ facts' = [facts EXCEPT ![c] = [@ EXCEPT !.state = "superseded"]]
  BY DEF editVars, Supersede, WriteInv, Types, WriterKnows, At
<1>2. writer' = [writer EXCEPT ![w] = x]
  BY DEF Supersede, Go, WriteInv, Types
<1>3. /\ x \in WriterType /\ x.phase = "create" /\ x.fact = writer[w].fact
      /\ x.active = writer[w].active
  BY <1>1 DEF WriterType, Phases
<1>4. /\ facts' \in Seq(Row) /\ DOMAIN facts' = DOMAIN facts
      /\ \A lane, attribute : Values(lane, attribute)' = Values(lane, attribute) \ {c}
  BY <1>1, UpdateMoves DEF WriteInv
<1> HIDE DEF x
<1>5. /\ writer' \in [Writers -> WriterType] /\ writer'[w] = x
      /\ \A v \in Writers : v # w => writer'[v] = writer[v]
  BY <1>2, <1>3, WriterMoves DEF WriteInv
<1>6. Types'
  BY <1>1, <1>4, <1>5 DEF WriteInv, Types, Row
<1>7. CountsInv'
  BY <1>1, <1>2, <1>3, OnwardCounts DEF At
<1>8. OnePerWriter'
  BY <1>1, <1>2, <1>3, <1>4, SupersedeValues
<1>9. \A v \in Writers : WriterKnows(v)'
  BY <1>1, <1>3, <1>4, <1>5, OthersKnow DEF WriterKnows, At
<1> QED
  BY <1>6, <1>7, <1>8, <1>9, Reassemble

LEMMA CreateStep ==
    ASSUME WriteInv, NEW w \in Writers, Create(w)
    PROVE  WriteInv'
<1> DEFINE x == [writer[w] EXCEPT !.phase = "hset"]
<1>1. /\ At(w, "create") /\ UNCHANGED <<rebound, writes, edits, confirming, unchecked>>
      /\ writer[w] \in WriterType /\ writer[w].fact \in Fact
      /\ facts' = Append(facts, [fact |-> writer[w].fact, state |-> "tentative"])
      /\ flood' = IF Counts(w) /\ flood.resumed THEN [flood EXCEPT !.written = @ + 1] ELSE flood
  BY DEF editVars, Create, WriteInv, Types, WriterKnows, At
<1>2. writer' = [writer EXCEPT ![w] = x]
  BY DEF Create, Go, WriteInv, Types
<1>3. /\ x \in WriterType /\ x.phase = "hset" /\ x.fact = writer[w].fact
      /\ x.active = writer[w].active
  BY <1>1 DEF WriterType, Phases
<1>4. /\ facts' \in Seq(Row) /\ DOMAIN facts \subseteq DOMAIN facts'
      /\ \A lane, attribute :
           /\ Values(lane, attribute)' \subseteq Values(lane, attribute) \union {Len(facts) + 1}
           /\ ~(lane = writer[w].fact.lane /\ attribute = writer[w].fact.attribute)
                => Values(lane, attribute)' = Values(lane, attribute)
  BY <1>1, InsertMoves DEF WriteInv
<1> HIDE DEF x
<1>5. /\ writer' \in [Writers -> WriterType] /\ writer'[w] = x
      /\ \A v \in Writers : v # w => writer'[v] = writer[v]
  BY <1>2, <1>3, WriterMoves DEF WriteInv
<1>6. CountsInv' /\ flood' \in [resumed : BOOLEAN, written : Nat, lost : Nat]
  BY <1>1, <1>2, <1>3, CreateCounts
<1>7. Types'
  BY <1>1, <1>4, <1>5, <1>6 DEF WriteInv, Types, Row
<1>8. OnePerWriter'
  BY <1>1, <1>2, <1>3, <1>4, CreateValues
<1>9. \A v \in Writers : WriterKnows(v)'
  BY <1>1, <1>3, <1>4, <1>5, OthersKnow DEF WriterKnows, At
<1> QED
  BY <1>6, <1>7, <1>8, <1>9, Reassemble

LEMMA HsetStep ==
    ASSUME WriteInv, NEW w \in Writers, Hset(w)
    PROVE  WriteInv'
<1> DEFINE x == [writer[w] EXCEPT !.phase = IF Counts(w) THEN "hincrby" ELSE "expire"]
<1>1. /\ At(w, "hset") /\ UNCHANGED <<facts, writes, edits, confirming, unchecked, flood>>
      /\ writer[w] \in WriterType /\ writer[w].fact \in Fact
      /\ rebound' = [rebound EXCEPT !.age = "recent", !.active = writer[w].active]
  BY DEF editVars, Hset, WriteInv, Types, WriterKnows, At
<1>2. writer' = [writer EXCEPT ![w] = x]
  BY DEF Hset, Go, WriteInv, Types
<1>3. /\ x \in WriterType /\ x.fact = writer[w].fact
      /\ x.phase = IF Counts(w) THEN "hincrby" ELSE "expire"
  BY <1>1 DEF WriterType, Phases
<1>4. /\ rebound'.count = rebound.count /\ rebound'.active = writer[w].active
      /\ rebound' \in [age : {"none", "recent", "idle"}, active : BOOLEAN, count : Nat, ttl : BOOLEAN]
  BY <1>1 DEF WriteInv, Types, WriterType
<1> HIDE DEF x
<1>5. /\ writer' \in [Writers -> WriterType] /\ writer'[w] = x
      /\ \A v \in Writers : v # w => writer'[v] = writer[v]
  BY <1>2, <1>3, WriterMoves DEF WriteInv
<1>6. Types'
  BY <1>1, <1>4, <1>5 DEF WriteInv, Types
<1>7. CountsInv'
  BY <1>1, <1>2, <1>3, <1>4, HsetCounts
<1>8. OnePerWriter'
  BY <1>1, <1>2, <1>3, OutsideValues DEF At
<1>9. \A v \in Writers : WriterKnows(v)'
  BY <1>1, <1>3, <1>5, OthersKnow DEF WriterKnows, At
<1> QED
  BY <1>6, <1>7, <1>8, <1>9, Reassemble

LEMMA HincrbyStep ==
    ASSUME WriteInv, NEW w \in Writers, Hincrby(w)
    PROVE  WriteInv'
<1> DEFINE x == [writer[w] EXCEPT !.phase = "expire"]
<1>1. /\ At(w, "hincrby") /\ UNCHANGED <<facts, writes, edits, confirming, unchecked, flood>>
      /\ writer[w] \in WriterType /\ writer[w].fact \in Fact
      /\ rebound' = [rebound EXCEPT !.count = rebound.count + 1]
  BY DEF editVars, Hincrby, WriteInv, Types, WriterKnows, At
<1>2. writer' = [writer EXCEPT ![w] = x]
  BY DEF Hincrby, Go, WriteInv, Types
<1>3. x \in WriterType /\ x.fact = writer[w].fact /\ x.phase = "expire"
  BY <1>1 DEF WriterType, Phases
<1>4. /\ rebound'.count = rebound.count + 1 /\ rebound'.active = rebound.active
      /\ rebound'.age = rebound.age
      /\ rebound' \in [age : {"none", "recent", "idle"}, active : BOOLEAN, count : Nat, ttl : BOOLEAN]
  BY <1>1 DEF WriteInv, Types
<1> HIDE DEF x
<1>5. /\ writer' \in [Writers -> WriterType] /\ writer'[w] = x
      /\ \A v \in Writers : v # w => writer'[v] = writer[v]
  BY <1>2, <1>3, WriterMoves DEF WriteInv
<1>6. Types'
  BY <1>1, <1>4, <1>5 DEF WriteInv, Types
<1>7. CountsInv'
  BY <1>1, <1>2, <1>3, <1>4, HincrbyCounts
<1>8. OnePerWriter'
  BY <1>1, <1>2, <1>3, OutsideValues DEF At
<1>9. \A v \in Writers : WriterKnows(v)'
  BY <1>1, <1>3, <1>5, OthersKnow DEF WriterKnows, At
<1> QED
  BY <1>6, <1>7, <1>8, <1>9, Reassemble

LEMMA LastSteps ==
    ASSUME WriteInv, NEW w \in Writers, Expire(w) \/ Crash(w)
    PROVE  WriteInv'
<1>1. CASE Expire(w)
  BY <1>1, EndStep DEF Expire, At, editVars
<1>2. CASE Crash(w)
  <2>1. flood' = IF flood.resumed /\ Counts(w) /\ writer[w].phase \in {"hset", "hincrby"}
                 THEN [flood EXCEPT !.lost = @ + 1] ELSE flood
    BY <1>2 DEF Crash
  <2> QED
    BY <1>2, <2>1, EndStep DEF Crash, editVars
<1> QED
  BY <1>1, <1>2

LEMMA QuietStep ==
    ASSUME WriteInv, Pause \/ Forget
    PROVE  WriteInv'
<1>1. Quiet /\ UNCHANGED <<facts, writer, writes, edits, confirming, unchecked>>
  BY DEF Pause, Forget, editVars
<1>2. /\ rebound' \in [age : {"none", "recent", "idle"}, active : BOOLEAN, count : Nat, ttl : BOOLEAN]
      /\ rebound'.count \in Nat /\ rebound'.count <= rebound.count
      /\ \/ flood' = NewFlood(TRUE) /\ rebound'.age = "idle"
         \/ flood' = NewFlood(FALSE)
  <2>1. CASE Pause
    BY <2>1 DEF Pause, WriteInv, Types
  <2>2. CASE Forget
    BY <2>2 DEF Forget, WriteInv, Types, NoRebound
  <2> QED
    BY <2>1, <2>2
<1>3. CountsInv' /\ flood' \in [resumed : BOOLEAN, written : Nat, lost : Nat]
  <2>1. CASE flood' = NewFlood(TRUE) /\ rebound'.age = "idle"
    BY <1>1, <1>2, <2>1, QuietCounts
  <2>2. CASE flood' = NewFlood(FALSE)
    BY <1>1, <1>2, <2>2, QuietCounts
  <2> QED
    BY <1>2, <2>1, <2>2
<1>4. Types'
  BY <1>1, <1>2, <1>3 DEF WriteInv, Types
<1>5. OnePerWriter' /\ \A v \in Writers : WriterKnows(v)'
  BY <1>1 DEF WriteInv, OnePerWriter, Staying, Values, Current, Superseding, Inserting, At,
              WriterKnows
<1> QED
  BY <1>3, <1>4, <1>5, Reassemble

LEMMA SumShrinks ==
    ASSUME NEW a \in Nat, NEW b \in Nat, NEW c \in Nat, NEW n \in Nat, a <= b, b + c <= n
    PROVE  a + c <= n
OBVIOUS

\* An edit after which no attribute has more values that came through the lookup.
LEMMA EditStep ==
    ASSUME WriteInv, UNCHANGED <<rebound, writer, writes, flood>>,
           facts' \in Seq(Row), DOMAIN facts \subseteq DOMAIN facts',
           edits' \in 0 .. MaxEdits,
           confirming' \subseteq DOMAIN facts', unchecked' \subseteq DOMAIN facts',
           \A lane, attribute :
             Values(lane, attribute)' \ unchecked' \subseteq Values(lane, attribute) \ unchecked
    PROVE  WriteInv'
<1>1. Types'
  BY DEF WriteInv, Types, Row
<1>2. CountsInv'
  BY DEF WriteInv, CountsInv, OncePerRequest, ModeIsKept, FloodBounded, Early, Uncounted,
         Granted, Pending, Counts
<1>3. OnePerWriter'
  <2> SUFFICES ASSUME NEW lane \in SingleLanes, NEW attribute \in STRING
               PROVE  (Cardinality(Staying(lane, attribute)) + Cardinality(Inserting(lane, attribute))
                         <= Cardinality(Writers))'
    BY DEF OnePerWriter
  <2>1. /\ Inserting(lane, attribute)' = Inserting(lane, attribute)
        /\ Superseding(lane, attribute)' = Superseding(lane, attribute)
    BY DEF Inserting, Superseding, At
  <2>2. Staying(lane, attribute)' \subseteq Staying(lane, attribute)
    BY <2>1 DEF Staying
  <2>3. IsFiniteSet(Staying(lane, attribute))
    BY FiniteValues, FS_Subset DEF Staying, WriteInv
  <2>4. /\ Cardinality(Staying(lane, attribute)') <= Cardinality(Staying(lane, attribute))
        /\ Cardinality(Staying(lane, attribute)') \in Nat
        /\ Cardinality(Staying(lane, attribute)) \in Nat
    BY <2>2, <2>3, FS_Subset, FS_CardinalityType
  <2>5. Cardinality(Inserting(lane, attribute)) \in Nat
    BY Bounds, FS_Subset, FS_CardinalityType DEF Inserting
  <2>6. Cardinality(Staying(lane, attribute)) + Cardinality(Inserting(lane, attribute))
          <= Cardinality(Writers)
    BY DEF WriteInv, OnePerWriter
  <2>7. Cardinality(Inserting(lane, attribute)') = Cardinality(Inserting(lane, attribute))
    BY <2>1
  <2>8. Cardinality(Staying(lane, attribute)') + Cardinality(Inserting(lane, attribute)')
          <= Cardinality(Writers)
    BY <2>4, <2>5, <2>6, <2>7, Bounds, SumShrinks
  <2> QED
    BY <2>8
<1>4. \A v \in Writers : WriterKnows(v)'
  BY DEF WriteInv, WriterKnows, At
<1> QED
  BY <1>1, <1>2, <1>3, <1>4, Reassemble

LEMMA EditsCount ==
    ASSUME WriteInv, edits < MaxEdits, edits' = edits + 1
    PROVE  edits' \in 0 .. MaxEdits
BY Bounds DEF WriteInv, Types

LEMMA RetractStep ==
    ASSUME WriteInv, NEW c \in DOMAIN facts, retract_claim(c)
    PROVE  WriteInv'
<1>1. /\ facts' = [facts EXCEPT ![c] = [@ EXCEPT !.state = "retracted"]]
      /\ edits < MaxEdits /\ edits' = edits + 1
      /\ UNCHANGED <<rebound, writer, writes, confirming, unchecked, flood>>
  BY DEF retract_claim
<1>2. /\ facts' \in Seq(Row) /\ DOMAIN facts' = DOMAIN facts
      /\ \A lane, attribute : Values(lane, attribute)' = Values(lane, attribute) \ {c}
  BY <1>1, UpdateMoves DEF WriteInv
<1>3. confirming' \subseteq DOMAIN facts' /\ unchecked' \subseteq DOMAIN facts'
  BY <1>1, <1>2 DEF WriteInv, Types
<1>4. \A lane, attribute :
        Values(lane, attribute)' \ unchecked' \subseteq Values(lane, attribute) \ unchecked
  BY <1>1, <1>2
<1> QED
  BY <1>1, <1>2, <1>3, <1>4, EditsCount, EditStep

LEMMA ConfirmSteps ==
    ASSUME WriteInv, NEW c \in DOMAIN facts, confirm_claim(c) \/ Confirm(c)
    PROVE  WriteInv'
<1>0. /\ confirming \subseteq DOMAIN facts /\ unchecked \subseteq DOMAIN facts
      /\ facts \in Seq(Row) /\ edits \in 0 .. MaxEdits
  BY DEF WriteInv, Types, Row
<1>1. CASE confirm_claim(c)
  <2>1. /\ edits < MaxEdits /\ edits' = edits + 1 /\ confirming' = confirming \union {c}
        /\ UNCHANGED <<facts, rebound, writer, writes, unchecked, flood>>
    BY <1>1 DEF confirm_claim
  <2>2. \A lane, attribute : Values(lane, attribute)' = Values(lane, attribute)
    BY <2>1 DEF Values, Current
  <2> QED
    BY <1>0, <2>1, <2>2, EditsCount, EditStep
<1>2. CASE Confirm(c)
  <2>1. /\ facts' = [facts EXCEPT ![c] = [@ EXCEPT !.state = "confirmed"]]
        /\ confirming' = confirming \ {c}
        /\ unchecked' = IF Current(c) THEN unchecked ELSE unchecked \union {c}
        /\ UNCHANGED <<rebound, writer, writes, edits, flood>>
    BY <1>2 DEF Confirm
  <2> DEFINE row == [facts[c] EXCEPT !.state = "confirmed"]
  <2>2. row \in Row /\ row.fact = facts[c].fact /\ facts' = [facts EXCEPT ![c] = row]
    <3>1. facts[c] \in Row
      BY <1>0
    <3>2. row \in Row /\ row.fact = facts[c].fact
      BY <3>1 DEF Row, States
    <3>3. facts' = [facts EXCEPT ![c] = row]
      BY <2>1
    <3> QED
      BY <3>2, <3>3
  <2> HIDE DEF row
  <2>3. /\ facts' \in Seq(Row) /\ DOMAIN facts' = DOMAIN facts /\ facts'[c] = row
        /\ \A d \in DOMAIN facts : d # c => facts'[d] = facts[d]
    BY <1>0, <2>2
  <2>4. /\ confirming' \subseteq DOMAIN facts' /\ unchecked' \subseteq DOMAIN facts'
        /\ unchecked \subseteq unchecked'
    BY <1>0, <2>1, <2>3
  <2>5. ASSUME NEW lane, NEW attribute
        PROVE  Values(lane, attribute)' \ unchecked' \subseteq Values(lane, attribute) \ unchecked
    <3> SUFFICES ASSUME NEW d \in Values(lane, attribute)', d \notin unchecked'
                 PROVE  d \in Values(lane, attribute)
      BY <2>4
    <3>1. d \in DOMAIN facts /\ facts'[d].fact.lane = lane /\ facts'[d].fact.attribute = attribute
      BY <2>3 DEF Values
    <3>2. CASE d # c
      BY <2>3, <3>1, <3>2 DEF Values, Current
    <3>3. CASE d = c
      BY <2>1, <2>2, <2>3, <3>1, <3>3 DEF Values
    <3> QED
      BY <3>2, <3>3
  <2> QED
    BY <1>0, <2>1, <2>3, <2>4, <2>5, EditStep
<1> QED
  BY <1>1, <1>2

LEMMA DirectStep ==
    ASSUME WriteInv, create_claim
    PROVE  WriteInv'
<1> DEFINE new == Len(facts) + 1
<1>0. /\ confirming \subseteq DOMAIN facts /\ unchecked \subseteq DOMAIN facts
      /\ facts \in Seq(Row)
  BY DEF WriteInv, Types, Row
<1>1. PICK claim \in DirectClaims : facts' = Append(facts, claim)
  BY DEF create_claim
<1>2. /\ edits < MaxEdits /\ edits' = edits + 1 /\ unchecked' = unchecked \union {new}
      /\ UNCHANGED <<rebound, writer, writes, confirming, flood>>
  BY DEF create_claim
<1>3. claim \in Row
  BY WriteAssumption DEF Row
<1>4. /\ facts' \in Seq(Row) /\ Len(facts) \in Nat
      /\ DOMAIN facts = 1..Len(facts) /\ DOMAIN facts' = 1..new
      /\ \A d \in 1..Len(facts) : facts'[d] = facts[d]
  BY <1>0, <1>1, <1>3
<1>5. DOMAIN facts' = DOMAIN facts \union {new}
  BY <1>4
<1> HIDE DEF new
<1>6. confirming' \subseteq DOMAIN facts' /\ unchecked' \subseteq DOMAIN facts'
  BY <1>0, <1>2, <1>5
<1>7. \A lane, attribute :
        Values(lane, attribute)' \ unchecked' \subseteq Values(lane, attribute) \ unchecked
  BY <1>2, <1>4, <1>5 DEF Values, Current
<1> QED
  BY <1>2, <1>4, <1>5, <1>6, <1>7, EditsCount, EditStep

LEMMA WriteInvStep ==
    ASSUME WriteInv, [Next]_vars
    PROVE  WriteInv'
<1>1. CASE UNCHANGED vars
  BY <1>1 DEF vars, editVars, WriteInv, Types, WriterKnows, OncePerRequest, ModeIsKept, FloodBounded,
              OnePerWriter, Early, Uncounted, Granted, Pending, Counts, Staying, Values, Current,
              Superseding, Inserting, At
<1>2. ASSUME NEW w \in Writers, write_fact(w) \/ Write(w) \/ Crash(w)
      PROVE  WriteInv'
  BY <1>2, BeginStep, ReboundStep, FindStep, SupersedeStep, CreateStep, HsetStep, HincrbyStep,
     LastSteps DEF Write
<1> QED
  BY <1>1, <1>2, QuietStep, RetractStep, ConfirmSteps, DirectStep DEF Next

LEMMA WriteInvInit == Init => WriteInv
<1> SUFFICES ASSUME Init
             PROVE  WriteInv
  OBVIOUS
<1>1. /\ facts \in InitialFacts /\ writer = [w \in Writers |-> Idle]
      /\ writes = 0 /\ edits = 0 /\ confirming = {} /\ unchecked = {}
  BY DEF Init
<1>2. PICK age \in {"none", "idle"} :
        /\ rebound = [NoRebound EXCEPT !.age = age, !.ttl = (age = "idle")]
        /\ flood = NewFlood(age = "idle")
  BY WriteAssumption DEF Init
<1>3. Idle \in WriterType /\ Idle.phase = "idle"
  BY DEF Idle, WriterType, Phases
<1>4. \A w \in Writers : writer[w].phase = "idle"
  BY <1>1, <1>3
<1>5. /\ rebound.count = 0 /\ rebound.age = age
      /\ rebound \in [age : {"none", "recent", "idle"}, active : BOOLEAN, count : Nat, ttl : BOOLEAN]
      /\ flood.resumed = (age = "idle") /\ flood.written = 0 /\ flood.lost = 0
      /\ flood \in [resumed : BOOLEAN, written : Nat, lost : Nat]
  BY <1>2 DEF NoRebound, NewFlood
<1>6. Types
  <2>1. facts \in Seq([fact : Fact, state : States])
    BY <1>1, TableAssumption
  <2>2. writer \in [Writers -> WriterType]
    BY <1>1, <1>3
  <2> QED
    BY <1>1, <1>5, <2>1, <2>2, Bounds DEF Types
<1>7. /\ Early = {} /\ Uncounted = {} /\ Granted = {} /\ Pending = {}
      /\ \A lane, attribute : Inserting(lane, attribute) = {}
  BY <1>4 DEF Early, Uncounted, Granted, Pending, Inserting
<1>8. Cardinality({}) = 0
  BY FS_EmptySet
<1>9. OncePerRequest /\ FloodBounded
  BY <1>1, <1>5, <1>7, <1>8, Bounds DEF OncePerRequest, FloodBounded
<1>10. ModeIsKept
  BY <1>4, <1>5 DEF ModeIsKept
<1>11. OnePerWriter
  <2> SUFFICES ASSUME NEW lane \in SingleLanes, NEW attribute \in STRING
               PROVE  Cardinality(Staying(lane, attribute)) + Cardinality(Inserting(lane, attribute))
                        <= Cardinality(Writers)
    BY DEF OnePerWriter
  <2>1. \A i, j \in Staying(lane, attribute) : i = j
    <3> SUFFICES ASSUME NEW i \in Staying(lane, attribute), NEW j \in Staying(lane, attribute)
                 PROVE  i = j
      OBVIOUS
    <3>1. /\ i \in DOMAIN facts /\ j \in DOMAIN facts /\ Current(i) /\ Current(j)
          /\ facts[i].fact.lane = lane /\ facts[j].fact.lane = lane
          /\ facts[i].fact.attribute = attribute /\ facts[j].fact.attribute = attribute
      BY DEF Staying, Values
    <3>2. facts[i] \in Row /\ facts[j] \in Row
      <4>1. facts \in Seq(Row)
        BY <1>6 DEF Types, Row
      <4> QED
        BY <3>1, <4>1
    <3>3. {facts[i].state, facts[j].state} \subseteq {"tentative", "confirmed"}
      BY <3>1, <3>2 DEF Current, Row, States
    <3> QED
      BY <1>1, <3>1, <3>3, TableAssumption DEF SingleLanes
  <2>2. /\ Cardinality(Staying(lane, attribute)) \in Nat
        /\ Cardinality(Staying(lane, attribute)) <= 1
    <3>1. CASE Staying(lane, attribute) = {}
      BY <1>8, <3>1
    <3>2. ASSUME NEW i \in Staying(lane, attribute)
          PROVE  Cardinality(Staying(lane, attribute)) = 1
      <4>1. Staying(lane, attribute) = {i}
        BY <2>1, <3>2
      <4> QED
        BY <4>1, FS_Singleton
    <3> QED
      BY <3>1, <3>2
  <2> QED
    BY <1>7, <1>8, <2>2, Bounds
<1>12. \A w \in Writers : WriterKnows(w)
  BY <1>4 DEF WriterKnows, At
<1> QED
  BY <1>6, <1>9, <1>10, <1>11, <1>12 DEF WriteInv

LEMMA WriteInvHolds == Spec => []WriteInv
<1>1. WriteInv /\ [Next]_vars => WriteInv'
  BY WriteInvStep
<1> QED
  BY <1>1, WriteInvInit, PTL DEF Spec

-----------------------------------------------------------------------------
(* The properties                                                          *)

LEMMA InvBoundsFlood == WriteInv => ReboundBound
<1> SUFFICES ASSUME WriteInv
             PROVE  ReboundBound
  OBVIOUS
<1>1. Cardinality(Granted) \in Nat
  BY Bounds, FS_Subset, FS_CardinalityType DEF Granted
<1> HIDE DEF Granted
<1> QED
  BY <1>1, Bounds DEF WriteInv, FloodBounded, ReboundBound, Types

LEMMA InvBoundsValues ==
    ASSUME WriteInv, NEW lane \in SingleLanes, NEW attribute \in STRING
    PROVE  Cardinality(Values(lane, attribute) \ unchecked) <= Cardinality(Writers)
<1> DEFINE S == {v \in Inserting(lane, attribute) : At(v, "supersede")}
<1>1. /\ IsFiniteSet(Inserting(lane, attribute)) /\ IsFiniteSet(S)
      /\ Cardinality(S) <= Cardinality(Inserting(lane, attribute))
  <2>1. IsFiniteSet(Inserting(lane, attribute))
    BY Bounds, FS_Subset DEF Inserting
  <2>2. S \subseteq Inserting(lane, attribute)
    OBVIOUS
  <2> HIDE DEF S
  <2> QED
    BY <2>1, <2>2, FS_Subset
<1>2. /\ IsFiniteSet(Superseding(lane, attribute))
      /\ Cardinality(Superseding(lane, attribute)) <= Cardinality(S)
  <2> DEFINE f == [v \in S |-> writer[v].old]
  <2>1. f \in Surjection(S, Superseding(lane, attribute))
    BY DEF Superseding, Surjection
  <2> HIDE DEF f, S
  <2> QED
    BY <1>1, <2>1, FS_Surjection
<1> HIDE DEF S
<1>3. IsFiniteSet(Staying(lane, attribute))
  BY FiniteValues, FS_Subset DEF Staying, WriteInv
<1>4. Values(lane, attribute) \ unchecked \subseteq Staying(lane, attribute) \union Superseding(lane, attribute)
  BY DEF Staying
<1>5. /\ IsFiniteSet(Staying(lane, attribute) \union Superseding(lane, attribute))
      /\ Cardinality(Staying(lane, attribute) \union Superseding(lane, attribute))
           = Cardinality(Staying(lane, attribute)) + Cardinality(Superseding(lane, attribute))
             - Cardinality(Staying(lane, attribute) \cap Superseding(lane, attribute))
  BY <1>2, <1>3, FS_Union
<1>6. Cardinality(Staying(lane, attribute) \cap Superseding(lane, attribute)) = 0
  <2>1. Staying(lane, attribute) \cap Superseding(lane, attribute) = {}
    BY DEF Staying
  <2> QED
    BY <2>1, FS_EmptySet
<1>7. /\ Cardinality(Values(lane, attribute) \ unchecked)
           <= Cardinality(Staying(lane, attribute) \union Superseding(lane, attribute))
      /\ Cardinality(Values(lane, attribute) \ unchecked) \in Nat
  BY <1>4, <1>5, FS_Subset, FS_CardinalityType
<1>8. /\ Cardinality(Staying(lane, attribute)) \in Nat /\ Cardinality(S) \in Nat
      /\ Cardinality(Superseding(lane, attribute)) \in Nat
      /\ Cardinality(Inserting(lane, attribute)) \in Nat
  BY <1>1, <1>2, <1>3, FS_CardinalityType
<1>9. Cardinality(Staying(lane, attribute)) + Cardinality(Inserting(lane, attribute))
        <= Cardinality(Writers)
  BY DEF WriteInv, OnePerWriter
<1> DEFINE values == Cardinality(Values(lane, attribute) \ unchecked)
           staying == Cardinality(Staying(lane, attribute))
           superseding == Cardinality(Superseding(lane, attribute))
           inserting == Cardinality(Inserting(lane, attribute))
           both == Cardinality(Staying(lane, attribute) \union Superseding(lane, attribute))
           doing == Cardinality(S)
           writers == Cardinality(Writers)
<1>10. /\ values \in Nat /\ staying \in Nat /\ superseding \in Nat /\ inserting \in Nat
       /\ doing \in Nat /\ writers \in Nat
       /\ doing <= inserting /\ superseding <= doing /\ values <= both
       /\ staying + inserting <= writers
  BY <1>1, <1>2, <1>7, <1>8, <1>9, Bounds
<1>11. both = staying + superseding - 0
  BY <1>5, <1>6
<1> HIDE DEF values, staying, superseding, inserting, both, doing, writers
<1>12. values <= writers
  BY <1>10, <1>11
<1> QED
  BY <1>12 DEF values, writers

LEMMA InvIsTyped == WriteInv => TypeOK
<1> SUFFICES ASSUME WriteInv
             PROVE  TypeOK
  OBVIOUS
<1>1. /\ Cardinality(Early) \in Nat /\ Cardinality(Uncounted) \in Nat
      /\ Cardinality(Pending) \in Nat
  <2>1. IsFiniteSet(Early) /\ IsFiniteSet(Uncounted) /\ IsFiniteSet(Pending)
    BY Bounds, FS_Subset DEF Early, Uncounted, Pending
  <2> QED
    BY <2>1, FS_CardinalityType
<1> HIDE DEF Early, Uncounted, Pending
<1>2. /\ rebound.count \in 0 .. MaxWrites
      /\ flood.written \in 0 .. MaxWrites /\ flood.lost \in 0 .. MaxWrites
  <2>1. /\ rebound.count \in Nat /\ flood.written \in Nat /\ flood.lost \in Nat
        /\ writes \in 0 .. MaxWrites /\ OncePerRequest
        /\ flood.lost <= flood.written
    BY <1>1 DEF WriteInv, Types, FloodBounded
  <2> QED
    BY <1>1, <2>1, Bounds DEF OncePerRequest
<1>3. rebound \in [age : {"none", "recent", "idle"}, active : BOOLEAN,
                   count : 0 .. MaxWrites, ttl : BOOLEAN]
  BY <1>2 DEF WriteInv, Types
<1>4. \A w \in Writers : /\ writer[w].phase \in Phases
                         /\ ~At(w, "idle") => writer[w].fact \in Fact
                         /\ At(w, "supersede") => writer[w].old \in DOMAIN facts
  BY DEF WriteInv, Types, WriterKnows, WriterType
<1> QED
  BY <1>2, <1>3, <1>4 DEF WriteInv, Types, TypeOK

\* However many requests overlap, whatever each of them writes or leaves half done
\* and whatever the user retracts, confirms and creates beside them, a
\* single-valued attribute of MemoryWriteService.write_fact never holds more
\* current values than there are requests, but for those that became current past
\* its lookup: created directly, or confirmed after they had been superseded.
THEOREM AttributesJamNoFurther == Spec => []ValuesBounded
<1>1. WriteInv => ValuesBounded
  <2>1. WriteInv => AtMostOnePerWriter
    <3> SUFFICES ASSUME WriteInv, NEW lane \in SingleLanes, NEW c \in DOMAIN facts
                 PROVE  Cardinality(Values(lane, facts[c].fact.attribute) \ unchecked)
                          <= Cardinality(Writers)
      BY DEF AtMostOnePerWriter, SingleLanes
    <3>1. facts[c] \in Row
      <4>1. facts \in Seq(Row)
        BY DEF WriteInv, Types, Row
      <4> QED
        BY <4>1
    <3>2. facts[c].fact.attribute \in STRING
      BY <3>1 DEF Row, Fact
    <3> QED
      BY <3>2, InvBoundsValues
  <2> QED
    BY <2>1, InvIsTyped DEF ValuesBounded
<1> QED
  BY <1>1, WriteInvHolds, PTL

\* A session that resumes after an idle gap passes the rebound cap by at most one
\* fact for each request that overlaps and one for each that died uncounted.
THEOREM ReboundIsCapped == Spec => []ReboundBound
BY InvBoundsFlood, WriteInvHolds, PTL

=============================================================================
