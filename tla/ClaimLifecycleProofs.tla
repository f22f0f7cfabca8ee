----------------------- MODULE ClaimLifecycleProofs -----------------------
(***************************************************************************)
(* Proofs about ClaimLifecycle for every set of claims and sessions and    *)
(* every bound: the types, the version chain, and that the interleaved     *)
(* transactions implement the append-only log of VersionLog.               *)
(***************************************************************************)
EXTENDS ClaimLifecycle, TLAPS, FiniteSetTheorems

\* A number and a previous hash that continue the history of claim c: what a
\* session knows after it has read the newest version, and still knows when
\* it inserts, because versions are never changed or removed.
Chained(c, n, prev) ==
    \/ n = 1 /\ prev = NoHash
    \/ \E w \in versions : /\ w.claim_id = c
                           /\ w.version_number = n - 1
                           /\ w.version_hash = prev

\* Every row a claim has now is among the rows it has had.
RowsInv == \A c \in Claims : claims[c] # NoRow => claims[c] \in past[c]

\* What a session that serves a request holds in each of its phases.
RequestInv(s) ==
    /\ req[s].phase # "idle" => /\ req[s].claim \in Claims
                                /\ claims[req[s].claim] # NoRow
    /\ req[s].phase = "commit" =>
         /\ req[s].loaded \in Row
         /\ req[s].new \in Row
         /\ req[s].new.lifecycle \in {req[s].loaded.lifecycle, "archived"}
    /\ req[s].phase \in {"latest", "insert"} =>
         req[s].snapshot \in Row /\ req[s].snapshot \in past[req[s].claim]
    /\ req[s].phase = "insert" =>
         /\ req[s].number \in Nat \ {0}
         /\ Chained(req[s].claim, req[s].number, req[s].previous)

\* What a nightly job holds between its SELECT and its COMMIT.
JobInv(j) ==
    \A c \in Claims : job[j].loaded[c] # NoRow =>
        /\ claims[c] # NoRow
        /\ job[j].new[c] # NoRow
        /\ job[j].new[c].lifecycle = job[j].loaded[c].lifecycle

\* The version chain together with what makes it inductive: below a number
\* that is used, every number is used.  So a number that is free is larger
\* than all numbers used, and an INSERT can only extend the newest version.
HistoryInv ==
    \A v \in versions :
      /\ v.version_hash = Hash(v.content_snapshot)
      /\ v.content_snapshot \in past[v.claim_id]
      /\ Chained(v.claim_id, v.version_number, v.previous_hash)
      /\ \A w \in versions :
           v.claim_id = w.claim_id /\ v.version_number = w.version_number => v = w
      /\ \A k \in 1 .. v.version_number :
           \E w \in versions : w.claim_id = v.claim_id /\ w.version_number = k

IInv ==
    /\ TypeOK
    /\ RowsInv
    /\ \A s \in Sessions : RequestInv(s)
    /\ \A j \in Jobs : JobInv(j)
    /\ HistoryInv

-----------------------------------------------------------------------------
(* Rows                                                                    *)

\* Flush of rows is a row.
LEMMA FlushType ==
    ASSUME NEW current \in Row, NEW loaded \in Row, NEW new \in Row
    PROVE  Flush(current, loaded, new) \in Row
BY DEF Flush, Column, Row

\* An UPDATE leaves the lifecycle alone or archives, when the assignment does.
LEMMA FlushLifecycle ==
    ASSUME NEW current \in Row, NEW loaded \in Row, NEW new \in Row,
           new.lifecycle \in {loaded.lifecycle, "archived"}
    PROVE  Flush(current, loaded, new).lifecycle
             \in {current.lifecycle, "archived"}
BY DEF Flush, Column, Row

\* The decisions of the nightly jobs are rows, and never archive a claim.
LEMMA OutcomesType ==
    ASSUME NEW j \in Jobs, NEW row \in Row, NEW out \in Outcomes(j, row)
    PROVE  /\ out \in Row
           /\ out.lifecycle = row.lifecycle
<1>1. Retracted(row) \in Row /\ Retracted(row).lifecycle = row.lifecycle
  BY DEF Retracted, Row, VerificationStates
<1>2. /\ RetractedAndClosed(row) \in Row
      /\ RetractedAndClosed(row).lifecycle = row.lifecycle
  BY <1>1 DEF RetractedAndClosed, Row
<1>3. CASE out \in evaluate_decay(row)
  <2>1. CASE out = [row EXCEPT !.confidence = @ - 1] /\ row.confidence # 0
    BY <2>1, ConstantsAssumption DEF Row
  <2>2. \/ out = row
        \/ out = Retracted(row)
        \/ out = RetractedAndClosed(row)
        \/ out = [row EXCEPT !.confidence = @ - 1] /\ row.confidence # 0
    BY <1>3 DEF evaluate_decay
  <2> QED
    BY <2>1, <2>2, <1>1, <1>2
<1>4. CASE out \in evaluate_lane_decay(row)
  <2>1. ASSUME NEW n \in 0 .. row.confidence,
               out = [row EXCEPT !.confidence = n]
        PROVE  out \in Row /\ out.lifecycle = row.lifecycle
    BY <2>1, ConstantsAssumption DEF Row
  <2>2. \/ out = row
        \/ \E n \in 0 .. row.confidence : out = [row EXCEPT !.confidence = n]
        \/ out = RetractedAndClosed(row)
    BY <1>4 DEF evaluate_lane_decay
  <2> QED
    BY <2>1, <2>2, <1>2
<1> QED
  BY <1>3, <1>4 DEF Outcomes

-----------------------------------------------------------------------------
(* The inductive invariant, one lemma per kind of step                     *)

LEMMA InitInv == Init => IInv
<1> SUFFICES ASSUME Init PROVE IInv
  OBVIOUS
<1>1. TypeOK
  <2>1. IdleRequest \in Request
    BY DEF IdleRequest, Request, Phases
  <2>2. IdleJob \in JobState
    BY DEF IdleJob, JobState, JobPhases
  <2> QED
    BY <2>1, <2>2, ConstantsAssumption DEF Init, TypeOK
<1>2. RowsInv
  BY DEF Init, RowsInv
<1>3. \A s \in Sessions : RequestInv(s)
  BY DEF Init, RequestInv, IdleRequest
<1>4. \A j \in Jobs : JobInv(j)
  BY DEF Init, JobInv, IdleJob
<1>5. HistoryInv
  BY DEF Init, HistoryInv
<1> QED
  BY <1>1, <1>2, <1>3, <1>4, <1>5 DEF IInv

\* The first transaction of confirm, retract, archive, lock, unlock and
\* update_sensitivity.
LEMMA LoadStep ==
    ASSUME IInv, NEW s \in Sessions, NEW c \in Claims, claims[c] # NoRow,
           NEW new \in Row, new.lifecycle \in {claims[c].lifecycle, "archived"},
           Load(s, c, new)
    PROVE  IInv'
<1> DEFINE stamped == [new EXCEPT !.updated_at = started + 1]
<1>1. claims[c] \in Row
  BY DEF IInv, TypeOK
<1>2. started + 1 \in 0 .. MaxOps /\ started + 1 \in Nat
  BY ConstantsAssumption DEF IInv, TypeOK, Load
<1>3. stamped \in Row /\ stamped.lifecycle = new.lifecycle
  BY <1>2 DEF Row
<1>4. /\ req'[s].phase = "commit" /\ req'[s].claim = c
      /\ req'[s].loaded = claims[c] /\ req'[s].new = stamped
      /\ req'[s] \in Request
      /\ req' \in [Sessions -> Request]
      /\ \A t \in Sessions : t # s => req'[t] = req[t]
  <2>1. [phase |-> "commit", claim |-> c, id |-> started + 1,
         loaded |-> claims[c], new |-> stamped, snapshot |-> NoRow,
         number |-> 0, previous |-> NoHash] \in Request
    BY <1>1, <1>2, <1>3 DEF Request, Phases
  <2> HIDE DEF stamped
  <2>2. req' = [req EXCEPT ![s] =
                  [phase |-> "commit", claim |-> c, id |-> started + 1,
                   loaded |-> claims[c], new |-> stamped, snapshot |-> NoRow,
                   number |-> 0, previous |-> NoHash]]
    BY DEF Load, stamped
  <2> QED
    BY <2>1, <2>2 DEF IInv, TypeOK
<1>5. UNCHANGED <<claims, versions, audit, job, runs, past>> /\ started' = started + 1
  BY DEF Load
<1> HIDE DEF stamped
<1>6. TypeOK'
  BY <1>2, <1>4, <1>5 DEF IInv, TypeOK
<1>7. \A t \in Sessions : RequestInv(t)'
  BY <1>1, <1>3, <1>4, <1>5 DEF IInv, RequestInv, Chained
<1>8. RowsInv' /\ (\A j \in Jobs : JobInv(j)') /\ HistoryInv'
  BY <1>5 DEF IInv, RowsInv, JobInv, HistoryInv, Chained
<1> QED
  BY <1>6, <1>7, <1>8 DEF IInv

\* A step that ends the request of a session and writes no claim or version.
LEMMA EndStep ==
    ASSUME IInv, NEW s \in Sessions,
           req' = [req EXCEPT ![s] = IdleRequest],
           UNCHANGED <<claims, versions, job, started, runs, past>>,
           audit' \subseteq {"request", "job"} \X Nat
    PROVE  IInv'
<1>1. IdleRequest \in Request
  BY DEF IdleRequest, Request, Phases
<1>2. TypeOK'
  BY <1>1 DEF IInv, TypeOK
<1>3. \A t \in Sessions : RequestInv(t)'
  <2> TAKE t \in Sessions
  <2>1. CASE t = s
    BY <2>1 DEF IInv, TypeOK, RequestInv, IdleRequest
  <2>2. CASE t # s
    BY <2>2 DEF IInv, TypeOK, RequestInv, Chained
  <2> QED
    BY <2>1, <2>2
<1>4. RowsInv' /\ (\A j \in Jobs : JobInv(j)') /\ HistoryInv'
  BY DEF IInv, RowsInv, JobInv, HistoryInv, Chained
<1> QED
  BY <1>2, <1>3, <1>4 DEF IInv

\* Rows may be written in any way that keeps them rows.
LEMMA WriteStep ==
    ASSUME IInv, NEW rows \in [Claims -> Row \union {NoRow}], Write(rows),
           \A c \in Claims : claims[c] # NoRow => rows[c] # NoRow,
           UNCHANGED versions
    PROVE  /\ claims' \in [Claims -> Row \union {NoRow}]
           /\ past' \in [Claims -> SUBSET Row]
           /\ \A c \in Claims : past[c] \subseteq past'[c]
           /\ RowsInv'
           /\ HistoryInv'
<1>1. /\ claims' \in [Claims -> Row \union {NoRow}]
      /\ past' \in [Claims -> SUBSET Row]
      /\ \A c \in Claims : past[c] \subseteq past'[c]
  BY DEF IInv, TypeOK, Write
<1>2. RowsInv'
  BY DEF IInv, TypeOK, Write, RowsInv
<1>3. HistoryInv'
  <2>1. \A v \in versions : v.claim_id \in Claims
    BY DEF IInv, TypeOK, VersionRow
  <2> QED
    BY <1>1, <2>1 DEF IInv, HistoryInv, Chained
<1> QED
  BY <1>1, <1>2, <1>3

LEMMA CreateStep ==
    ASSUME IInv, NEW s \in Sessions, NEW c \in Claims, create_claim(s, c)
    PROVE  IInv'
<1>1. PICK row \in FreshRows :
        Write([claims EXCEPT ![c] = [row EXCEPT !.updated_at = started + 1]])
  BY DEF create_claim
<1> DEFINE stamped == [row EXCEPT !.updated_at = started + 1]
           rows == [claims EXCEPT ![c] = stamped]
<1>2. started + 1 \in 0 .. MaxOps /\ started + 1 \in Nat
  BY ConstantsAssumption DEF IInv, TypeOK, create_claim
<1>3. stamped \in Row
  <2>1. row \in Row
    BY FreshRowsAssumption
  <2> QED
    BY <1>2, <2>1 DEF Row
<1> HIDE DEF stamped
<1>4. rows \in [Claims -> Row \union {NoRow}]
  BY <1>3 DEF IInv, TypeOK
<1>5. /\ \A d \in Claims : claims[d] # NoRow => rows[d] # NoRow
      /\ rows[c] # NoRow
  BY <1>3, NullsAssumption DEF IInv, TypeOK
<1>6. Write(rows)
  BY <1>1 DEF stamped
<1>7. claims' = rows
  BY <1>6 DEF Write
<1> HIDE DEF rows
<1>8. UNCHANGED <<versions, audit, job, runs>> /\ started' = started + 1
  BY DEF create_claim
<1>9. /\ claims' \in [Claims -> Row \union {NoRow}]
      /\ past' \in [Claims -> SUBSET Row]
      /\ \A d \in Claims : past[d] \subseteq past'[d]
      /\ RowsInv'
      /\ HistoryInv'
  BY <1>4, <1>5, <1>6, <1>8, WriteStep
<1>10. /\ req' \in [Sessions -> Request]
       /\ req'[s].phase = "refresh" /\ req'[s].claim = c
       /\ \A t \in Sessions : t # s => req'[t] = req[t]
  BY <1>2 DEF IInv, TypeOK, create_claim, IdleRequest, Request, Phases
<1>11. TypeOK'
  BY <1>2, <1>8, <1>9, <1>10 DEF IInv, TypeOK
<1>12. \A t \in Sessions : RequestInv(t)'
  <2> TAKE t \in Sessions
  <2>1. CASE t = s
    BY <2>1, <1>5, <1>7, <1>10 DEF RequestInv
  <2>2. CASE t # s
    BY <2>2, <1>5, <1>7, <1>8, <1>9, <1>10 DEF IInv, RequestInv, Chained
  <2> QED
    BY <2>1, <2>2
<1>13. \A j \in Jobs : JobInv(j)'
  BY <1>5, <1>7, <1>8 DEF IInv, JobInv
<1> QED
  BY <1>9, <1>11, <1>12, <1>13 DEF IInv

LEMMA CommitStep ==
    ASSUME IInv, NEW s \in Sessions, Commit(s)
    PROVE  IInv'
<1> DEFINE c == req[s].claim
           row == Flush(claims[c], req[s].loaded, req[s].new)
           rows == [claims EXCEPT ![c] = row]
<1>1. /\ c \in Claims /\ claims[c] \in Row
      /\ req[s].loaded \in Row /\ req[s].new \in Row
  BY DEF IInv, TypeOK, RequestInv, Commit
<1>2. row \in Row
  BY <1>1, FlushType
<1>3. Write(rows) /\ UNCHANGED <<versions, audit, job, started, runs>>
  BY DEF Commit
<1>4. LET r == [req[s] EXCEPT !.phase = "refresh",
                              !.loaded = NoRow, !.new = NoRow]
      IN  r \in Request /\ r.phase = "refresh" /\ r.claim = c
  BY DEF IInv, TypeOK, Request, Phases
<1>5. /\ req' \in [Sessions -> Request]
      /\ req'[s].phase = "refresh" /\ req'[s].claim = c
      /\ \A t \in Sessions : t # s => req'[t] = req[t]
  BY <1>4 DEF IInv, TypeOK, Commit
<1> HIDE DEF row, c
<1>6. /\ rows \in [Claims -> Row \union {NoRow}]
      /\ \A d \in Claims : claims[d] # NoRow => rows[d] # NoRow
      /\ rows[c] # NoRow
  BY <1>1, <1>2, NullsAssumption DEF IInv, TypeOK
<1> HIDE DEF rows
<1>7. claims' = rows
  BY <1>3 DEF Write
<1>8. /\ claims' \in [Claims -> Row \union {NoRow}]
      /\ past' \in [Claims -> SUBSET Row]
      /\ \A d \in Claims : past[d] \subseteq past'[d]
      /\ RowsInv'
      /\ HistoryInv'
  BY <1>3, <1>6, WriteStep
<1>9. TypeOK'
  BY <1>3, <1>5, <1>8 DEF IInv, TypeOK
<1>10. \A t \in Sessions : RequestInv(t)'
  <2> TAKE t \in Sessions
  <2>1. CASE t = s
    BY <2>1, <1>1, <1>5, <1>6, <1>7 DEF RequestInv
  <2>2. CASE t # s
    BY <2>2, <1>3, <1>5, <1>6, <1>7, <1>8 DEF IInv, RequestInv, Chained
  <2> QED
    BY <2>1, <2>2
<1>11. \A j \in Jobs : JobInv(j)'
  BY <1>3, <1>6, <1>7 DEF IInv, JobInv
<1> QED
  BY <1>8, <1>9, <1>10, <1>11 DEF IInv

LEMMA RefreshStep ==
    ASSUME IInv, NEW s \in Sessions, Refresh(s)
    PROVE  IInv'
<1>1. UNCHANGED <<claims, versions, audit, job, started, runs, past>>
  BY DEF Refresh
<1>2. /\ req[s].claim \in Claims
      /\ claims[req[s].claim] \in Row
      /\ claims[req[s].claim] \in past[req[s].claim]
      /\ claims[req[s].claim] # NoRow
  BY DEF IInv, TypeOK, RowsInv, RequestInv, Refresh
<1>3. /\ req' \in [Sessions -> Request]
      /\ req'[s].phase = "latest" /\ req'[s].claim = req[s].claim
      /\ req'[s].snapshot = claims[req[s].claim]
      /\ \A t \in Sessions : t # s => req'[t] = req[t]
  <2>1. LET r == [req[s] EXCEPT !.phase = "latest",
                                !.snapshot = claims[req[s].claim]]
        IN  /\ r \in Request /\ r.phase = "latest"
            /\ r.claim = req[s].claim /\ r.snapshot = claims[req[s].claim]
    BY <1>2 DEF IInv, TypeOK, Request, Phases
  <2> QED
    BY <2>1 DEF IInv, TypeOK, Refresh
<1>4. TypeOK'
  BY <1>1, <1>3 DEF IInv, TypeOK
<1>5. \A t \in Sessions : RequestInv(t)'
  BY <1>1, <1>2, <1>3 DEF IInv, RequestInv, Chained
<1>6. RowsInv' /\ (\A j \in Jobs : JobInv(j)') /\ HistoryInv'
  BY <1>1 DEF IInv, RowsInv, JobInv, HistoryInv, Chained
<1> QED
  BY <1>4, <1>5, <1>6 DEF IInv

LEMMA ReadLatestStep ==
    ASSUME IInv, NEW s \in Sessions, ReadLatest(s)
    PROVE  IInv'
<1> DEFINE c == req[s].claim
<1>1. UNCHANGED <<claims, versions, audit, job, started, runs, past>>
  BY DEF ReadLatest
<1>2. req[s] \in Request /\ c \in Claims /\ claims[c] # NoRow
      /\ req[s].snapshot \in Row /\ req[s].snapshot \in past[c]
  BY DEF IInv, TypeOK, RequestInv, ReadLatest
<1>3. PICK n \in Nat \ {0}, prev \in Hashes \union {NoHash} :
        Chained(c, n, prev) /\ Number(s, n, prev)
  <2>1. CASE Number(s, 1, NoHash)
    <3>1. Chained(c, 1, NoHash) /\ 1 \in Nat \ {0}
      BY DEF Chained
    <3> QED
      BY <2>1, <3>1
  <2>2. ASSUME NEW v \in VersionsOf(c),
               Number(s, v.version_number + 1, v.version_hash)
        PROVE  /\ v.version_number + 1 \in Nat \ {0}
               /\ v.version_hash \in Hashes
               /\ Chained(c, v.version_number + 1, v.version_hash)
    <3>1. v \in versions /\ v.claim_id = c /\ v \in VersionRow
      BY DEF VersionsOf, IInv, TypeOK
    <3>2. v.version_number \in Nat \ {0} /\ v.version_hash \in Hashes
      BY <3>1 DEF VersionRow
    <3> QED
      BY <3>1, <3>2 DEF Chained
  <2>3. \/ Number(s, 1, NoHash)
        \/ \E v \in VersionsOf(c) :
             Number(s, v.version_number + 1, v.version_hash)
    BY DEF ReadLatest
  <2> QED
    BY <2>1, <2>2, <2>3
<1>4. /\ req' \in [Sessions -> Request]
      /\ req'[s].phase = "insert" /\ req'[s].claim = c
      /\ req'[s].snapshot = req[s].snapshot
      /\ req'[s].number = n /\ req'[s].previous = prev
      /\ \A t \in Sessions : t # s => req'[t] = req[t]
  <2>1. LET r == [req[s] EXCEPT !.phase = "insert", !.number = n,
                                !.previous = prev]
        IN  /\ r \in Request /\ r.phase = "insert" /\ r.claim = c
            /\ r.snapshot = req[s].snapshot
            /\ r.number = n /\ r.previous = prev
    BY <1>2 DEF Request, Phases
  <2> QED
    BY <1>3, <2>1 DEF Number, IInv, TypeOK
<1> HIDE DEF c
<1>5. TypeOK'
  BY <1>1, <1>4 DEF IInv, TypeOK
<1>6. \A t \in Sessions : RequestInv(t)'
  BY <1>1, <1>2, <1>3, <1>4 DEF IInv, RequestInv, Chained
<1>7. RowsInv' /\ (\A j \in Jobs : JobInv(j)') /\ HistoryInv'
  BY <1>1 DEF IInv, RowsInv, JobInv, HistoryInv, Chained
<1> QED
  BY <1>5, <1>6, <1>7 DEF IInv

\* A free number is larger than every number of the claim: the INSERT extends
\* the newest version.
LEMMA FreeNumberIsNewest ==
    ASSUME IInv, NEW c \in Claims, NEW n \in Nat \ {0}, NumberIsFree(c, n)
    PROVE  \A w \in versions : w.claim_id = c => w.version_number < n
<1> SUFFICES ASSUME NEW w \in versions, w.claim_id = c, ~(w.version_number < n)
             PROVE  FALSE
  OBVIOUS
<1>1. w.version_number \in Nat
  BY DEF IInv, TypeOK, VersionRow
<1>2. n \in 1 .. w.version_number
  BY <1>1
<1>3. PICK u \in versions : u.claim_id = w.claim_id /\ u.version_number = n
  BY <1>2 DEF IInv, HistoryInv
<1> QED
  BY <1>3 DEF NumberIsFree, VersionsOf

LEMMA InsertStep ==
    ASSUME IInv, NEW s \in Sessions, InsertVersion(s)
    PROVE  IInv'
<1> DEFINE c == req[s].claim
           n == req[s].number
           prev == req[s].previous
           snapshot == req[s].snapshot
           new == Version(c, n, prev, snapshot)
<1>1. UNCHANGED <<claims, audit, job, started, runs, past>>
  BY DEF InsertVersion
<1>2. /\ req[s] \in Request /\ c \in Claims /\ claims[c] # NoRow
      /\ snapshot \in Row /\ snapshot \in past[c]
      /\ n \in Nat \ {0} /\ Chained(c, n, prev)
      /\ prev \in Hashes \union {NoHash}
  BY DEF IInv, TypeOK, Request, RequestInv, InsertVersion
<1>3. NumberIsFree(c, n) /\ versions' = versions \union {new}
  BY DEF InsertVersion
<1>4. /\ new \in VersionRow
      /\ new.claim_id = c /\ new.version_number = n
      /\ new.previous_hash = prev /\ new.content_snapshot = snapshot
      /\ new.version_hash = Hash(snapshot)
  BY <1>2 DEF Version, VersionRow, Hash, Hashes
<1>5. /\ req' \in [Sessions -> Request]
      /\ req'[s].phase = "audit" /\ req'[s].claim = c
      /\ \A t \in Sessions : t # s => req'[t] = req[t]
  BY <1>2 DEF IInv, TypeOK, InsertVersion, IdleRequest, Request, Phases
<1> HIDE DEF c, n, prev, snapshot, new
<1>6. TypeOK'
  BY <1>1, <1>3, <1>4, <1>5 DEF IInv, TypeOK
<1>7. \A t \in Sessions : RequestInv(t)'
  <2> TAKE t \in Sessions
  <2>1. CASE t = s
    BY <2>1, <1>1, <1>2, <1>5 DEF RequestInv
  <2>2. CASE t # s
    BY <2>2, <1>1, <1>3, <1>5 DEF IInv, RequestInv, Chained
  <2> QED
    BY <2>1, <2>2
<1>8. HistoryInv'
  <2> SUFFICES ASSUME NEW v \in versions'
      PROVE  /\ v.version_hash = Hash(v.content_snapshot)
             /\ v.content_snapshot \in past[v.claim_id]
             /\ Chained(v.claim_id, v.version_number, v.previous_hash)'
             /\ \A w \in versions' :
                  v.claim_id = w.claim_id /\ v.version_number = w.version_number
                    => v = w
             /\ \A k \in 1 .. v.version_number :
                  \E w \in versions' :
                    w.claim_id = v.claim_id /\ w.version_number = k
    BY <1>1 DEF HistoryInv
  <2>1. CASE v \in versions
    <3>1. \A w \in versions' :
            v.claim_id = w.claim_id /\ v.version_number = w.version_number
              => v = w
      BY <2>1, <1>3, <1>4 DEF IInv, HistoryInv, NumberIsFree, VersionsOf
    <3> QED
      BY <2>1, <3>1, <1>3 DEF IInv, HistoryInv, Chained
  <2>2. CASE v = new
    <3>1. \A w \in versions' :
            v.claim_id = w.claim_id /\ v.version_number = w.version_number
              => v = w
      BY <2>2, <1>3, <1>4 DEF NumberIsFree, VersionsOf
    <3>2. ASSUME NEW k \in 1 .. n
          PROVE  \E w \in versions' : w.claim_id = c /\ w.version_number = k
      <4>1. CASE k = n
        BY <4>1, <1>3, <1>4
      <4>2. CASE k # n
        <5>1. PICK w \in versions : /\ w.claim_id = c
                                    /\ w.version_number = n - 1
          BY <4>2, <1>2 DEF Chained
        <5>2. k \in 1 .. w.version_number
          BY <4>2, <5>1, <1>2
        <5> QED
          BY <5>1, <5>2, <1>3 DEF IInv, HistoryInv
      <4> QED
        BY <4>1, <4>2
    <3> QED
      BY <2>2, <3>1, <3>2, <1>2, <1>3, <1>4 DEF Chained
  <2> QED
    BY <2>1, <2>2, <1>3
<1>9. RowsInv' /\ (\A j \in Jobs : JobInv(j)')
  BY <1>1 DEF IInv, RowsInv, JobInv
<1> QED
  BY <1>6, <1>7, <1>8, <1>9 DEF IInv

-----------------------------------------------------------------------------
(* Steps of the nightly jobs                                               *)

\* A step that only gives a job a state of the right type.
LEMMA JobStep ==
    ASSUME IInv, NEW j \in Jobs, NEW state \in JobState,
           job' = [job EXCEPT ![j] = state],
           \A c \in Claims : state.loaded[c] # NoRow =>
              /\ claims[c] # NoRow
              /\ state.new[c] # NoRow
              /\ state.new[c].lifecycle = state.loaded[c].lifecycle,
           UNCHANGED <<claims, versions, req, started, past>>,
           runs' \in 0 .. MaxRuns,
           audit' \subseteq {"request", "job"} \X Nat
    PROVE  IInv'
<1>1. TypeOK'
  BY DEF IInv, TypeOK
<1>2. RowsInv' /\ (\A s \in Sessions : RequestInv(s)') /\ HistoryInv'
  BY DEF IInv, RowsInv, RequestInv, HistoryInv, Chained
<1>3. \A k \in Jobs : JobInv(k)'
  BY DEF IInv, TypeOK, JobInv
<1> QED
  BY <1>1, <1>2, <1>3 DEF IInv

LEMMA IdleJobType ==
    ASSUME NEW phase \in JobPhases, NEW n \in Nat
    PROVE  LET state == [IdleJob EXCEPT !.phase = phase, !.id = n]
           IN  /\ state \in JobState
               /\ \A c \in Claims : state.loaded[c] = NoRow
BY DEF IdleJob, JobState

LEMMA JobReadStep ==
    ASSUME IInv, NEW j \in Jobs, JobRead(j)
    PROVE  IInv'
<1> DEFINE state(decided) ==
             [phase |-> "commit", id |-> runs + 1,
              loaded |-> [c \in Claims |->
                            IF c \in Selected(j) THEN claims[c] ELSE NoRow],
              new |-> [c \in Claims |->
                            IF c \in Selected(j) THEN decided[c] ELSE NoRow]]
<1>1. PICK decided \in [Selected(j) ->
                          UNION {Outcomes(j, claims[c]) : c \in Selected(j)}] :
        /\ \A c \in Selected(j) : decided[c] \in Outcomes(j, claims[c])
        /\ job' = [job EXCEPT ![j] = state(decided)]
  BY DEF JobRead
<1>2. /\ UNCHANGED <<claims, versions, audit, req, started, past>>
      /\ runs' = runs + 1 /\ runs' \in 0 .. MaxRuns
  BY ConstantsAssumption DEF JobRead, StartRun, IInv, TypeOK
<1>3. ASSUME NEW c \in Selected(j)
      PROVE  /\ c \in Claims /\ claims[c] \in Row
             /\ decided[c] \in Row
             /\ decided[c].lifecycle = claims[c].lifecycle
  <2>1. c \in Claims /\ claims[c] \in Row
    BY DEF Selected, IInv, TypeOK
  <2> QED
    BY <1>1, <2>1, OutcomesType
<1>4. state(decided) \in JobState
  <2>1. runs + 1 \in Nat
    BY DEF IInv, TypeOK
  <2> QED
    BY <1>3, <2>1 DEF JobState, JobPhases
<1>5. \A c \in Claims : state(decided).loaded[c] # NoRow =>
         /\ claims[c] # NoRow
         /\ state(decided).new[c] # NoRow
         /\ state(decided).new[c].lifecycle = state(decided).loaded[c].lifecycle
  BY <1>3, NullsAssumption
<1> HIDE DEF state
<1> QED
  BY <1>1, <1>2, <1>4, <1>5, JobStep DEF IInv, TypeOK

LEMMA JobCommitStep ==
    ASSUME IInv, NEW j \in Jobs, JobCommit(j)
    PROVE  IInv'
<1> DEFINE rows == [c \in Claims |->
                      IF job[j].loaded[c] = NoRow THEN claims[c]
                      ELSE Flush(claims[c], job[j].loaded[c], job[j].new[c])]
           state == [IdleJob EXCEPT !.phase = "audit", !.id = job[j].id]
<1>1. /\ Write(rows) /\ job' = [job EXCEPT ![j] = state]
      /\ UNCHANGED <<versions, audit, req, started, runs>>
  BY DEF JobCommit
<1>2. ASSUME NEW c \in Claims, job[j].loaded[c] # NoRow
      PROVE  Flush(claims[c], job[j].loaded[c], job[j].new[c]) \in Row
  <2>1. claims[c] \in Row /\ job[j].loaded[c] \in Row /\ job[j].new[c] \in Row
    BY <1>2 DEF IInv, TypeOK, JobInv, JobState
  <2> QED
    BY <2>1, FlushType
<1>3. /\ rows \in [Claims -> Row \union {NoRow}]
      /\ \A c \in Claims : claims[c] # NoRow => rows[c] # NoRow
  BY <1>2, NullsAssumption DEF IInv, TypeOK
<1> HIDE DEF rows
<1>4. /\ claims' \in [Claims -> Row \union {NoRow}]
      /\ past' \in [Claims -> SUBSET Row]
      /\ \A c \in Claims : past[c] \subseteq past'[c]
      /\ RowsInv'
      /\ HistoryInv'
  BY <1>1, <1>3, WriteStep
<1>5. claims' = rows
  BY <1>1 DEF Write
<1>6. state \in JobState /\ \A c \in Claims : state.loaded[c] = NoRow
  <2>1. job[j].id \in Nat /\ "audit" \in JobPhases
    BY DEF IInv, TypeOK, JobState, JobPhases
  <2> QED
    BY <2>1, IdleJobType
<1> HIDE DEF state
<1>7. TypeOK'
  BY <1>1, <1>4, <1>6 DEF IInv, TypeOK
<1>8. \A s \in Sessions : RequestInv(s)'
  BY <1>1, <1>3, <1>4, <1>5 DEF IInv, RequestInv, Chained
<1>9. \A k \in Jobs : JobInv(k)'
  BY <1>1, <1>3, <1>5, <1>6 DEF IInv, TypeOK, JobInv
<1> QED
  BY <1>4, <1>7, <1>8, <1>9 DEF IInv

LEMMA RunJobStep ==
    ASSUME IInv, NEW j \in Jobs, RunJob(j)
    PROVE  IInv'
<1>1. CASE JobRead(j)
  BY <1>1, JobReadStep
<1>2. CASE JobCommit(j)
  BY <1>2, JobCommitStep
<1>3. CASE JobAborts(j)
  <2> DEFINE state == [IdleJob EXCEPT !.phase = "aborted"]
  <2>1. state \in JobState /\ \A c \in Claims : state.loaded[c] = NoRow
    BY DEF IdleJob, JobState, JobPhases
  <2>2. job' = [job EXCEPT ![j] = state]
    BY <1>3 DEF JobAborts
  <2> HIDE DEF state
  <2>3. runs' \in 0 .. MaxRuns
    BY <1>3, ConstantsAssumption DEF JobAborts, StartRun, IInv, TypeOK
  <2>4. UNCHANGED <<claims, versions, audit, req, started, past>>
    BY <1>3 DEF JobAborts
  <2>5. audit' \subseteq {"request", "job"} \X Nat
    BY <2>4 DEF IInv, TypeOK
  <2> QED
    BY <2>1, <2>2, <2>3, <2>4, <2>5, JobStep
<1>4. CASE JobAudit(j) \/ JobCrash(j)
  <2>1. IdleJob \in JobState /\ \A c \in Claims : IdleJob.loaded[c] = NoRow
    BY DEF IdleJob, JobState, JobPhases
  <2>2. audit' \subseteq {"request", "job"} \X Nat
    BY <1>4 DEF JobAudit, JobCrash, JobEntry, IInv, TypeOK, JobState
  <2>3. /\ job' = [job EXCEPT ![j] = IdleJob]
        /\ UNCHANGED <<claims, versions, req, started, past>>
        /\ runs' \in 0 .. MaxRuns
    BY <1>4 DEF JobAudit, JobCrash, IInv, TypeOK
  <2> QED
    BY <2>1, <2>2, <2>3, JobStep
<1> QED
  BY <1>1, <1>2, <1>3, <1>4 DEF RunJob

-----------------------------------------------------------------------------
(* Steps of the requests                                                   *)

LEMMA StartStep ==
    ASSUME IInv, NEW s \in Sessions, NEW c \in Claims, Start(s, c)
    PROVE  IInv'
<1>1. CASE create_claim(s, c)
  BY <1>1, CreateStep
<1>2. ASSUME claims[c] # NoRow
      PROVE  claims[c] \in Row
  BY <1>2 DEF IInv, TypeOK
<1> USE DEF Row
<1>3. CASE confirm_claim(s, c)
  <2> DEFINE new == [claims[c] EXCEPT !.verification_state = "confirmed"]
  <2>1. claims[c] # NoRow /\ Load(s, c, new)
    BY <1>3 DEF confirm_claim
  <2>2. new \in Row /\ new.lifecycle = claims[c].lifecycle
    BY <1>2, <2>1 DEF VerificationStates
  <2> QED
    BY <2>1, <2>2, LoadStep
<1>4. CASE retract_claim(s, c)
  <2> DEFINE new == [claims[c] EXCEPT !.verification_state = "retracted",
                                      !.superseded = TRUE]
  <2>1. claims[c] # NoRow /\ Load(s, c, new)
    BY <1>4 DEF retract_claim
  <2>2. new \in Row /\ new.lifecycle = claims[c].lifecycle
    BY <1>2, <2>1 DEF VerificationStates
  <2> QED
    BY <2>1, <2>2, LoadStep
<1>5. CASE archive_claim(s, c)
  <2> DEFINE new == [claims[c] EXCEPT !.lifecycle = "archived",
                                      !.decay_eligible = FALSE]
  <2>1. claims[c] # NoRow /\ Load(s, c, new)
    BY <1>5 DEF archive_claim
  <2>2. new \in Row /\ new.lifecycle = "archived"
    BY <1>2, <2>1 DEF Lifecycles
  <2> QED
    BY <2>1, <2>2, LoadStep
<1>6. CASE lock_claim(s, c)
  <2> DEFINE new == [claims[c] EXCEPT !.user_locked = TRUE,
                                      !.decay_eligible = FALSE]
  <2>1. claims[c] # NoRow /\ Load(s, c, new)
    BY <1>6 DEF lock_claim
  <2>2. new \in Row /\ new.lifecycle = claims[c].lifecycle
    BY <1>2, <2>1
  <2> QED
    BY <2>1, <2>2, LoadStep
<1>7. CASE unlock_claim(s, c)
  <2> DEFINE new == [claims[c] EXCEPT !.user_locked = FALSE,
                                      !.decay_eligible = TRUE]
  <2>1. claims[c] # NoRow /\ Load(s, c, new)
    BY <1>7 DEF unlock_claim
  <2>2. new \in Row /\ new.lifecycle = claims[c].lifecycle
    BY <1>2, <2>1
  <2> QED
    BY <2>1, <2>2, LoadStep
<1>8. CASE update_sensitivity(s, c)
  <2> DEFINE new(x) == [claims[c] EXCEPT
                          !.sensitivity = x,
                          !.handling_policy = SensitivityToPolicy(x)]
  <2>1. PICK x \in NewSensitivities : claims[c] # NoRow /\ Load(s, c, new(x))
    BY <1>8 DEF update_sensitivity
  <2>2. new(x) \in Row /\ new(x).lifecycle = claims[c].lifecycle
    BY <1>2, <2>1, ConstantsAssumption
       DEF Sensitivities, HandlingPolicies, SensitivityToPolicy
  <2> QED
    BY <2>1, <2>2, LoadStep
<1> QED
  BY <1>1, <1>3, <1>4, <1>5, <1>6, <1>7, <1>8 DEF Start

LEMMA ContinueStep ==
    ASSUME IInv, NEW s \in Sessions, Continue(s)
    PROVE  IInv'
<1>1. CASE Commit(s)
  BY <1>1, CommitStep
<1>2. CASE Refresh(s)
  BY <1>2, RefreshStep
<1>3. CASE ReadLatest(s)
  BY <1>3, ReadLatestStep
<1>4. CASE InsertVersion(s)
  BY <1>4, InsertStep
<1>5. CASE InsertFails(s) \/ WriteAudit(s) \/ Crash(s)
  <2>1. audit' \subseteq {"request", "job"} \X Nat
    BY <1>5 DEF InsertFails, WriteAudit, Crash, RequestEntry, IInv, TypeOK,
                Request
  <2>2. /\ req' = [req EXCEPT ![s] = IdleRequest]
        /\ UNCHANGED <<claims, versions, job, started, runs, past>>
    BY <1>5 DEF InsertFails, WriteAudit, Crash
  <2> QED
    BY <2>1, <2>2, EndStep
<1> QED
  BY <1>1, <1>2, <1>3, <1>4, <1>5 DEF Continue

LEMMA NextInv == IInv /\ [Next]_vars => IInv'
<1> SUFFICES ASSUME IInv, [Next]_vars PROVE IInv'
  OBVIOUS
<1>1. CASE UNCHANGED vars
  BY <1>1 DEF vars, IInv, TypeOK, RowsInv, RequestInv, JobInv, HistoryInv,
              Chained
<1>2. CASE Next
  BY <1>2, StartStep, ContinueStep, RunJobStep DEF Next
<1> QED
  BY <1>1, <1>2

LEMMA Invariance == Spec => []IInv
BY InitInv, NextInv, PTL DEF Spec

-----------------------------------------------------------------------------
(* Theorems                                                                *)

\* Every variable keeps its type, whatever is interleaved.
THEOREM Typing == Spec => []TypeOK
<1>1. IInv => TypeOK
  BY DEF IInv
<1> QED
  BY <1>1, Invariance, PTL

\* The integrity query of the database guide finds an intact hash chain in
\* every state, for any number of racing and dying sessions.
THEOREM ChainIntact == Spec => []VersionChain
<1>1. IInv => VersionChain
  BY DEF IInv, HistoryInv, VersionChain, Chained
<1> QED
  BY <1>1, Invariance, PTL

\* No version records a row that existed in the memory of one session only.
THEOREM SnapshotsReal == Spec => []SnapshotsExisted
<1>1. IInv => SnapshotsExisted
  BY DEF IInv, HistoryInv, SnapshotsExisted
<1> QED
  BY <1>1, Invariance, PTL

\* A row that is there stays, and no UPDATE makes an archived one current
\* again: neither a request nor a job that read it before it was archived.
LEMMA ArchivedStep ==
    ASSUME IInv, [Next]_vars, NEW c \in Claims, claims[c] # NoRow,
           claims[c].lifecycle = "archived"
    PROVE  claims'[c].lifecycle = "archived"
<1>1. CASE claims' = claims
  BY <1>1
<1>2. ASSUME NEW s \in Sessions, NEW d \in Claims, create_claim(s, d)
      PROVE  claims'[c] = claims[c]
  BY <1>2 DEF create_claim, Write, IInv, TypeOK
<1>3. ASSUME NEW s \in Sessions, Commit(s)
      PROVE  claims'[c].lifecycle = "archived"
  <2>1. CASE req[s].claim # c
    BY <1>3, <2>1 DEF Commit, Write, IInv, TypeOK
  <2>2. CASE req[s].claim = c
    <3>1. /\ claims[c] \in Row /\ req[s].loaded \in Row /\ req[s].new \in Row
          /\ req[s].new.lifecycle \in {req[s].loaded.lifecycle, "archived"}
      BY <1>3 DEF Commit, IInv, TypeOK, RequestInv
    <3>2. claims'[c] = Flush(claims[c], req[s].loaded, req[s].new)
      BY <1>3, <2>2 DEF Commit, Write, IInv, TypeOK
    <3> QED
      BY <3>1, <3>2, FlushLifecycle
  <2> QED
    BY <2>1, <2>2
<1>4. ASSUME NEW j \in Jobs, JobCommit(j)
      PROVE  claims'[c].lifecycle = "archived"
  <2>1. CASE job[j].loaded[c] = NoRow
    BY <1>4, <2>1 DEF JobCommit, Write
  <2>2. CASE job[j].loaded[c] # NoRow
    <3>1. /\ claims[c] \in Row /\ job[j].loaded[c] \in Row
          /\ job[j].new[c] \in Row
          /\ job[j].new[c].lifecycle = job[j].loaded[c].lifecycle
      BY <2>2 DEF IInv, TypeOK, JobInv, JobState
    <3>2. claims'[c] = Flush(claims[c], job[j].loaded[c], job[j].new[c])
      BY <1>4, <2>2 DEF JobCommit, Write
    <3> QED
      BY <3>1, <3>2, FlushLifecycle
  <2> QED
    BY <2>1, <2>2
<1>5. \/ claims' = claims
      \/ \E s \in Sessions, d \in Claims : create_claim(s, d)
      \/ \E s \in Sessions : Commit(s)
      \/ \E j \in Jobs : JobCommit(j)
  <2>1. CASE UNCHANGED vars
    BY <2>1 DEF vars
  <2>2. ASSUME NEW s \in Sessions, NEW d \in Claims, Start(s, d)
        PROVE  create_claim(s, d) \/ UNCHANGED claims
    BY <2>2 DEF Start, Load, confirm_claim, retract_claim, archive_claim,
         lock_claim, unlock_claim, update_sensitivity
  <2>3. ASSUME NEW s \in Sessions, Continue(s)
        PROVE  Commit(s) \/ UNCHANGED claims
    BY <2>3 DEF Continue, Refresh, ReadLatest, InsertVersion, InsertFails,
         WriteAudit, Crash
  <2>4. ASSUME NEW j \in Jobs, RunJob(j)
        PROVE  JobCommit(j) \/ UNCHANGED claims
    BY <2>4 DEF RunJob, JobRead, JobAborts, JobAudit, JobCrash
  <2> QED
    BY <2>1, <2>2, <2>3, <2>4 DEF Next
<1> QED
  BY <1>1, <1>2, <1>3, <1>4, <1>5

\* Archiving is final: no request that was loaded before, no nightly job and no
\* other operation of ClaimService brings the claim back.
THEOREM ArchivedForGood == Spec => ArchivedStaysArchived
<1>1. IInv /\ [Next]_vars =>
        [\A c \in Claims :
           claims[c] # NoRow => (claims[c].lifecycle = "archived"
                                   => claims'[c].lifecycle = "archived")]_vars
  BY ArchivedStep
<1> QED
  BY <1>1, Invariance, PTL DEF Spec, ArchivedStaysArchived

\* Seen through claims and claim_versions alone, each transaction of a request
\* or a job is a change of rows, an append to the newest version, or nothing.
LEMMA StepRefines == IInv /\ IInv' /\ [Next]_vars => [History!Next]_<<past, versions>>
<1> SUFFICES ASSUME IInv, IInv', [Next]_vars
             PROVE  [History!Next]_<<past, versions>>
  OBVIOUS
<1>1. ASSUME NEW rows \in [Claims -> Row \union {NoRow}], Write(rows),
             UNCHANGED versions
      PROVE  History!Change
  <2>1. past' \in [Claims -> SUBSET Row]
    BY DEF IInv, TypeOK
  <2>2. \A c \in Claims : past[c] \subseteq past'[c]
    BY <1>1 DEF Write
  <2> QED
    BY <1>1, <2>1, <2>2 DEF History!Change
<1>2. ASSUME NEW s \in Sessions, InsertVersion(s)
      PROVE  History!Append
  <2> DEFINE c == req[s].claim
             new == Version(c, req[s].number, req[s].previous, req[s].snapshot)
  <2>1. /\ c \in Claims /\ req[s].number \in Nat \ {0}
        /\ NumberIsFree(c, req[s].number)
        /\ Chained(c, req[s].number, req[s].previous)
        /\ req[s].snapshot \in past[c]
    BY <1>2 DEF InsertVersion, IInv, RequestInv
  <2>2. versions' = versions \union {new} /\ UNCHANGED past
    BY <1>2 DEF InsertVersion
  <2>3. /\ new.claim_id = c /\ new.version_number = req[s].number
        /\ new.previous_hash = req[s].previous
        /\ new.content_snapshot = req[s].snapshot
        /\ new = History!Entry(c, req[s].number, req[s].previous,
                               req[s].snapshot)
    BY DEF Version, History!Entry
  <2>4. History!Extends(c, req[s].number, req[s].previous)
    BY <2>1, FreeNumberIsNewest DEF Chained, History!Extends
  <2>5. new \in versions' \ versions
    BY <2>1, <2>2, <2>3 DEF NumberIsFree, VersionsOf
  <2> HIDE DEF new, c
  <2> QED
    BY <2>1, <2>2, <2>3, <2>4, <2>5 DEF History!Append
<1>3. ASSUME NEW s \in Sessions, NEW c \in Claims, create_claim(s, c)
      PROVE  History!Change
  <2>1. PICK rows : Write(rows)
    BY <1>3 DEF create_claim
  <2>2. rows \in [Claims -> Row \union {NoRow}]
    BY <2>1 DEF Write, IInv, TypeOK
  <2> QED
    BY <1>1, <1>3, <2>1, <2>2 DEF create_claim
<1>4. ASSUME NEW s \in Sessions, Commit(s)
      PROVE  History!Change
  <2>1. PICK rows : Write(rows)
    BY <1>4 DEF Commit
  <2>2. rows \in [Claims -> Row \union {NoRow}]
    BY <2>1 DEF Write, IInv, TypeOK
  <2> QED
    BY <1>1, <1>4, <2>1, <2>2 DEF Commit
<1>5. ASSUME NEW j \in Jobs, JobCommit(j)
      PROVE  History!Change
  <2>1. PICK rows : Write(rows)
    BY <1>5 DEF JobCommit
  <2>2. rows \in [Claims -> Row \union {NoRow}]
    BY <2>1 DEF Write, IInv, TypeOK
  <2> QED
    BY <1>1, <1>5, <2>1, <2>2 DEF JobCommit
<1>6. \/ UNCHANGED <<past, versions>>
      \/ \E s \in Sessions, c \in Claims : create_claim(s, c)
      \/ \E s \in Sessions : Commit(s) \/ InsertVersion(s)
      \/ \E j \in Jobs : JobCommit(j)
  <2>1. CASE UNCHANGED vars
    BY <2>1 DEF vars
  <2>2. ASSUME NEW s \in Sessions, NEW c \in Claims, Start(s, c)
        PROVE  create_claim(s, c) \/ UNCHANGED <<past, versions>>
    BY <2>2 DEF Start, Load, confirm_claim, retract_claim, archive_claim,
         lock_claim, unlock_claim, update_sensitivity
  <2>3. ASSUME NEW s \in Sessions, Continue(s)
        PROVE  Commit(s) \/ InsertVersion(s) \/ UNCHANGED <<past, versions>>
    BY <2>3 DEF Continue, Refresh, ReadLatest, InsertFails, WriteAudit, Crash
  <2>4. ASSUME NEW j \in Jobs, RunJob(j)
        PROVE  JobCommit(j) \/ UNCHANGED <<past, versions>>
    BY <2>4 DEF RunJob, JobRead, JobAborts, JobAudit, JobCrash
  <2> QED
    BY <2>1, <2>2, <2>3, <2>4 DEF Next
<1> QED
  BY <1>2, <1>3, <1>4, <1>5, <1>6 DEF History!Next

\* The services implement the append-only, gap-free, chained log that the
\* documentation describes.
THEOREM Refinement == Spec => ImplementsVersionLog
<1>1. Init => History!Init
  BY DEF Init, History!Init
<1> QED
  BY <1>1, StepRefines, Invariance, PTL DEF Spec, ImplementsVersionLog, History!Spec

-----------------------------------------------------------------------------
(* The audit trail                                                         *)

\* The entries of requests that are written, or whose INSERT comes next.
Pending == {RequestEntry(req[s].id) : s \in {t \in Sessions : req[t].phase = "audit"}}
Entries == {e \in audit : e[1] = "request"} \union Pending

\* AuditedIsVersioned with the entries that are still to come: every request
\* that has got as far as its audit entry has inserted a version of its own.
AuditInv ==
    /\ IsFiniteSet(versions)
    /\ IsFiniteSet(Entries)
    /\ Cardinality(Entries) <= Cardinality(versions)

\* The transactions before the INSERT leave both tables alone.
LEMMA ReadingStep ==
    ASSUME NEW s \in Sessions, req[s] \in Request, Commit(s) \/ Refresh(s) \/ ReadLatest(s)
    PROVE  \E x : /\ x.phase # "audit" /\ req' = [req EXCEPT ![s] = x]
                  /\ UNCHANGED <<versions, audit>>
<1>1. CASE Commit(s)
  <2> DEFINE x == [req[s] EXCEPT !.phase = "refresh", !.loaded = NoRow, !.new = NoRow]
  <2>1. x.phase = "refresh"
    BY DEF Request
  <2>2. req' = [req EXCEPT ![s] = x] /\ UNCHANGED <<versions, audit>>
    BY <1>1 DEF Commit
  <2> QED
    BY <2>1, <2>2
<1>2. CASE Refresh(s)
  <2> DEFINE x == [req[s] EXCEPT !.phase = "latest", !.snapshot = claims[req[s].claim]]
  <2>1. x.phase = "latest"
    BY DEF Request
  <2>2. req' = [req EXCEPT ![s] = x] /\ UNCHANGED <<versions, audit>>
    BY <1>2 DEF Refresh
  <2> QED
    BY <2>1, <2>2
<1>3. CASE ReadLatest(s)
  <2> DEFINE x(n, prev) == [req[s] EXCEPT !.phase = "insert", !.number = n, !.previous = prev]
  <2>1. \A n, prev : x(n, prev).phase = "insert"
    BY DEF Request
  <2>2. \E n, prev : req' = [req EXCEPT ![s] = x(n, prev)]
    BY <1>3 DEF ReadLatest, Number
  <2>3. UNCHANGED <<versions, audit>>
    BY <1>3 DEF ReadLatest
  <2> HIDE DEF x
  <2> QED
    BY <2>1, <2>2, <2>3
<1> QED
  BY <1>1, <1>2, <1>3

\* Apart from an INSERT into claim_versions, no step adds an entry to those
\* written or due, and none removes a version.
LEMMA EntriesStep ==
    ASSUME IInv, [Next]_vars, \A s \in Sessions : ~InsertVersion(s)
    PROVE  versions' = versions /\ Entries' \subseteq Entries
<1> USE DEF IInv, TypeOK, Entries, Pending
<1>1. CASE UNCHANGED vars
  BY <1>1 DEF vars
<1>2. ASSUME NEW s \in Sessions, NEW x, x.phase # "audit", UNCHANGED <<versions, audit>>,
             req' = [req EXCEPT ![s] = x]
      PROVE  versions' = versions /\ Entries' \subseteq Entries
  BY <1>2
<1>3. ASSUME NEW s \in Sessions, NEW c \in Claims, Start(s, c)
      PROVE  versions' = versions /\ Entries' \subseteq Entries
  <2>1. ASSUME NEW new, Load(s, c, new)
        PROVE  versions' = versions /\ Entries' \subseteq Entries
    BY <2>1, <1>2 DEF Load
  <2>2. CASE create_claim(s, c)
    <3>1. [IdleRequest EXCEPT !.phase = "refresh", !.claim = c, !.id = started + 1].phase # "audit"
      BY DEF IdleRequest
    <3> QED
      BY <2>2, <3>1, <1>2 DEF create_claim
  <2> QED
    BY <1>3, <2>1, <2>2 DEF Start, confirm_claim, retract_claim, archive_claim, lock_claim,
                            unlock_claim, update_sensitivity
<1>4. ASSUME NEW s \in Sessions, Continue(s)
      PROVE  versions' = versions /\ Entries' \subseteq Entries
  <2>1. CASE Commit(s) \/ Refresh(s) \/ ReadLatest(s)
    <3>1. req[s] \in Request
      OBVIOUS
    <3>2. PICK x : /\ x.phase # "audit" /\ req' = [req EXCEPT ![s] = x]
                   /\ UNCHANGED <<versions, audit>>
      BY <2>1, <3>1, ReadingStep
    <3> QED
      BY <3>2, <1>2
  <2>2. CASE InsertFails(s) \/ Crash(s)
    BY <2>2, <1>2 DEF InsertFails, Crash, IdleRequest
  <2>3. CASE WriteAudit(s)
    BY <2>3 DEF WriteAudit, IdleRequest
  <2> QED
    BY <1>4, <2>1, <2>2, <2>3 DEF Continue
<1>5. ASSUME NEW j \in Jobs, RunJob(j)
      PROVE  versions' = versions /\ Entries' \subseteq Entries
  BY <1>5 DEF RunJob, JobRead, JobAborts, JobCommit, JobAudit, JobCrash, JobEntry
<1> QED
  BY <1>1, <1>3, <1>4, <1>5 DEF Next

LEMMA AuditStep == IInv /\ AuditInv /\ [Next]_vars => AuditInv'
<1> SUFFICES ASSUME IInv, AuditInv, [Next]_vars PROVE AuditInv'
  OBVIOUS
<1>1. CASE \A s \in Sessions : ~InsertVersion(s)
  <2>1. versions' = versions /\ Entries' \subseteq Entries
    BY <1>1, EntriesStep
  <2>2. IsFiniteSet(Entries') /\ Cardinality(Entries') <= Cardinality(Entries)
    BY <2>1, FS_Subset DEF AuditInv
  <2>3. Cardinality(Entries') \in Nat /\ Cardinality(Entries) \in Nat /\ Cardinality(versions) \in Nat
    BY <2>2, FS_CardinalityType DEF AuditInv
  <2> QED
    BY <2>1, <2>2, <2>3 DEF AuditInv
<1>2. ASSUME NEW s \in Sessions, InsertVersion(s) PROVE AuditInv'
  <2> DEFINE new == Version(req[s].claim, req[s].number, req[s].previous, req[s].snapshot)
             entry == RequestEntry(req[s].id)
  <2>1. versions' = versions \union {new} /\ new \notin versions
    BY <1>2 DEF InsertVersion, NumberIsFree, VersionsOf, Version
  <2>2. Entries' \subseteq Entries \union {entry}
    <3>1. /\ audit' = audit
          /\ \A t \in Sessions : t # s => req'[t] = req[t]
          /\ req'[s].id = req[s].id
      BY <1>2 DEF InsertVersion, IInv, TypeOK, IdleRequest
    <3> QED
      BY <3>1 DEF Entries, Pending
  <2> HIDE DEF new, entry
  <2>3. /\ IsFiniteSet(versions') /\ Cardinality(versions') = Cardinality(versions) + 1
        /\ IsFiniteSet(Entries \union {entry})
        /\ Cardinality(Entries \union {entry}) <= Cardinality(Entries) + 1
    <3>1. IsFiniteSet(versions') /\ Cardinality(versions') = Cardinality(versions) + 1
      BY <2>1, FS_AddElement, Zenon DEF AuditInv
    <3>2. /\ IsFiniteSet(Entries \union {entry})
          /\ Cardinality(Entries \union {entry}) = IF entry \in Entries THEN Cardinality(Entries)
                                                   ELSE Cardinality(Entries) + 1
      BY FS_AddElement, Zenon DEF AuditInv
    <3>3. Cardinality(Entries) \in Nat
      BY FS_CardinalityType DEF AuditInv
    <3> QED
      BY <3>1, <3>2, <3>3
  <2>4. IsFiniteSet(Entries') /\ Cardinality(Entries') <= Cardinality(Entries \union {entry})
    BY <2>2, <2>3, FS_Subset
  <2>5. /\ Cardinality(Entries') \in Nat /\ Cardinality(Entries) \in Nat
        /\ Cardinality(versions) \in Nat /\ Cardinality(Entries \union {entry}) \in Nat
    BY <2>3, <2>4, FS_CardinalityType DEF AuditInv
  <2> QED
    BY <2>3, <2>4, <2>5 DEF AuditInv
<1> QED
  BY <1>1, <1>2

\* However many requests are cut off between their version and their audit
\* entry, the audit trail never tells of more operations than the history.
THEOREM AuditFollowsHistory == Spec => []AuditedIsVersioned
<1>1. Init => AuditInv
  <2> SUFFICES ASSUME Init PROVE AuditInv
    OBVIOUS
  <2>1. versions = {} /\ Entries = {}
    BY DEF Init, Entries, Pending, IdleRequest
  <2> QED
    BY <2>1, FS_EmptySet DEF AuditInv
<1>2. AuditInv => AuditedIsVersioned
  <2> SUFFICES ASSUME AuditInv PROVE AuditedIsVersioned
    OBVIOUS
  <2> DEFINE written == {e \in audit : e[1] = "request"}
  <2>1. written \in SUBSET Entries
    BY DEF Entries
  <2>2. IsFiniteSet(written) /\ Cardinality(written) <= Cardinality(Entries)
    BY <2>1, FS_Subset DEF AuditInv
  <2>3. /\ Cardinality(written) \in Nat /\ Cardinality(Entries) \in Nat
        /\ Cardinality(versions) \in Nat
    BY <2>2, FS_CardinalityType DEF AuditInv
  <2> QED
    BY <2>2, <2>3 DEF AuditInv, AuditedIsVersioned
<1> QED
  BY <1>1, <1>2, AuditStep, Invariance, PTL DEF Spec

-----------------------------------------------------------------------------
(* The nightly jobs against the user                                       *)

\* What a job may decide about a row: to retract it or to lower its confidence,
\* and nothing that a user decides.
Keeps(row, out) ==
    /\ out.verification_state \in {row.verification_state, "retracted"}
    /\ out.user_locked = row.user_locked
    /\ out.decay_eligible = row.decay_eligible
    /\ out.lifecycle = row.lifecycle
    /\ out.sensitivity = row.sensitivity
    /\ out.handling_policy = row.handling_policy

\* The decisions a job carries from its SELECT to its COMMIT.
DecisionsInv ==
    \A j \in Jobs, c \in Claims :
      job[j].loaded[c] # NoRow => Keeps(job[j].loaded[c], job[j].new[c])

LEMMA OutcomesKeep ==
    ASSUME NEW j \in Jobs, NEW row \in Row, NEW out \in Outcomes(j, row)
    PROVE  Keeps(row, out)
<1>1. Keeps(row, row) /\ Keeps(row, Retracted(row)) /\ Keeps(row, RetractedAndClosed(row))
  BY DEF Keeps, Retracted, RetractedAndClosed, Row
<1>2. \A n : Keeps(row, [row EXCEPT !.confidence = n])
  BY DEF Keeps, Row
<1>3. CASE out \in evaluate_decay(row)
  <2>1. \/ out \in {row, Retracted(row), RetractedAndClosed(row)}
        \/ out = [row EXCEPT !.confidence = @ - 1]
    BY <1>3 DEF evaluate_decay
  <2> QED
    BY <2>1, <1>1, <1>2
<1>4. CASE out \in evaluate_lane_decay(row)
  <2>1. \/ out \in {row, RetractedAndClosed(row)}
        \/ \E n \in 0 .. row.confidence : out = [row EXCEPT !.confidence = n]
    BY <1>4 DEF evaluate_lane_decay
  <2> QED
    BY <2>1, <1>1, <1>2
<1> QED
  BY <1>3, <1>4 DEF Outcomes

\* An UPDATE of such a decision leaves what the user has written since.
LEMMA FlushKeeps ==
    ASSUME NEW current \in Row, NEW loaded \in Row, NEW new \in Row, Keeps(loaded, new)
    PROVE  LET flushed == Flush(current, loaded, new)
           IN  /\ current.verification_state = "retracted"
                    => flushed.verification_state = "retracted"
               /\ flushed.user_locked = current.user_locked
               /\ flushed.decay_eligible = current.decay_eligible
               /\ flushed.lifecycle = current.lifecycle
               /\ flushed.sensitivity = current.sensitivity
               /\ flushed.handling_policy = current.handling_policy
BY DEF Flush, Column, Keeps

LEMMA DecisionsStep == IInv /\ DecisionsInv /\ [Next]_vars => DecisionsInv'
<1> SUFFICES ASSUME IInv, DecisionsInv, [Next]_vars PROVE DecisionsInv'
  OBVIOUS
<1>1. ASSUME job' = job PROVE DecisionsInv'
  BY <1>1 DEF DecisionsInv
<1>2. ASSUME NEW j \in Jobs, NEW state, job' = [job EXCEPT ![j] = state],
             \A c \in Claims : state.loaded[c] # NoRow => Keeps(state.loaded[c], state.new[c])
      PROVE  DecisionsInv'
  <2>1. job \in [Jobs -> JobState]
    BY DEF IInv, TypeOK
  <2> QED
    BY <1>2, <2>1 DEF DecisionsInv
<1>3. ASSUME NEW j \in Jobs, JobRead(j) PROVE DecisionsInv'
  <2> DEFINE state(decided) ==
               [phase |-> "commit", id |-> runs + 1,
                loaded |-> [c \in Claims |->
                              IF c \in Selected(j) THEN claims[c] ELSE NoRow],
                new |-> [c \in Claims |->
                              IF c \in Selected(j) THEN decided[c] ELSE NoRow]]
  <2>1. PICK decided \in [Selected(j) ->
                            UNION {Outcomes(j, claims[c]) : c \in Selected(j)}] :
          /\ \A c \in Selected(j) : decided[c] \in Outcomes(j, claims[c])
          /\ job' = [job EXCEPT ![j] = state(decided)]
    BY <1>3 DEF JobRead
  <2>2. ASSUME NEW c \in Selected(j) PROVE Keeps(claims[c], decided[c])
    <3>1. claims[c] \in Row
      BY DEF Selected, IInv, TypeOK
    <3> QED
      BY <2>1, <3>1, OutcomesKeep
  <2>3. \A c \in Claims : state(decided).loaded[c] # NoRow =>
                            Keeps(state(decided).loaded[c], state(decided).new[c])
    BY <2>2
  <2> HIDE DEF state
  <2> QED
    BY <2>1, <2>3, <1>2
<1>4. ASSUME NEW j \in Jobs, JobAborts(j) \/ JobCommit(j) \/ JobAudit(j) \/ JobCrash(j)
      PROVE  DecisionsInv'
  <2>1. PICK state : /\ job' = [job EXCEPT ![j] = state]
                     /\ state.loaded = [c \in Claims |-> NoRow]
    <3>1. /\ IdleJob.loaded = [c \in Claims |-> NoRow]
          /\ [IdleJob EXCEPT !.phase = "aborted"].loaded = IdleJob.loaded
          /\ [IdleJob EXCEPT !.phase = "audit", !.id = job[j].id].loaded = IdleJob.loaded
      BY DEF IdleJob
    <3>2. \/ job' = [job EXCEPT ![j] = IdleJob]
          \/ job' = [job EXCEPT ![j] = [IdleJob EXCEPT !.phase = "aborted"]]
          \/ job' = [job EXCEPT ![j] = [IdleJob EXCEPT !.phase = "audit", !.id = job[j].id]]
      BY <1>4 DEF JobAborts, JobCommit, JobAudit, JobCrash
    <3> QED
      BY <3>1, <3>2
  <2> QED
    BY <2>1, <1>2
<1>5. \/ job' = job
      \/ \E j \in Jobs : JobRead(j) \/ JobAborts(j) \/ JobCommit(j) \/ JobAudit(j) \/ JobCrash(j)
  <2>1. CASE UNCHANGED vars
    BY <2>1 DEF vars
  <2>2. ASSUME NEW s \in Sessions, NEW c \in Claims, Start(s, c) PROVE job' = job
    BY <2>2 DEF Start, Load, create_claim, confirm_claim, retract_claim, archive_claim,
         lock_claim, unlock_claim, update_sensitivity
  <2>3. ASSUME NEW s \in Sessions, Continue(s) PROVE job' = job
    BY <2>3 DEF Continue, Commit, Refresh, ReadLatest, InsertVersion, InsertFails,
         WriteAudit, Crash
  <2> QED
    BY <2>1, <2>2, <2>3 DEF Next, RunJob
<1> QED
  BY <1>1, <1>3, <1>4, <1>5

LEMMA JobCommitKeeps ==
    ASSUME IInv, DecisionsInv, NEW j \in Jobs, JobCommit(j), NEW c \in Claims,
           claims[c] # NoRow
    PROVE  /\ claims[c].verification_state = "retracted"
                => claims'[c].verification_state = "retracted"
           /\ claims'[c].user_locked = claims[c].user_locked
           /\ claims'[c].decay_eligible = claims[c].decay_eligible
           /\ claims'[c].lifecycle = claims[c].lifecycle
           /\ claims'[c].sensitivity = claims[c].sensitivity
           /\ claims'[c].handling_policy = claims[c].handling_policy
<1>1. CASE job[j].loaded[c] = NoRow
  BY <1>1 DEF JobCommit, Write
<1>2. CASE job[j].loaded[c] # NoRow
  <2>1. claims[c] \in Row /\ job[j].loaded[c] \in Row /\ job[j].new[c] \in Row
    BY <1>2 DEF IInv, TypeOK, JobInv, JobState
  <2>2. claims'[c] = Flush(claims[c], job[j].loaded[c], job[j].new[c])
    BY <1>2 DEF JobCommit, Write
  <2>3. Keeps(job[j].loaded[c], job[j].new[c])
    BY <1>2 DEF DecisionsInv
  <2> QED
    BY <2>1, <2>2, <2>3, FlushKeeps
<1> QED
  BY <1>1, <1>2

\* A nightly job writes hours after it has read, and what the user has decided
\* meanwhile is still there afterwards.
THEOREM UserDecisionsKept == Spec => JobsKeepUserDecisions
<1>1. Init => DecisionsInv
  BY DEF Init, DecisionsInv, IdleJob
<1>2. IInv /\ DecisionsInv /\ [Next]_vars =>
        [\A c \in Claims, j \in Jobs :
           JobCommit(j) /\ claims[c] # NoRow =>
             /\ claims[c].verification_state = "retracted"
                  => claims'[c].verification_state = "retracted"
             /\ claims'[c].user_locked = claims[c].user_locked
             /\ claims'[c].decay_eligible = claims[c].decay_eligible
             /\ claims'[c].lifecycle = claims[c].lifecycle
             /\ claims'[c].sensitivity = claims[c].sensitivity
             /\ claims'[c].handling_policy = claims[c].handling_policy]_vars
  BY JobCommitKeeps
<1> QED
  BY <1>1, <1>2, DecisionsStep, Invariance, PTL DEF Spec, JobsKeepUserDecisions
=============================================================================
