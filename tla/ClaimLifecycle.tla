--------------------------- MODULE ClaimLifecycle ---------------------------
(***************************************************************************)
(* The claims of one user, their version history and their audit records,  *)
(* as ClaimService, DecayService and MemoryLifecycleService change them.   *)
(*                                                                         *)
(* Every operation of ClaimService is a request that holds one database    *)
(* session and performs several transactions, one after the other:         *)
(*                                                                         *)
(*    SELECT claim, guard, assign   (Load, phase "commit" follows)         *)
(*    UPDATE claim; COMMIT          (Commit,      "refresh")               *)
(*    SELECT claim                  (Refresh,     "latest")                *)
(*    SELECT newest version         (ReadLatest,  "insert")                *)
(*    INSERT version; COMMIT        (Insert,      "audit")                 *)
(*    INSERT audit entry; COMMIT    (WriteAudit,  "idle")                  *)
(*                                                                         *)
(* No row is locked in between (READ COMMITTED), so the steps of           *)
(* concurrent requests and of the nightly jobs interleave freely, and a    *)
(* request can die between any two of them.                                *)
(***************************************************************************)
EXTENDS Integers, FiniteSets

CONSTANTS
    Claims,            \* claim ids
    Sessions,          \* request handlers, each with an AsyncSession of its own
    Jobs,              \* nightly jobs that may run: subset of {"decay", "lane"}
    FreshRows,         \* the rows a create may insert
    NewSensitivities,  \* what PATCH /sensitivity may ask for
    Operations,        \* the ClaimService operations the users call
    MayFail,           \* sessions and jobs that may die between transactions
    MaxOps,            \* bound: operations started
    MaxRuns,           \* bound: job runs started
    MaxConfidence,     \* reductions by 0.9 that are left before 0.3 is passed
    NoRow, NoHash, NoClaim

-----------------------------------------------------------------------------
(* The claims table                                                        *)

VerificationStates == {"tentative", "confirmed", "superseded", "retracted"}
Lifecycles == {"session", "temporary", "permanent", "expiry", "archived"}
Sensitivities == {"S0", "S1", "S2", "S3", "S4"}
HandlingPolicies == {"cloud_ok_encrypted", "local_only", "s4_isolated"}

\* The columns some operation changes or some guard reads.  superseded tells
\* whether superseded_at is set; updated_at is the time of the last request
\* that wrote it; confidence counts how many reductions by 0.9 are left
\* before the value falls below 0.3.
Row == [verification_state : VerificationStates,
        superseded         : BOOLEAN,
        user_locked        : BOOLEAN,
        decay_eligible     : BOOLEAN,
        lifecycle          : Lifecycles,
        sensitivity        : Sensitivities,
        handling_policy    : HandlingPolicies,
        confidence         : 0 .. MaxConfidence,
        updated_at         : Nat]

ASSUME ConstantsAssumption ==
    /\ MaxOps \in Nat
    /\ MaxRuns \in Nat
    /\ MaxConfidence \in Nat
    /\ Jobs \subseteq {"decay", "lane"}
    /\ NewSensitivities \subseteq Sensitivities
    /\ Operations \subseteq {"confirm", "retract", "archive", "lock",
                             "unlock", "sensitivity"}

\* A claim is never created archived: the lifecycle of ClaimData cannot say so.
ASSUME FreshRowsAssumption ==
    /\ FreshRows \subseteq Row
    /\ \A r \in FreshRows : r.lifecycle # "archived"

ASSUME NullsAssumption ==
    /\ NoRow \notin Row
    /\ NoClaim \notin Claims

\* SHA-256 over the canonical JSON of the snapshot; taken to be collision-free.
Hash(snapshot) == <<"sha256", snapshot>>

\* Mutant: the derived policy is the level itself.
PolicyNotDerived(s) == s

SensitivityToPolicy(s) ==
    IF s = "S4" THEN "s4_isolated"
    ELSE IF s = "S3" THEN "local_only"
    ELSE "cloud_ok_encrypted"

-----------------------------------------------------------------------------
(* State                                                                   *)

VARIABLES
    claims,      \* claims[c]: the committed row, NoRow before the create
    versions,    \* the rows of claim_versions
    audit,       \* the audit entries written, by the operation they record
    req,         \* req[s]: the request that session s serves
    job,         \* job[j]: the nightly job j
    started,     \* number of operations started, the clock of updated_at
    runs,        \* number of job runs started
    past         \* history variable: past[c], the rows claim c has had

vars == <<claims, versions, audit, req, job, started, runs, past>>

Phases == {"idle", "commit", "refresh", "latest", "insert", "audit"}
JobPhases == {"idle", "commit", "audit", "aborted"}

\* loaded and new are the ORM object as read and as assigned; snapshot is the
\* object after db.refresh; number and previous are read from the newest version.
IdleRequest == [phase |-> "idle", claim |-> NoClaim, id |-> 0,
                loaded |-> NoRow, new |-> NoRow, snapshot |-> NoRow,
                number |-> 0, previous |-> NoHash]

IdleJob == [phase |-> "idle", id |-> 0,
            loaded |-> [c \in Claims |-> NoRow],
            new    |-> [c \in Claims |-> NoRow]]

RequestEntry(n) == <<"request", n>>
JobEntry(n) == <<"job", n>>

Version(c, n, prev, snapshot) ==
    [claim_id |-> c, version_number |-> n, version_hash |-> Hash(snapshot),
     previous_hash |-> prev, content_snapshot |-> snapshot]

VersionsOf(c) == {v \in versions : v.claim_id = c}

Init ==
    /\ claims = [c \in Claims |-> NoRow]
    /\ versions = {}
    /\ audit = {}
    /\ req = [s \in Sessions |-> IdleRequest]
    /\ job = [j \in Jobs |-> IdleJob]
    /\ started = 0
    /\ runs = 0
    /\ past = [c \in Claims |-> {}]

-----------------------------------------------------------------------------
(* Writing rows                                                            *)

\* Mutant: an UPDATE of all columns, changed or not.
WholeRow(current, loaded, new) == new

\* The unit of work sends an UPDATE of the columns whose value was changed
\* since the object was loaded, and of no others.
Column(current, loaded, new) == IF new = loaded THEN current ELSE new

Flush(current, loaded, new) ==
  [verification_state |-> Column(current.verification_state,
                             loaded.verification_state, new.verification_state),
   superseded      |-> Column(current.superseded, loaded.superseded,
                              new.superseded),
   user_locked     |-> Column(current.user_locked, loaded.user_locked,
                              new.user_locked),
   decay_eligible  |-> Column(current.decay_eligible, loaded.decay_eligible,
                              new.decay_eligible),
   lifecycle       |-> Column(current.lifecycle, loaded.lifecycle,
                              new.lifecycle),
   sensitivity     |-> Column(current.sensitivity, loaded.sensitivity,
                              new.sensitivity),
   handling_policy |-> Column(current.handling_policy, loaded.handling_policy,
                              new.handling_policy),
   confidence      |-> Column(current.confidence, loaded.confidence,
                              new.confidence),
   updated_at      |-> Column(current.updated_at, loaded.updated_at,
                              new.updated_at)]

Write(rows) ==
    /\ claims' = rows
    /\ past' = [c \in Claims |->
                  IF rows[c] = NoRow THEN past[c] ELSE past[c] \union {rows[c]}]

-----------------------------------------------------------------------------
(* The first transaction of each operation                                 *)

\* SELECT the claim and assign to its columns; datetime.now() is the number
\* of the operation.  A guard that fails raises ConflictError before anything
\* is written: the request then changes nothing and is not a step.
Load(s, c, new) ==
    /\ req[s].phase = "idle"
    /\ started < MaxOps
    /\ req' = [req EXCEPT ![s] =
                 [phase |-> "commit", claim |-> c, id |-> started + 1,
                  loaded |-> claims[c],
                  new |-> [new EXCEPT !.updated_at = started + 1],
                  snapshot |-> NoRow, number |-> 0, previous |-> NoHash]]
    /\ started' = started + 1
    /\ UNCHANGED <<claims, versions, audit, job, runs, past>>

confirm_claim(s, c) ==
    /\ "confirm" \in Operations
    /\ claims[c] # NoRow
    /\ claims[c].verification_state \notin {"retracted", "confirmed"}
    /\ Load(s, c, [claims[c] EXCEPT !.verification_state = "confirmed"])

retract_claim(s, c) ==
    /\ "retract" \in Operations
    /\ claims[c] # NoRow
    /\ Load(s, c, [claims[c] EXCEPT !.verification_state = "retracted",
                                    !.superseded = TRUE])

archive_claim(s, c) ==
    /\ "archive" \in Operations
    /\ claims[c] # NoRow
    /\ Load(s, c, [claims[c] EXCEPT !.lifecycle = "archived",
                                    !.decay_eligible = FALSE])

lock_claim(s, c) ==
    /\ "lock" \in Operations
    /\ claims[c] # NoRow
    /\ ~claims[c].user_locked
    /\ Load(s, c, [claims[c] EXCEPT !.user_locked = TRUE,
                                    !.decay_eligible = FALSE])

unlock_claim(s, c) ==
    /\ "unlock" \in Operations
    /\ claims[c] # NoRow
    /\ claims[c].user_locked
    /\ Load(s, c, [claims[c] EXCEPT !.user_locked = FALSE,
                                    !.decay_eligible = TRUE])

update_sensitivity(s, c) ==
    /\ "sensitivity" \in Operations
    /\ claims[c] # NoRow
    /\ \E sensitivity \in NewSensitivities :
         Load(s, c, [claims[c] EXCEPT
                       !.sensitivity = sensitivity,
                       !.handling_policy = SensitivityToPolicy(sensitivity)])

\* _persist_claim reads nothing first: its INSERT is its first transaction.
create_claim(s, c) ==
    /\ req[s].phase = "idle"
    /\ started < MaxOps
    /\ claims[c] = NoRow
    /\ \E row \in FreshRows :
         Write([claims EXCEPT ![c] = [row EXCEPT !.updated_at = started + 1]])
    /\ req' = [req EXCEPT ![s] =
                 [IdleRequest EXCEPT !.phase = "refresh", !.claim = c,
                                     !.id = started + 1]]
    /\ started' = started + 1
    /\ UNCHANGED <<versions, audit, job, runs>>

-----------------------------------------------------------------------------
(* The transactions that follow it in every operation                      *)

\* Mutant: the object is not refreshed before it is copied.
CommitWithoutRefresh(s) ==
    /\ req[s].phase = "commit"
    /\ LET r == req[s] IN
         Write([claims EXCEPT ![r.claim] =
                  Flush(claims[r.claim], r.loaded, r.new)])
    /\ req' = [req EXCEPT ![s] = [@ EXCEPT !.phase = "latest",
                                            !.snapshot = req[s].new,
                                            !.loaded = NoRow, !.new = NoRow]]
    /\ UNCHANGED <<versions, audit, job, started, runs>>

Commit(s) ==
    /\ req[s].phase = "commit"
    /\ LET r == req[s] IN
         Write([claims EXCEPT ![r.claim] =
                  Flush(claims[r.claim], r.loaded, r.new)])
    /\ req' = [req EXCEPT ![s] = [@ EXCEPT !.phase = "refresh",
                                            !.loaded = NoRow, !.new = NoRow]]
    /\ UNCHANGED <<versions, audit, job, started, runs>>

Refresh(s) ==
    /\ req[s].phase = "refresh"
    /\ req' = [req EXCEPT ![s] = [@ EXCEPT !.phase = "latest",
                                            !.snapshot = claims[req[s].claim]]]
    /\ UNCHANGED <<claims, versions, audit, job, started, runs, past>>

Number(s, n, prev) ==
    req' = [req EXCEPT ![s] = [@ EXCEPT !.phase = "insert", !.number = n,
                                        !.previous = prev]]

\* SELECT ... ORDER BY version_number DESC LIMIT 1
ReadLatest(s) ==
    /\ req[s].phase = "latest"
    /\ \/ /\ VersionsOf(req[s].claim) = {}
          /\ Number(s, 1, NoHash)
       \/ \E v \in VersionsOf(req[s].claim) :
            /\ \A w \in VersionsOf(req[s].claim) :
                 w.version_number <= v.version_number
            /\ Number(s, v.version_number + 1, v.version_hash)
    /\ UNCHANGED <<claims, versions, audit, job, started, runs, past>>

\* Mutant: no unique index.
NumberNotUnique(c, n) == TRUE

\* The unique index idx_versions_claim_number.
NumberIsFree(c, n) == \A v \in VersionsOf(c) : v.version_number # n

\* Mutant: INSERT ... ON CONFLICT DO UPDATE.
UpsertVersion(s) ==
    /\ req[s].phase = "insert"
    /\ versions' = {v \in versions : ~(/\ v.claim_id = req[s].claim
                                       /\ v.version_number = req[s].number)}
         \union {Version(req[s].claim, req[s].number, req[s].previous,
                         req[s].snapshot)}
    /\ req' = [req EXCEPT ![s] = [IdleRequest EXCEPT !.phase = "audit",
                                     !.claim = req[s].claim, !.id = req[s].id]]
    /\ UNCHANGED <<claims, audit, job, started, runs, past>>

InsertVersion(s) ==
    /\ req[s].phase = "insert"
    /\ NumberIsFree(req[s].claim, req[s].number)
    /\ versions' = versions \union
         {Version(req[s].claim, req[s].number, req[s].previous, req[s].snapshot)}
    /\ req' = [req EXCEPT ![s] = [IdleRequest EXCEPT !.phase = "audit",
                                     !.claim = req[s].claim, !.id = req[s].id]]
    /\ UNCHANGED <<claims, audit, job, started, runs, past>>

\* Mutant: the IntegrityError is swallowed and the operation goes on.
InsertFailureIgnored(s) ==
    /\ req[s].phase = "insert"
    /\ ~NumberIsFree(req[s].claim, req[s].number)
    /\ req' = [req EXCEPT ![s] = [IdleRequest EXCEPT !.phase = "audit",
                                     !.claim = req[s].claim, !.id = req[s].id]]
    /\ UNCHANGED <<claims, versions, audit, job, started, runs, past>>

\* IntegrityError: another session took the number.  It is not handled, so
\* the request ends; its first transaction stays committed.
InsertFails(s) ==
    /\ req[s].phase = "insert"
    /\ ~NumberIsFree(req[s].claim, req[s].number)
    /\ req' = [req EXCEPT ![s] = IdleRequest]
    /\ UNCHANGED <<claims, versions, audit, job, started, runs, past>>

WriteAudit(s) ==
    /\ req[s].phase = "audit"
    /\ audit' = audit \union {RequestEntry(req[s].id)}
    /\ req' = [req EXCEPT ![s] = IdleRequest]
    /\ UNCHANGED <<claims, versions, job, started, runs, past>>

\* The process stops, or the connection is lost, between two transactions.
Crash(s) ==
    /\ s \in MayFail
    /\ req[s].phase # "idle"
    /\ req' = [req EXCEPT ![s] = IdleRequest]
    /\ UNCHANGED <<claims, versions, audit, job, started, runs, past>>

-----------------------------------------------------------------------------
(* The nightly jobs                                                        *)

Retracted(row) == [row EXCEPT !.verification_state = "retracted"]
RetractedAndClosed(row) == [Retracted(row) EXCEPT !.superseded = TRUE]

\* ozy-core evaluate_decay.  Whether valid_to lies in the past is left open.
evaluate_decay(row) ==
    IF row.user_locked \/ ~row.decay_eligible THEN {row}
    ELSE CASE row.lifecycle = "session" -> {Retracted(row)}
           [] row.lifecycle = "expiry" -> {row, Retracted(row)}
           [] row.lifecycle = "temporary" ->
                IF row.confidence = 0 THEN {RetractedAndClosed(row)}
                ELSE {[row EXCEPT !.confidence = @ - 1]}
           [] OTHER -> {row}

\* evaluate_lane_decay.  Lane, age and floor are left open: any claim that is
\* not locked may be kept, lose confidence or pass its TTL.
evaluate_lane_decay(row) ==
    IF row.user_locked THEN {row}
    ELSE {[row EXCEPT !.confidence = n] : n \in 0 .. row.confidence}
           \union {RetractedAndClosed(row)}

Outcomes(j, row) ==
    IF j = "decay" THEN evaluate_decay(row) ELSE evaluate_lane_decay(row)

\* The WHERE clauses of the two jobs: only the lane job skips superseded rows.
Skipped(j) == IF j = "decay" THEN {"retracted"} ELSE {"superseded", "retracted"}

Selected(j) == {c \in Claims : /\ claims[c] # NoRow
                               /\ claims[c].decay_eligible
                               /\ claims[c].verification_state \notin Skipped(j)}

\* Lifecycle("archived") raises ValueError: the contract knows no such value.
Unreadable(j) ==
    j = "decay" /\ \E c \in Selected(j) : claims[c].lifecycle = "archived"

StartRun(j) ==
    /\ job[j].phase \in {"idle", "aborted"}
    /\ runs < MaxRuns
    /\ runs' = runs + 1

\* run_decay / run_lane_decay: SELECT the eligible claims and decide.  Without
\* any, run_decay returns at once; run_lane_decay goes on to its audit entry.
JobRead(j) ==
    /\ StartRun(j)
    /\ ~Unreadable(j)
    /\ j = "decay" => Selected(j) # {}
    /\ \E decided \in [Selected(j) ->
                         UNION {Outcomes(j, claims[c]) : c \in Selected(j)}] :
         /\ \A c \in Selected(j) : decided[c] \in Outcomes(j, claims[c])
         /\ job' = [job EXCEPT ![j] =
              [phase |-> "commit", id |-> runs + 1,
               loaded |-> [c \in Claims |->
                             IF c \in Selected(j) THEN claims[c] ELSE NoRow],
               new |-> [c \in Claims |->
                             IF c \in Selected(j) THEN decided[c] ELSE NoRow]]]
    /\ UNCHANGED <<claims, versions, audit, req, started, past>>

JobAborts(j) ==
    /\ StartRun(j)
    /\ Unreadable(j)
    /\ job' = [job EXCEPT ![j] = [IdleJob EXCEPT !.phase = "aborted"]]
    /\ UNCHANGED <<claims, versions, audit, req, started, past>>

\* One transaction updates all claims of the user.
JobCommit(j) ==
    /\ job[j].phase = "commit"
    /\ Write([c \in Claims |->
                IF job[j].loaded[c] = NoRow THEN claims[c]
                ELSE Flush(claims[c], job[j].loaded[c], job[j].new[c])])
    /\ job' = [job EXCEPT ![j] = [IdleJob EXCEPT !.phase = "audit",
                                                 !.id = job[j].id]]
    /\ UNCHANGED <<versions, audit, req, started, runs>>

JobAudit(j) ==
    /\ job[j].phase = "audit"
    /\ audit' = audit \union {JobEntry(job[j].id)}
    /\ job' = [job EXCEPT ![j] = IdleJob]
    /\ UNCHANGED <<claims, versions, req, started, runs, past>>

JobCrash(j) ==
    /\ j \in MayFail
    /\ job[j].phase \in {"commit", "audit"}
    /\ job' = [job EXCEPT ![j] = IdleJob]
    /\ UNCHANGED <<claims, versions, audit, req, started, runs, past>>

-----------------------------------------------------------------------------

Start(s, c) ==
    \/ create_claim(s, c)
    \/ confirm_claim(s, c)
    \/ retract_claim(s, c)
    \/ archive_claim(s, c)
    \/ lock_claim(s, c)
    \/ unlock_claim(s, c)
    \/ update_sensitivity(s, c)

Continue(s) ==
    \/ Commit(s)
    \/ Refresh(s)
    \/ ReadLatest(s)
    \/ InsertVersion(s)
    \/ InsertFails(s)
    \/ WriteAudit(s)
    \/ Crash(s)

RunJob(j) ==
    \/ JobRead(j)
    \/ JobAborts(j)
    \/ JobCommit(j)
    \/ JobAudit(j)
    \/ JobCrash(j)

Next ==
    \/ \E s \in Sessions, c \in Claims : Start(s, c)
    \/ \E s \in Sessions : Continue(s)
    \/ \E j \in Jobs : RunJob(j)

Spec == Init /\ [][Next]_vars

-----------------------------------------------------------------------------
(* Properties                                                              *)

Hashes == {"sha256"} \X Row

VersionRow == [claim_id : Claims, version_number : Nat \ {0},
               version_hash : Hashes, previous_hash : Hashes \union {NoHash},
               content_snapshot : Row]

Request == [phase : Phases, claim : Claims \union {NoClaim}, id : Nat,
            loaded : Row \union {NoRow}, new : Row \union {NoRow},
            snapshot : Row \union {NoRow}, number : Nat,
            previous : Hashes \union {NoHash}]

JobState == [phase : JobPhases, id : Nat,
             loaded : [Claims -> Row \union {NoRow}],
             new : [Claims -> Row \union {NoRow}]]

\* The type of every variable.
TypeOK ==
    /\ claims \in [Claims -> Row \union {NoRow}]
    /\ versions \subseteq VersionRow
    /\ audit \subseteq {"request", "job"} \X Nat
    /\ req \in [Sessions -> Request]
    /\ job \in [Jobs -> JobState]
    /\ started \in 0 .. MaxOps
    /\ runs \in 0 .. MaxRuns
    /\ past \in [Claims -> SUBSET Row]

\* The integrity query of OZY_DB_GUIDE: whatever sessions race for the next
\* number and wherever one of them stops, the numbers of a claim are unique
\* and have no gap, every hash is the hash of its own snapshot, and every
\* version carries the hash of the version before it.
VersionChain ==
    \A v \in versions :
      /\ v.version_hash = Hash(v.content_snapshot)
      /\ \A w \in versions :
           v.claim_id = w.claim_id /\ v.version_number = w.version_number => v = w
      /\ \/ v.version_number = 1 /\ v.previous_hash = NoHash
         \/ \E w \in versions : /\ w.claim_id = v.claim_id
                                /\ w.version_number = v.version_number - 1
                                /\ w.version_hash = v.previous_hash

\* A snapshot is a row the claim really had, also when another session or a
\* nightly job wrote between this request's UPDATE and its SELECT: the object
\* is refreshed before it is copied, so no version records a mixture that
\* exists in one session's memory only.
SnapshotsExisted ==
    \A v \in versions : v.content_snapshot \in past[v.claim_id]

\* The audit trail never runs ahead of the history: every audit entry of a
\* claim operation is backed by a version row of its own.
AuditedIsVersioned ==
    Cardinality({e \in audit : e[1] = "request"}) <= Cardinality(versions)

\* No operation brings an archived claim back, and a request that read the
\* row before it was archived does not do so by accident either.
ArchivedStaysArchived ==
    [][\A c \in Claims :
         claims[c] # NoRow => (claims[c].lifecycle = "archived"
                                 => claims'[c].lifecycle = "archived")]_vars

\* A nightly job decides on rows it has read and writes them later.  Whatever
\* the user did in between - retract, archive, lock, change the sensitivity -
\* is still there after the job's transaction.
JobsKeepUserDecisions ==
    [][\A c \in Claims, j \in Jobs :
         JobCommit(j) /\ claims[c] # NoRow =>
           /\ claims[c].verification_state = "retracted"
                => claims'[c].verification_state = "retracted"
           /\ claims'[c].user_locked = claims[c].user_locked
           /\ claims'[c].decay_eligible = claims[c].decay_eligible
           /\ claims'[c].lifecycle = claims[c].lifecycle
           /\ claims'[c].sensitivity = claims[c].sensitivity
           /\ claims'[c].handling_policy = claims[c].handling_policy]_vars

\* What claim_versions promises, said without sessions and transactions.
History == INSTANCE VersionLog WITH Snapshots <- Row, log <- versions

\* The interleaved transactions implement it: every version that is inserted
\* extends the newest one of its claim and none is ever changed or removed.
ImplementsVersionLog == History!Spec
=============================================================================
