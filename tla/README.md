# Ozymandias: TLA+ models, model checking and proofs

Ozymandias is a personal assistant with a long-term memory that the user owns: every
remembered fact is a *claim* that passes write gates, is approved or rejected by a person
when it is delicate, is versioned, decays and can be locked, archived or retracted. The
backend (`src/backend/app`, Python, FastAPI, SQLAlchemy, Redis, Celery) keeps the state; the
decision rules are pure functions in `src/rust/ozy-core`; the frontend (`src/frontend`) talks
to both.

This directory holds TLA+ models of that state, the TLC configurations that check them and
the TLAPS proofs about them.

## How the program runs

* One `AsyncSession` per HTTP request, autoflush off and `expire_on_commit` off
  (`database.py`), PostgreSQL at READ COMMITTED, no `SELECT ... FOR UPDATE` anywhere. A service method
  commits several times: the operation is not one transaction but a sequence of them, and two
  requests, or a request and a Celery job, interleave between any two.
* An `UPDATE` carries only the columns whose value differs from the one that was loaded. Two
  overlapping writers therefore merge per column and not per row.
* The nightly Celery jobs (decay, lane decay, cleanup, briefing) run in another process on the
  same tables.
* Redis counters (circuit breaker, rebound guard) are read, compared and written in separate
  commands.

Every model below is built from these facts: an action is one transaction (or one Redis
command), the steps of different requests interleave, a request can die between any two.

## Inventory

What each part keeps, does and depends on, and what makes it correct. *Modelled* names the
module; parts without one are discussed under "Not modelled".

| Part | State | Operations | Hard behaviour | Correct if | Modelled |
|---|---|---|---|---|---|
| Claims and versions (`claim_service.py`) | `claims`, `claim_versions` | create, confirm, retract, archive, lock, unlock, change sensitivity | each operation is four or five commits; requests overlap; the version number is read, then inserted | the history is a hash chain without gaps whose snapshots are real; archived and retracted are final | `ClaimLifecycle`, `VersionLog` |
| Nightly decay (`decay_service.py`, `memory_lifecycle_service.py`) | the same tables | `run_decay`, `run_lane_decay` | decides on rows it read before the user changed them | the user's decisions survive the job | `ClaimLifecycle` |
| Proposal inbox (`proposal_service.py`) | `memory_proposals` | submit, approve, reject | pending check and UPDATE are two transactions; approval is five commits | only who read it as pending decides it, no more claims than approvals, an audit entry per decision | `ProposalReview`, `MemoryInbox` |
| Write gates and taint (`ozy-core`) | none | filter, taint, G1 to G4 | one claim is judged alone, the taint over all | nothing delicate is stored without a person | `WriteGates` |
| Turn, second half (`turn_service.py`) | conversations, groups, audit | gates, claims, proposals, messages, audit | many commits; exceptions keep what is committed; a client may disconnect; rows held by the session are stale | a processed turn is complete, every turn is audited | `TurnPipeline` |
| Turn, first half (`turn_service.py`, `llm/router.py`) | per request | admission, fallback, streaming, extraction | what may be sent is decided before the fallback | privacy over any fallback, one author of a stream, termination | `TurnServing` |
| Circuit breaker (`circuit_breaker_service.py`) | Redis counter and trip key | check, increment, trip | check at the start, count at the end; INCR and EXPIRE are two commands | velocity bounded, a counter has a deadline | `TurnServing` |
| Token limits (`token_usage_tracker.py`) | in memory, per day | record, check | check before, record after the call | overshoot is the overlap | `TurnServing` |
| Lane-governed writes (`memory_write_service.py`) | `claims`, Redis hash | `write_fact` | lookup, supersede, insert are separate; flood counter in three commands; confirming and direct creation pass the lookup by | one value per attribute but for overlap and the user's own hand, capped floods, nothing lost | `MemoryWrite` |
| Live web search (`live_web_service.py`) | none | ask a model with web access, then the connector | a consent of its own; falls back over the same chain | a message leaves only with consent, a failed search ends no turn | `TurnServing` |
| Behavioral rules (`behavioral_rule_service.py`, `memory/rules.py`) | `behavioral_rules`, conflicts | propose, approve, reject, retire, nightly re-review | conflicts are checked on rows read earlier; conflicts once stored are never cleared | caps hold and active rules agree, but for overlapping approvals; decisions are audited; approvals end | `BehavioralRules` |
| Memory graph (`memory_graph_service.py`) | entities, relations, snippets | upsert, add, expire | SELECT then INSERT; the nightly job deletes from three tables and updates the rules in one transaction, under foreign keys | every relation has both ends, what has expired goes | `MemoryGraph` |
| Conversations (`conversation_service.py`) | chats, messages | create, append, history, delete | the number of a message is max+1; turns of one chat overlap | numbers are shared by overlap only, private turns reach no cloud prompt | `Conversations` |
| Episode index and recall (`episode_index_service.py`, `episode_recall_service.py`) | `episodes` | index job, recall | late acknowledgement repeats jobs; the embedding model may be away | every message is indexed, what is indexed can be found | `Conversations` |
| Workspaces, contacts, files (`project_service.py`, `contact_service.py`, `file_service.py`) | rows in PostgreSQL, objects in MinIO | create, patch, delete, link, upload, download | MinIO takes part in no transaction; rows are loaded before, written after awaits and read again after the commit | rows and contents belong together, edits of other columns survive, mutations are audited | `Workspaces` |
| Context assembly and recall (`context_assembler.py`, `project_context_service.py`, `memory/retrieval.py`) | none | read, filter, match, cut, compact | what is private is filtered in four places; five budgets | fits, withholds, keeps the people asked about, wastes no budget | `PromptAssembly` |
| Google account, mail, calendar (`google_oauth.py`, `gmail_service.py`, `calendar_service.py`) | `google_tokens`, OAuth states in Redis | connect, refresh, disconnect, send, create, delete | Google may do what it was asked and the answer is lost; rows are read before and written after asking | a state serves once, nothing revives a disconnected account, the stored grant is the latest unless a refresh was overtaken, effects are audited | `GoogleAccount` |
| Settings (`settings_service.py`) | `user_settings` | first access, PATCH, kill switch | masked keys come back from the client; two first accesses | no masked value becomes a key, mode changes are audited | `GoogleAccount`, `TurnServing` |
| Daily briefing (`briefing_service.py`) | `briefings` | heartbeat over all users | check, then insert, under a unique constraint; Google in the middle of it | one audited, complete briefing a day for whoever is due | `Heartbeat` |

A turn comes in through `api/turns.py`, passes `TurnServing`'s admission, is answered by a
provider, its claims are extracted and handed to `_finalize_turn` (`TurnPipeline`), which writes
claims through `ClaimService` and proposals through `ProposalService`. The frontend calls the
claim and proposal operations directly. The nightly jobs touch the same claims. Redis connects
overlapping turns (breaker) and the writes of one session (rebound). What a turn puts into its
prompt comes from `PromptAssembly` (context, workspace, recall), from `BehavioralRules` (triggered
rules) and from `Conversations` (history and episodes); the last also has what a turn leaves behind
in its chat. The heartbeat reads mail and calendar through the same tokens that requests refresh
and delete, so `Heartbeat` extends `GoogleAccount`; the nightly cleanup deletes graph rows and
reviews rules in one transaction, so `MemoryGraph` extends `BehavioralRules`.

## Modules

| Module | What it is | Extends |
|---|---|---|
| `VersionLog` | abstract: an append-only, gap-free, hash-chained log per claim | |
| `ClaimLifecycle` | sessions and nightly jobs on claims, one action per transaction | |
| `ClaimLifecycleProofs` | inductive invariant, safety theorems, refinement of `VersionLog` | `ClaimLifecycle` |
| `MemoryInbox` | abstract: who looked at a pending proposal may decide it, every claim answers to an approval of its own | |
| `ProposalReview` | desks that submit, approve, reject | |
| `WriteGates` | the decision functions of `ozy-core` in the form the turn uses them | |
| `TurnPipeline` | composition: turns, the inbox and an editing user on the same tables | `ProposalReview`, `WriteGates` |
| `TurnPipelineProofs` | safety theorems of the inbox and of the turn, refinement of `MemoryInbox` | `TurnPipeline` |
| `MemoryWrite` | `write_fact`: policy, lookup, supersede, insert, flood cap | |
| `MemoryWriteProofs` | both bounds for any number of writers and edits | `MemoryWrite` |
| `TurnServing` | breaker, kill switch, live web search, routing with fallback, token limits, extraction | |
| `TurnServingProofs` | routing and limits for any number of requests; prompts for any store, message and budget | `TurnServing`, `PromptAssembly` |
| `BehavioralRules` | desks that decide about rules, conflict detection, expiry | |
| `MemoryGraph` | entities, relations, snippets and the nightly transaction over them and the rules | `BehavioralRules` |
| `MemoryGraphProofs` | caps, agreement, decisions of the rules; foreign keys of the graph | `MemoryGraph` |
| `Conversations` | turns as their chat sees them, the index job, recall, deletions | |
| `ConversationsProofs` | order of a chat, prompts and index for any number of turns and runs | `Conversations` |
| `Workspaces` | projects, contacts and files over PostgreSQL and MinIO | |
| `WorkspacesProofs` | rows and contents, audit and edits for any number of requests and tables | `Workspaces` |
| `PromptAssembly` | one turn's prompt: selection under budgets, while rows are deleted | |
| `GoogleAccount` | OAuth, refresh, effects at Google, settings | |
| `Heartbeat` | the hourly run over the users next to the requests on account and settings | `GoogleAccount` |
| `HeartbeatProofs` | safety theorems of the account and of the briefings | `Heartbeat` |
| `MC...` | the constants of the instances TLC checks | one of the above |

### State and actions against the code

**ClaimLifecycle.** `claims[c]` is the row, `versions` the rows of `claim_versions`, `audit` the
entries written, `req[s]` what the coroutine of a request holds between two transactions (the
object as loaded, as assigned, the refreshed snapshot, the version number it read). `Start` is
the SELECT with the guards of an operation, `Commit` its UPDATE of the changed columns,
`Refresh`, `ReadLatest`, `InsertVersion` or `InsertFails` (the unique index) and `WriteAudit` the
rest of `_record_version` and the audit call. `JobRead`, `JobCommit`, `JobAudit` are a nightly job;
`JobAborts` is the `ValueError` of a lifecycle the contract enum does not know. `Crash` and
`JobCrash` end a process between two transactions. `updated_at` is the number of the
operation that wrote it, `confidence` the reductions left before the retraction threshold.

**ProposalReview.** `proposals`, `claims`, `versioned` (claims with a version), `audit`, and
`desk[s]` for the request a desk is waiting for. `Confirm`, `CreateClaim`, `RecordVersion`,
`AuditClaim`, `AuditApproval` are the five commits of `approve_proposal`; `Reject`,
`AuditRejection` the two of `reject_proposal`. `Open` is the SELECT with the check for a pending proposal. `MemoryInbox` sees the desks
between that check and their UPDATE as `open`, the committed approvals as `approved` and the claims made from a proposal as
`copies`: it allows what overlapping approvals do, and no more.

**TurnPipeline.** `turn[t].phase` is where `_finalize_turn` stands, `todo` the places of the claims
still to be gated, `at` the place of the one in hand. `Gates` is the gate block of the loop, which only reads; `InsertGroup`, `Propose`, `Create`
and the audit steps are its writes. A turn holds what it read (`locked`, `foreign`) while
others commit, and rows as it loaded them (`seen`): a query finds the rows that are current
now, but hands out the object the session already has (`View`, `Loaded`). An answer without text is not stored. `Edit` is
everybody else who changes a claim, reduced to the one transaction that does it: lock, unlock, confirm, retract, archive,
supersede, of any row in any state, since their checks were made on a row read earlier. `locked` remembers what was locked
when the turn began and has not been released (unlocked, retracted, superseded) since. `breaker` counts processed turns.
`Vanish` is a cancelled stream or a killed process.

**MemoryWrite.** `facts` are claims with lane, attribute and value, `rebound` the hash in Redis,
`writer[w]` a request with what it has read. One action per query, commit or Redis command.
`retract_claim`, `confirm_claim` with its UPDATE `Confirm`, and `create_claim` are what `ClaimService` does to the same rows: a
confirmation takes superseded claims too and writes without looking again (`confirming`), a direct creation asks neither
the policy nor for an older value. `unchecked` remembers the claims that became current in these two ways.
`Pause` is an idle gap, `Forget` the 24 h TTL of the hash.

**TurnServing.** `slot[s]` is the turn a slot handles, `breaker` the two Redis keys, `used` the token
tracker. `GetTripKey`, `GetCount`, `Trip`, `Increment`, `Expire` are single Redis commands. A provider
call is a phase (`search`, `chat`, `extract`) that ends by `AnswerSearch`, `AnswerChat`,
`AnswerExtraction` or `Fail`; choosing
the next provider has no await in it and therefore belongs to the step that needs it
(`Attempt`). A chain is the set of providers not tried yet; the next is the one with the least `place` in the
priority the router sorts by. `search` is the consent check and the choice between a model that can search and the
connector; `GiveUp` is what an exhausted chain or an authentication error leads to: the end of the
turn, but for a search the connector. `WindowEnds` and `CooldownEnds` are Redis expiry and external.

**BehavioralRules.** `rule[r]` is the row, `stored` its conflicts, `desk[d]` a request between its
SELECTs and commits: `Begin` reads the rule, `SelectActive` the active rules, `StoreConflicts` commits
what was detected (only once per rule), `Activate`, `Reject`, `Retire` write and `WriteAudit` logs.
`TtlEnds` is the end of an approval's thirty days. Triggers are sets of terms, the content of a rule
(domain, action, polarity, cost) a constant. `_load_triggered_rules` is what a turn would show.

**MemoryGraph.** Each table maps its rows to what has become of `expires_at`. `SelectEntity` and
`upsert_entity` are the two awaits of an upsert, `add_relation` and `add_snippet` single INSERTs.
`cleanup` is the nightly transaction: three deletions and the UPDATE of `BehavioralRules.cleanup_expired`,
enabled only if the foreign keys let the entities go, because otherwise everything is rolled back.

**Conversations.** `desk[d]` is a turn: recall, history, asking the model (phase `chat`), creating the
chat, then for question and answer `ReadSeq` and `append_message`, two awaits. `worker[w]` is a run
of the index job: `index_user` selects the batch and asks for vectors, `WriteEpisodes` commits it,
`EmbedFails` leaves it for the next run. Late workers get the task of a run that has not been
acknowledged. `recent_history` is the set of selections a turn may get: the newest
messages, up to the first that no longer fits; equal numbers come in any order. `asked` remembers what was asked so that
properties can tell what a text was about.

**Workspaces.** `row[e]` stands for a row of any of the tables, `objects` for MinIO. A request is
a sequence of phases, one per await; sessions keep what they have loaded, so a second SELECT tells
whether a row is there, not what it holds. `RemoveObject` is one call to MinIO, `StoreFails` its error,
`DeleteRow` a DELETE with its cascades, `CommitPatch` an UPDATE of the columns that differ from the
row as it was loaded. `Refresh` is the `session.refresh` that follows the commit of an insert or a change: if another
request has deleted the row, it raises and the request ends without its entry. `lost` is the sequence of the entries that stay
away, each with its reason: the desk that vanished or the row that was gone.

**PromptAssembly.** The SELECTs of a turn are actions, between which `delete_project` may
commit; the scoring, matching, excerpting and compaction in between are operators translated from
the functions of the same names. Texts have a length and a set of terms. Rows are known by their
position in their table, so a list of rows is a set, and a loop that takes what still fits is stated by its rule: a member
is selected exactly if it fits behind the selected ones before it. The loops that drop contacts, claims and projects
are one operator of the number of items dropped, of which the smallest that is enough counts.

**GoogleAccount** and **Heartbeat.** `google_tokens`, `user_settings` and `oauth_states` are the row, the
row and the Redis keys; `client[c]` a request between two awaits. `LoadCredentials` reads the token
row, `RefreshCredentials` asks Google and writes what it got (the access token, and the refresh token if there is one in the
answer) into whatever row is there by then, `CallGoogle` is the effect, whose answer may
be lost, `AuditEffect` its entry. `run[w]` is a heartbeat run: `run_all` reads the users, `NextUser`, `get_for_date`,
`GoogleSection`, `RefreshSection`, `LocalSections`, `create_for_user`, `AuditBriefing` follow for each. `broken`
is a session whose transaction failed and that nobody rolls back. `CreateDefaults` commits the first settings, `ReadDefaults`
reads them again before the PATCH goes on. `latest` and `connects` remember the tokens and the number of the last connect, and each
row carries the number of its connect, so that `overtaken` can tell the accounts over whose newer grant an older one was
written.

## Runs

Passing:

| Run | Instance | Shows |
|---|---|---|
| `Claims` | 1 claim that fades out, or has an end that may have come, or was created locked; 2 sessions, of which one may die, as may the decay job; both jobs, all six operations, 3 of them | `VersionChain`, `SnapshotsExisted`, `AuditedIsVersioned`, `ArchivedStaysArchived`, `JobsKeepUserDecisions`, and that `VersionLog` is implemented |
| `Inbox` | 2 desks of which one may die, 2 proposals, 4 requests, overlapping decisions included | `PendingHasNoClaim`, `AuditedApprovalHasClaim`, `ImplementsMemoryInbox`, `DecisionsComplete` (liveness) |
| `Turns` | 2 turns of which one may be cut off, the first with one of six mixed inputs (one of them answered without text), 1 edit of six kinds, a locked claim that is current or superseded, 1 desk with 1 request | `MemoryIsGated` (`NothingUnreviewed`, `FilteredStaysOut`, `LockedBeforeTurn`), `ProcessedIsComplete`, `TurnsGetAudited` (liveness) |
| `MemoryWrite` | 2 writers of which one may die, 4 writes, cap 1, 1 edit (a retraction, a confirmation or a direct creation) | `ValuesBounded` (`AtMostOnePerWriter`), `ReboundBound`, `ReplacedCompletes` (liveness) |
| `Serving` | 2 slots of which one may be cut off, 3 turns out of five kinds, one cloud and one local provider and one in the chain of searches that has no key, velocity and token limit 1 | `SpendingBounded` (`VelocityBound`, `CounterHasDeadline`, `DailyLimit`), `RoutingIsSound` (`ConsentedOnly`, `OneVoice`), `TurnsEnd` (liveness) |
| `Rules` | 3 rules of which two contradict each other and two share a domain, caps 1 and 2, 2 desks of which one may vanish; a graph of 2 names and 1 relation, 1 snippet, 2 clients; 3 requests in all | `MemoryIsSound` (`RuleCaps`, `NoContradictingAdvice`, `GraphTypeOK`), `DecisionsAudited`, `CleanupHappens` (liveness) |
| `Workspaces` | 1 project, 1 contact, 1 task, note and link each, 2 uploads, 2 columns, 2 desks of which one may vanish, 4 requests | `ContentMatchesRows` (foreign keys, `NoDangling`, `NoStrayObject`), `MutationsAudited`, `PatchesKept` |
| `Prompt` | every subset of 5 claims, 3 contacts and 2 workspaces with 4 files, 5 messages, local and cloud, one workspace that may be deleted | `BlockFits` (`ContextFits`, `RecallGivesWay`), `MentionedPeople` (`NamedPeopleSurvive`, `GuessesNobody`), `WithheldStaysOut`, `BudgetsWellUsed` (`KnowledgeIsMaximal`, `LanesKeepBudget`) |
| `Conversations` | 2 chats, 1 workspace, both may be deleted, 2 desks of which one may vanish, 1 worker that may die and 1 that comes late, 2 turns | `ChatsStayOrdered` (`NumberSharedByOverlap`, `AnswerAfterQuestion`), `PromptIsClean` (`CloudSeesLow`, `NoEcho`), `IndexIsUsable` (`LongIsSearchable`, `CopiesByOverlap`), `EverythingIndexed` (liveness) |
| `Account` | 1 user, 2 clients of which one may die, 4 requests of six kinds, 2 states, 2 grants | `AccountIsCurrent` (`AccountTypeOK`, `LatestConnectHolds`), `StateServesOnce`, `EffectsAudited` |
| `Heartbeat` | 2 users of which one is connected, a client that disconnects or changes the settings, 1 worker that may die and 1 that comes late, 2 hours | `BriefingsComplete` (`RestIsWritten`, `BriefingsAudited`), `ReadUsersAreBriefed` (liveness) |

In parentheses: the parts a combined invariant consists of, each stated and commented in its module.
Each also checks the type invariant of its module, which is a part of the first invariant of a run
or one of its own. The bounds are the smallest in which the
cases the properties are about occur: a race needs two requests on one row, a lost number needs
a third operation that reads the gap, an overshoot needs one turn before and two at the same
time, a stray object a second upload while the first is under way, a repeated index run a second worker.
A second claim adds nothing to `ClaimLifecycle`, since no operation relates two claims
(only the decay job writes several, in one transaction); the proofs hold for any number. Symmetry
is used for the sessions of `Claims` only, where no liveness is checked.
Every run says `CHECK_DEADLOCK FALSE`, because the bounded number of requests ends every
behaviour.

One run shows a disagreement between the code and what the sources say of it:

| Run | Property | What happens |
|---|---|---|
| `PrivateWorkspace` | `PrivateStaysLocal` | a workspace forces local routing, the message is harmless: the router sends both to the cloud |

### Fairness

Safety runs use `Spec`. The liveness properties assume weak fairness of the steps of each desk,
turn, writer, slot or runner: a coroutine whose query, Redis command or provider call has returned is
resumed by the event loop, and every provider client has a timeout. Of the jobs:

* `FairMemorySpec`: the nightly `cleanup` comes again (beat starts it every night, for users with claims);
* `Conversations!FairSpec`: the index job starts again every half hour (WF), and a run whose embedding model
  answers again and again writes at some point (SF of `WriteEpisodes`, since `EmbedFails` may come in between); a model
  that stays away for ever is not assumed to index anything;
* `Heartbeat!FairSpec`: a run that was started is worked off; that an hour begins, or that beat is in time, is not assumed.

Nothing is assumed of users, of the passage of time or of requests and workers that may die (`MayFail`,
`MayVanish`, `MayDie`): starting an operation is never fair, and what such a request had begun is not
promised to complete.

## Proofs

Eight modules of proofs hold for every value of the constants the named assumptions allow: any number of
sessions, turns, desks, slots, writers, users and workers, every input, every bound. Between them they state
all 33 invariants, action properties and refinements the runs check; liveness is left to TLC (see the
end of this section). Each proof follows one pattern: an inductive invariant that adds to
the property what the requests in flight know, a lemma for each action (or for what several actions have in
common), one temporal step. Every inductive invariant was model-checked before it was proved.

### Claims (`ClaimLifecycleProofs`, about 930 obligations)

| Theorem | States |
|---|---|
| `Typing` | `TypeOK` |
| `ChainIntact` | version numbers unique and gap-free, hashes chained |
| `SnapshotsReal` | every snapshot is a row the claim had |
| `ArchivedForGood` | no step brings an archived claim back |
| `AuditFollowsHistory` | never more audit entries than versions (`AuditedIsVersioned`) |
| `UserDecisionsKept` | no nightly job undoes a user's decision (`JobsKeepUserDecisions`) |
| `Refinement` | `Spec` implements `VersionLog` |

`VersionChain` alone is not inductive: it says nothing of a request that has read
the newest version and will insert the next one. `IInv` adds, for each request, what it holds in each of its
phases (`RequestInv`): the row it is about to write has the lifecycle it was loaded with unless it archives; its
snapshot is in `past`; in phase `insert` its number is 1, or follows a version whose hash it carries. For a job,
that the rows it loaded exist and keep their lifecycle (`JobInv`); that each current row is in `past`
(`RowsInv`); and, decisive, that below a used number every number is used (`HistoryInv`). The unique index does
the rest: a number that is still free when the INSERT comes is larger than all used ones (`FreeNumberIsNewest`),
so an INSERT extends the newest version whatever happened since it was read. From the same lemma the refinement
follows: an INSERT is `Append`, a write to `claims` is `Change`, everything else stutters. The audit theorem
counts: the entries written and those whose INSERT comes next are never more than the versions, since each of these
requests has inserted one (`AuditInv`). That jobs keep the
user's decisions follows from the columns an UPDATE carries (`FlushKeeps`). Assumptions are the three named ones
of `ClaimLifecycle` (bounds are naturals, fresh rows are rows and not archived, the null values differ from the
real ones); SHA-256 is modelled as an injective function.

### Inbox (`TurnPipelineProofs`, last two sections)

| Theorem | States |
|---|---|
| `InboxTyping` | `ReviewTypeOK` |
| `PendingIsUnremembered` | `PendingHasNoClaim` |
| `ApprovalsAreKept` | `AuditedApprovalHasClaim` |
| `DecisionsAreAnswered` | `ReviewSpec` implements `MemoryInbox` |
| `InboxIsKept` | `Spec` of `TurnPipeline` implements `MemoryInbox` |

Neither invariant says what a desk knows in the middle of an approval, so neither is
inductive. `ReviewInv` adds it (`DeskInv`): from `create` on the proposal is decided, from `version` on the
claim of this desk comes from its proposal, from `claim_audit` on that claim has a version. A second
desk may overwrite the decision, but no UPDATE writes "pending" again, no claim is removed and no
version lost (`TablesGrow`), so what one desk knows survives every step of the others (`ReviewOthers`); each
step then only answers for its own desk (`OneReview`).

The refinement holds with turns that fill the inbox and without, for any number of desks that decide the same proposal, overlap
and die. `MemoryInbox` does not promise that a proposal is decided once, which overlapping desks break (see below). What carries the
refinement is `Answered`: the claims made from a proposal and the desks that are about to store one are together never more than the
approvals, since each approval sends exactly one desk to phase `create`, and a desk that has approved reads the status before it
decides again, which is never pending any more. A step of a desk is then one step of the inbox or a stutter (`InboxDeskStep`), a step of a
turn a submission or a stutter (`InboxTurnStep`). Assumptions: the bounds are naturals; with turns, those of the next section.

### Turns (`TurnPipelineProofs`, about 2710 obligations with the inbox)

| Theorem | States |
|---|---|
| `NothingPassesTheGates` | `MemoryIsGated` (`NothingUnreviewed`, `FilteredStaysOut`, `LockedBeforeTurn`) |
| `ReportsAreTrue` | `ProcessedIsComplete` |

`TurnInv` says of each turn what its phase promises. `Reviewed`: what a turn is about to create is well formed, of
a trusted source and from a turn without taint, which the gates decided an await earlier. `Filtered`: what it
wrote passed the sensitivity filter, and so does all that is still in `todo`. `LocksRespected` is the hard one:
the gates compare with rows as the session loaded them, which may be older than the query; other turns and the user commit before
the INSERT; and yet the comparison is still true of every claim in `locked`. Whoever lifts a lock or ends a claim takes it off
`locked`; the others are locked and current throughout (`Held`), so each row of them that the session holds shows the lock
(`Faithful`), and no edit changes the subject, attribute or value that is compared (`Uncontradicted`). `Accounted` counts:
created, proposed, rejected, in hand and still to come make up the
claims that were allowed, so nothing is left when the loop ends. `Recorded` follows the messages: none up to the end of the loop, then
the question, then the answer if it has any text. Assumptions: the inputs are
turn inputs and the turns finite in number (the breaker counts them); the table holds claims that may be proposed
(`RowsAssumption`, closed under all six edits), of which nothing more is said.

### Lane writes (`MemoryWriteProofs`, about 1260 obligations)

| Theorem | States |
|---|---|
| `AttributesJamNoFurther` | `ValuesBounded`: never more current values of an attribute than writers, those aside that were created directly or confirmed after their end |
| `ReboundIsCapped` | `ReboundBound`: the cap, plus one for each overlap and each death |

Both are potential arguments: a request on its way counts. `OnePerWriter` adds the requests that will insert to the values
nobody is about to supersede; superseding moves a request from one side to the other, inserting trades it for a value. No
edit adds a value that came through the
lookup: what it makes current it puts into `unchecked` (`EditStep`). For the
flood cap `Granted` are requests that passed it and `Pending` those that have inserted and are not counted;
`ModeIsKept` says that the mode of the session outlasts the write that clears its age. `OncePerRequest` bounds the
rest. Assumptions: finitely many writers, and tables to start from that are single-valued where their lane is
(`TableAssumption`); nothing is assumed of what is created directly.

### Serving (`TurnServingProofs`, about 890 obligations)

| Theorem | States |
|---|---|
| `RoutingStaysSound` | `RoutingIsSound` (`ConsentedOnly`, `OneVoice`) |
| `SpendingIsCapped` | `SpendingBounded` (`VelocityBound`, `CounterHasDeadline`, `DailyLimit`) |

Routing needs what was decided before to hold over each fallback: `StaysHome` says that an enforced turn with a delicate message has
only local providers left, `ShownOnce` that what was streamed comes from the provider that is asked or the one
whose answer counts. The limits are potentials again: the count plus the turns that have passed the check and are not
counted (`Passed`), the tokens plus the calls to that provider (`Callers`), never exceed the limit and the slots.
Assumptions: `ServingAssumption` (the local model is registered, limits are positive, slots finite in number).

### Rules and graph (`MemoryGraphProofs`, about 870 obligations)

| Theorem | States |
|---|---|
| `RulesAndGraphAreSound` | `MemoryIsSound` (`RuleCaps`, `NoContradictingAdvice`, `GraphTypeOK` with its foreign keys) |
| `DecisionsLeaveAnEntry` | `DecisionsAudited` |

`OverlapsNoted` says that whatever became active since a request read the active rules overlapped with it, `Passed` that a request
about to activate found neither conflict nor full cap in what it read. `RuleCaps` is not inductive,
since a retirement shrinks the active set and may take the overlapping rule with it, which excused a surplus;
`CapsOfAllSubsets` states it for every set of active rules, which survives any removal. Assumptions: finite
rules and desks, positive caps, and edges between names.

### Conversations (`ConversationsProofs`, about 1870 obligations)

| Theorem | States |
|---|---|
| `ChatsKeepTheirOrder` | `ChatsStayOrdered` (`NumberSharedByOverlap`, `AnswerAfterQuestion`) |
| `PromptsAreClean` | `PromptIsClean` (`CloudSeesLow`, `NoEcho`) |
| `IndexStaysUsable` | `IndexIsUsable` (`LongIsSearchable`, `CopiesByOverlap`) |

Messages disappear with their chat while their copies in batches and episodes stay, so the invariant speaks of *lines*, what those
rows have in common. Each line is labelled as its turn was asked (`Labelled`), a turn writes one line in each role (`OneLine`), and
what a desk has still to write is nowhere yet (`Fresh`). For the numbers, whatever was appended since a desk read the maximum
is of a turn that held the next number as well (`Overlapped`). For the index, the episodes of a message and the runs that
hold it are together never more than
the runners, and two of them make it `shared` (`Indexed`). The maximum of a set is proved to
be one (`MaxIsLargest`) from the well-foundedness of the naturals. Assumptions: `ConversationAssumption` (inputs are turn
inputs, limits are naturals,
runners finite in number).

### Account and briefings (`HeartbeatProofs`, about 1560 obligations)

| Theorem | States |
|---|---|
| `ConnectionIsCurrent` | `AccountIsCurrent` (`LatestConnectHolds`, no masked keys) |
| `StatesServeOnce` | `StateServesOnce` |
| `EffectsAreAudited` | `EffectsAudited` |
| `BriefingsAreComplete` | `BriefingsComplete` (`RestIsWritten`, `BriefingsAudited`) |

The first three are theorems of the account alone. `LatestConnectHolds` needs to know what a request holds that waits for Google
(`Held`): its row is of this connect or of an older one; if it is of this one, and the account not overtaken, it has the
connect's refresh token. A connect makes every row read before it older (`ConnectIsCurrent`), a refresh of an older row marks the
account as overtaken when it is written, and what is read is always of the connect that is stored (`ReadIsHeld`); so no step of the tables
takes this away from the others (`TablesGoOn`). A state that is exchanged is dead (`DeadStates`): only
callbacks that hold it already can bring it to an exchange, and of those two have overlapped (`HoldersOverlap`). For the
audit trail, effects without an entry
are those a request is about to enter (`BeingAudited`) or that are excused. `HeartInv` carries this over to the steps of the
heartbeat, which refreshes tokens of the same table (`RowHeld`), and adds that a session which is not broken has read the user's own data when
the briefing is saved (`RunKnows`). Assumptions: `GoogleAssumption`, `HeartbeatAssumption`, and that absent values are no values of the columns
(`MarkerAssumption`).

### Workspaces (`WorkspacesProofs`, about 2700 obligations)

| Theorem | States |
|---|---|
| `ContentsFollowRows` | `ContentMatchesRows` (foreign keys, `NoDangling`, `NoStrayObject`) |
| `MutationsGetEntries` | `MutationsAudited` |
| `EditsSurvive` | `PatchesKept` |

`NoDangling` forgives a missing object while a request holds its key in `removed`, and `NoStrayObject` an unnamed one while it is
some upload's `key`; what a request may do with either is not in them. `WorkspacesInv` adds it for each kind of request. An upload
knows that nobody else has its key and that from the PUT on its content is there (`UploadKnows`). A deletion of a project has
listed every file but those that came later, which are `excused` (`ProjectKnows`); so the cascade orphans only objects that
somebody answers for. A request on an avatar knows that the row has still the avatar it loaded or none, or one that is
`excused` because it was overtaken (`AvatarKnows`). Keys are what makes this local: what a key stands for is decided once
(`TablesKnow`), and no two requests hold the same new key or remove each other's (`KeysApart`). The audit count is an equation, so
each step has to move a request into or out of `Owing`, the phases `refresh` and `audit`, exactly when it commits, and an entry
is lost only by a desk that may vanish or for a row that is gone, which no step brings back (`RowsStay`, `RefreshKnows`).
`PatchesKept` needs no more than that the
UPDATE writes only columns that differ from the row as it was seen. Assumptions: the tables' identifiers are disjoint
(`TablesAssumption`), the absent value is no value, columns have values, desks finite in number (`WorkspacesAssumption`).

### Prompts (`TurnServingProofs`, second half, about 2010 obligations)

| Theorem | States |
|---|---|
| `PromptFits` | `BlockFits` (`ContextFits`, `RecallGivesWay`) |
| `OnlyPeopleMeant` | `MentionedPeople` (`NamedPeopleSurvive`, `GuessesNobody`) |
| `PrivateRowsStayLocal` | `WithheldStaysOut` |
| `BudgetsNotWasted` | `BudgetsWellUsed` (`KnowledgeIsMaximal`, `LanesKeepBudget`) |
| `SelectionsAreDefined` | each selection exists and is unique; chunking loses and repeats no paragraph |

The selections are loops over data, and induction over data is out of reach; what a loop does is stated by its rule and proved
from the order it runs in. `InLine` says that an order puts a set in line: relevance as a fraction compared crosswise
(`ChunksInLine`, which needs that no two chunks of a file start at one paragraph), scores (`ScoresInLine`), confidence (`ConfidenceInLine`). A
finite set in line has a last member, because one of its members has most of them before it (`LastInLine`). So a loop that takes
what fits keeps its budget, as the last one taken fitted behind all the others (`TakingKeepsBudget`), and one left out
does not fit next to the whole selection, which is no shorter than what was ahead of it (`FewerLines`). For the identity
floor, which stops at the first claim that does not fit, the first one left out is the witness (`TheFloor`). That the rule has
a solution, and one only, is proved without induction (`OneSelection`): of the initial parts of the line that have a selection take
a largest; were it not everything, the next member could be added. From the same lemma chunks are defined, and every
paragraph lies in exactly one (`EveryParagraphOnce`).

`PromptInv` adds to the four properties that nothing is kept between two turns, that excerpts are chosen for the workspace and the message of
the turn, and that S3 and S4 rows are not among those read for a provider elsewhere (`TurnInOrder`); compaction only takes away
from those (`FittedFits`). Assumption: `PromptAssumption` (tables are sequences of their rows, limits are naturals, the
words that occur finite in number).

### Only model-checked

| What | Why |
|---|---|
| `DecisionsComplete`, `TurnsGetAudited`, `ReplacedCompletes`, `TurnsEnd`, `CleanupHappens`, `EverythingIndexed`, `ReadUsersAreBriefed` | liveness under fairness and ENABLED are out of the prover's reach |

No module uses RECURSIVE operators.

## Known divergences described here only

Seen in the models or while writing them, and not given a run of their own. Where a passing
property would be contradicted, it names the exception (`overlapped`, `excused`, `lost`, `crossed`, ...).

Claims, inbox, turns:

* Confirm reads, retract commits, confirm commits: the claim the user took back is confirmed
  (`claim_service.py:185`; `OZY_WRITE_GATES.md:218` to 223 knows no way back).
* Two operations compute the same version number; the loser's change stays without a version
  (`claim_service.py:380`; `OZY_DB_GUIDE.md:138`).
* Archive, lock, unlock: the claim is decay-eligible with a lifecycle the contract does not know, and the decay run stops with a
  `ValueError` (`decay_service.py:126`), for all users whose turn would come later (`job_targets.py:5`).
* Approve and reject overlap: the proposal is rejected, and the claim exists (`proposal_service.py:125`;
  `OZY_WRITE_GATES.md:159`). Two overlapping approvals create two claims (`proposal_service.py:82`); `MemoryInbox` allows
  both, one claim for each approval.
* A lock committed after a turn's session loaded the row is not seen by the turn, whose later queries return the object it holds
  (`turn_service.py:447`); neither is any other edit of a row it holds.
* An answer without text is reported as processed with the question alone in the conversation (`turn_service.py:589`).
* A crash after the status was committed leaves a confirmed proposal without a claim, which cannot
  be approved again (`proposal_service.py:88`).
* An approved claim stays `tentative` (`proposal_service.py:91`; `OZY_WRITE_GATES.md:220` says confirmed).
* Gate G3 answers `TemporalSuccession`, and the turn creates the new claim without superseding the old
  one (`turn_service.py:543`; `OZY_WRITE_GATES.md:117`).
* `run_decay` writes no versions (`decay_service.py:64`; `OZY_DB_GUIDE.md:138`), and a lock that is
  committed after the job's read does not stop that night's reduction (`OZY_MEMORY_SYSTEM.md:148`).
* `sensitivity` and `handling_policy` are written only where they changed, so overlapping changes can leave
  S4 with `cloud_ok_encrypted` (`claim_service.py:286`).
* A locked claim can be contradicted by a proposal that was made before the lock, or by `write_fact`
  (`OZY_WRITE_GATES.md:130` speaks of every write).
* A claim that raises ends the turn, and later claims are not looked at (`turn_service.py:447`;
  `TURN_PIPELINE.md:379` promises the opposite). A conflict group that names the id of a turn violates
  a foreign key and has this effect (`turn_service.py:512`).
* Two lane writes insert two current values (`memory_write_service.py:155`; `memory/conflicts.py:3`
  knows one), and every later write of the attribute fails. Confirming a superseded claim (`claim_service.py:185`) and
  creating one directly (POST /claims) have the same result, without any overlap.
* The rebound hash lives 24 h, so the longest gaps are forgotten (`memory_write_service.py:34`).
* The branch of `write_fact` in which the incoming value loses cannot be reached: single-valued lanes admit
  observations only, and those rank highest.
* The kill switch stops new turns, not those in flight (`turn_service.py:225`; `TURN_PIPELINE.md:71`), and
  switching it off leaves the forced trip until its cooldown ends.
* A preferred local provider that fails is followed by the cloud chain, with the context and history that
  were assembled for a local one (`turn_service.py:743`): `PrivateStaysLocal` fails for such turns too.
* A search is routed as S1 over the whole chain (`live_web_service.py:107`): with the consent for live web, and
  without that for a cloud answer, an S3 message goes to any provider that has a key, also to one that cannot search.
* A process that dies between INCR and EXPIRE leaves a counter that never expires; from the limit on the
  user is tripped again after each cooldown (`circuit_breaker_service.py:99`). Turns that fail are not counted.

Rules and graph:

* `previous_rule_id` is never set, so the branch that retires a predecessor is never taken. Conflicts that were stored
  are returned again (`behavioral_rule_service.py:283`): a rule whose hard conflict is gone can never be approved.
* Users without claims are not among the nightly job's users; their approvals never end (`job_targets.py`).
* Two upserts of one new name: the unique key answers the second with a 500. An edge that has expired refuses its
  renewal until the nightly job has deleted it.
* The restore of an export (`restore_entities`) has no caller; it would fail as a whole on one edge that still
  exists. The export itself reads entities before relations, so an edge added in between has nameless ends.

Conversations:

* Of two messages with one number the later is never indexed once the first is (`episode_index_service.py:107`).
* Episodes have no foreign key and can be recalled after their chat was deleted.
* An answer is stored with the sensitivity of its question, although the context a local model saw may be S3 or S4; it
  counts as cloud-safe history later.
* A workspace deleted while the first turn of a chat runs makes that turn fail at a foreign key after the model has answered.

Prompt:

* Active projects are listed in the overview whatever their sensitivity; relations and rules are recalled unfiltered.
* Private contacts are taken out before first names are compared (`contact_match.py:47`): of two Lisas, one private, the
  other is identified by the bare name when the provider is in the cloud.
* Claims are cut to a number before they are put in order of priority; the report says that contact details were shown
  also when the block fell back to its empty form.
* A turn outside any workspace ends with 404 if one of the projects it lists is deleted between two SELECTs.

Workspaces, account, briefing:

* Overlapping avatar uploads, and uploads that fail after MinIO had the object, leave objects no row names
  (`api/contacts.py:239`, `api/files.py:40`); a deletion cut in half leaves rows without content.
* A change of a project, contact or one of their items that is committed and whose row another request deletes before `session.refresh`
  (`project_service.py:62`, 74, 121, 133, 164, 187, 236; `contact_service.py:101`, 122, 145, 158) ends in a 500 without an audit entry.
* A PATCH with the value that was read is dropped although the row has changed since (`contact_service.py:112`).
* A refresh that waits for Google while the account is connected anew writes its access token, and a refresh token if the answer has one, over
  the newer grant (`google_oauth.py:143` to 151).
* A disconnect during the refresh of a token breaks the session the briefing is written in: no briefing for this and
  all remaining users of that run. The loser of two runs that insert the same briefing ends the same way.
* `SENSITIVITY_ROUTING.md:24` keeps S4 out of the briefing; `_memory_section` has no such filter.
* `OZY_CELERY_TASKS.md:159` has an empty string as the result for a briefing that exists; the code returns its id.
* A crash between a briefing and its audit entry is never repaired; a user without a settings row gets no briefing although
  the default is enabled; a run that is delayed beyond its hour skips that hour's users.

## Not modelled

* *Provenance and export* (`memory_provenance_service.py`): only reads.
* *Statistics, usage reports, prices, chat starters*: read-only aggregation; usage rows are inserted after a turn and read
  by nothing a model is about.
* *External services*: provider clients, speech. They appear as calls that answer or fail.
* *Classification of sensitivity*: its outcome is an input of `TurnServing`, `TurnPipeline` and `Conversations`.
* *Wording*: system prompt, rendering of blocks and sections, extraction of text from attachments, file names and types.
* *Audit validator and contracts*: the form of one entry, types, timestamps.
* *Bindings and `ozy_bindings_fallback`*: marshalling, and a development stand-in that accepts everything. The modules model the
  compiled `ozy-core`.
* *The broker*: Celery's queue is a number of due runs; late acknowledgement is modelled where it matters
  (`Conversations`, `Heartbeat`).
* *Frontend*: issues API calls; every order of them is allowed in the models.

## Plan

Done: `ClaimLifecycle` with its abstraction, `ProposalReview` and `MemoryInbox`, `WriteGates` and `TurnPipeline`,
`MemoryWrite`, `TurnServing`, `BehavioralRules` and `MemoryGraph`, `Conversations`, `GoogleAccount` and `Heartbeat`,
`Workspaces` and `PromptAssembly`, all with proofs of their safety properties.

Next, in this order:

1. `ClaimLifecycle` and `MemoryWrite` on one table, with the versions of the claims that `write_fact` supersedes and inserts.
