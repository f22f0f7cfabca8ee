------------------------------ MODULE Heartbeat ------------------------------
(***************************************************************************)
(* The daily briefing.  At every hour Celery beat queues one run of        *)
(* ozy.heartbeat.run_all; a worker that takes it reads which users want    *)
(* their briefing at the hour it is by now, and writes one after the       *)
(* other, each in a database session of its own.  Meanwhile the user       *)
(* changes the settings and connects or disconnects the Google account     *)
(* (GoogleAccount), which the calendar and the mail section go through.    *)
(***************************************************************************)
EXTENDS GoogleAccount

CONSTANTS
    Workers,       \* Celery workers
    LateWorkers,   \* workers that get the task of an unfinished run again
    MaxRedeliveries,  \* bound: runs of the late workers
    MaxClock,      \* bound: hours
    Facts          \* users with proposals, claims or tasks to tell of

Runners == Workers \union LateWorkers

ASSUME HeartbeatAssumption ==
    /\ {MaxRedeliveries, MaxClock} \subseteq Nat /\ Facts \subseteq Users
    /\ Workers \intersect LateWorkers = {}

VARIABLES
    clock,        \* hours since the start
    queued,       \* runs in the queue
    redelivered,  \* number of runs of the late workers
    briefings,    \* briefings
    run,          \* run[w]: the run worked on by w
    lost          \* history: why runs ended before their last user

heartVars == <<clock, queued, redelivered, briefings, run, lost>>
vars == <<accountVars, heartVars>>

Hour == clock % Hours

Today == clock \div Hours
Dates == 0..(MaxClock \div Hours)

\* local: it tells of proposals, claims or tasks.  What the Google sections tell is
\* left out.
Briefing == [user : Users, date : Dates, local : BOOLEAN]

\* rest: the users still to be briefed; row: the tokens a section has read; broken:
\* the session's transaction has failed, so that every later statement in it fails.
IdleRun == [phase |-> "idle", rest |-> {}, date |-> 0, user |-> None, row |-> None,
            local |-> FALSE, broken |-> FALSE]

Init ==
    /\ AccountInit
    /\ clock = 0 /\ queued = 1 /\ redelivered = 0 /\ briefings = {} /\ lost = {}
    /\ run = [w \in Runners |-> IdleRun]

Phase(w, phase) == run[w].phase = phase
Step(w, rec) == run' = [run EXCEPT ![w] = rec]
Entry(w) == <<"briefing", run[w].user, run[w].date>>

\* The next hour begins; minute 5 queues the next run.
Beat ==
    /\ clock < MaxClock
    /\ clock' = clock + 1 /\ queued' = queued + 1
    /\ UNCHANGED <<accountVars, redelivered, briefings, run, lost>>

\* A user without a settings row wants none.
user_ids_wanting_a_briefing ==
    {u \in Users : /\ user_settings[u] # None /\ user_settings[u].briefing_enabled
                   /\ user_settings[u].briefing_hour = Hour}

\* A late worker gets the task of a run that has not finished (task_acks_late).
run_all(w) ==
    /\ Phase(w, "idle")
    /\ IF w \in Workers THEN queued > 0 /\ queued' = queued - 1 /\ UNCHANGED redelivered
       ELSE /\ redelivered < MaxRedeliveries /\ redelivered' = redelivered + 1
            /\ \E v \in Workers : ~Phase(v, "idle")
            /\ UNCHANGED queued
    /\ Step(w, [IdleRun EXCEPT !.phase = "next", !.rest = user_ids_wanting_a_briefing,
                               !.date = Today])
    /\ UNCHANGED <<accountVars, clock, briefings, lost>>

Exists(w) == \E b \in briefings : b.user = run[w].user /\ b.date = run[w].date

\* The next user, in the order the database gives them, or the end.
NextUser(w) ==
    /\ Phase(w, "next")
    /\ IF run[w].rest = {} THEN Step(w, IdleRun)
       ELSE \E u \in run[w].rest :
               Step(w, [run[w] EXCEPT !.phase = "check", !.user = u, !.rest = @ \ {u},
                                      !.local = FALSE, !.broken = FALSE])
    /\ UNCHANGED <<accountVars, clock, queued, redelivered, briefings, lost>>

\* Mutant: a briefing that is already there stops the run as well.
StopsAtExisting(w) ==
    /\ Phase(w, "check")
    /\ Step(w, IF Exists(w) THEN IdleRun ELSE [run[w] EXCEPT !.phase = "calendar"])
    /\ UNCHANGED <<accountVars, clock, queued, redelivered, briefings, lost>>

get_for_date(w) ==
    /\ Phase(w, "check")
    /\ Step(w, [run[w] EXCEPT !.phase = IF Exists(w) THEN "next" ELSE "calendar"])
    /\ UNCHANGED <<accountVars, clock, queued, redelivered, briefings, lost>>

AfterSection(phase) == IF phase \in {"calendar", "calendar_refresh"} THEN "mail" ELSE "local"
RefreshOf(phase) == IF phase = "calendar" THEN "calendar_refresh" ELSE "mail_refresh"

\* The section is done: Google has answered, or not, or was not asked.
SectionEnds(w, broken) ==
    Step(w, [run[w] EXCEPT !.phase = AfterSection(@), !.row = None, !.broken = broken])

\* _calendar_section and _mail_section: the tokens are read, and refreshed if they
\* have expired.  No account and a broken session both cost the section.
GoogleSection(w) ==
    LET row == google_tokens[run[w].user]
    IN /\ run[w].phase \in {"calendar", "mail"}
       /\ IF ~run[w].broken /\ Stale(row)
          THEN Step(w, [run[w] EXCEPT !.phase = RefreshOf(@), !.row = row])
          ELSE SectionEnds(w, run[w].broken)
       /\ UNCHANGED <<accountVars, clock, queued, redelivered, briefings, lost>>

\* The refreshed tokens are written; without their row the commit fails, the
\* section is dropped, and nobody rolls the session back.
RefreshSection(w) ==
    /\ run[w].phase \in {"calendar_refresh", "mail_refresh"}
    /\ \/ /\ Refreshed(run[w].user, run[w].row)
          /\ SectionEnds(w, google_tokens[run[w].user] = None)
       \/ SectionEnds(w, FALSE) /\ UNCHANGED <<google_tokens, overtaken>>   \* Google refuses
    /\ UNCHANGED <<latest, connects, user_settings, OAuth, client, requests, Log,
                   clock, queued, redelivered, briefings, lost>>

\* Mutant: one try around all sections.
LocalSectionsAfterGoogle(w) ==
    /\ Phase(w, "local")
    /\ Step(w, [run[w] EXCEPT !.phase = "save",
                    !.local = run[w].user \in Facts /\ google_tokens[run[w].user] # None])
    /\ UNCHANGED <<accountVars, clock, queued, redelivered, briefings, lost>>

\* _proposal_section, _memory_section, _task_section.
LocalSections(w) ==
    /\ Phase(w, "local")
    /\ Step(w, [run[w] EXCEPT !.phase = "save",
                               !.local = run[w].user \in Facts /\ ~run[w].broken])
    /\ UNCHANGED <<accountVars, clock, queued, redelivered, briefings, lost>>

\* The users a run has left are briefed or still ahead of another run.
Covered(w) ==
    \A u \in run[w].rest :
        \/ \E b \in briefings : b.user = u /\ b.date = run[w].date
        \/ \E v \in Runners \ {w} : run[v].date = run[w].date /\ u \in run[v].rest \union {run[v].user}

\* create_for_user: the INSERT.  A broken session refuses it, and so does the
\* unique key if another run was faster; either ends the run for all users left.
create_for_user(w) ==
    /\ Phase(w, "save")
    /\ IF run[w].broken \/ Exists(w)
       THEN /\ Step(w, IdleRun)
            /\ lost' = lost \union {IF run[w].broken THEN "source"
                                   ELSE IF Covered(w) THEN "beaten" ELSE "outrun"}
            /\ UNCHANGED <<briefings, Log>>
       ELSE /\ briefings' = briefings \union {[user |-> run[w].user, date |-> run[w].date,
                                               local |-> run[w].local]}
            /\ effects' = effects \union {Entry(w)}
            /\ Step(w, [run[w] EXCEPT !.phase = "audit"])
            /\ UNCHANGED <<lost, audits, excused>>
    /\ UNCHANGED <<Tokens, user_settings, OAuth, client, requests, clock, queued, redelivered>>

AuditBriefing(w) ==
    /\ Phase(w, "audit")
    /\ audits' = audits \union {Entry(w)}
    /\ Step(w, [run[w] EXCEPT !.phase = "next"])
    /\ UNCHANGED <<Tokens, user_settings, OAuth, client, requests, effects, excused,
                   clock, queued, redelivered, briefings, lost>>

WorkerDies(w) ==
    /\ w \in MayDie /\ ~Phase(w, "idle")
    /\ Step(w, IdleRun)
    /\ lost' = lost \union {"died"}
    /\ excused' = excused \union {e \in effects : e = Entry(w)}
    /\ UNCHANGED <<Tokens, user_settings, OAuth, client, requests, effects, audits,
                   clock, queued, redelivered, briefings>>

-----------------------------------------------------------------------------

Work(w) == NextUser(w) \/ get_for_date(w) \/ GoogleSection(w) \/ RefreshSection(w)
           \/ LocalSections(w) \/ create_for_user(w) \/ AuditBriefing(w)

Next ==
    \/ AccountNext /\ UNCHANGED heartVars
    \/ Beat
    \/ \E w \in Runners : run_all(w) \/ Work(w) \/ WorkerDies(w)

Spec == Init /\ [][Next]_vars

\* A worker that has taken a run goes on with it until it ends or dies.
FairSpec == Spec /\ \A w \in Runners : WF_vars(Work(w))

-----------------------------------------------------------------------------
(* Properties                                                              *)

TypeOK ==
    /\ AccountTypeOK
    /\ clock \in 0..MaxClock /\ queued \in 0..(MaxClock + 1)
    /\ briefings \subseteq Briefing
    /\ lost \subseteq {"source", "beaten", "outrun", "died"}
    /\ \A w \in Runners :
          /\ DOMAIN run[w] = DOMAIN IdleRun /\ run[w].rest \subseteq Users
          /\ run[w].phase \in {"idle", "next", "check", "calendar", "calendar_refresh", "mail",
                               "mail_refresh", "local", "save", "audit"}

\* A briefing without an audit entry is of a run that is about to write it or has
\* died since: the next run finds the briefing and writes no entry for it
\* (create_for_user).
BriefingsAudited ==
    /\ audits \subseteq effects
    /\ effects \subseteq audits \union excused \union BeingAudited
                         \union {Entry(w) : w \in {v \in Runners : Phase(v, "audit")}}

\* A briefing that is written tells what the user's own data has to tell, whatever
\* became of the Google sections ("the affected section disappears and the rest
\* of the briefing is still written").
RestIsWritten == \A b \in briefings : b.local <=> b.user \in Facts

\* Every user a run has read gets a briefing for that day.  When two runs overlap
\* and the unique key ends one of them, the other one briefs the users left, unless
\* it began before they wanted a briefing.  Otherwise only a run that dies, or a
\* source that breaks the session it is read in, costs somebody a briefing.
ReadUsersAreBriefed ==
    \A u \in Users, d \in Dates, w \in Runners :
        (run[w].date = d /\ (u \in run[w].rest \/ run[w].user = u)) ~>
            \/ \E b \in briefings : b.user = u /\ b.date = d
            \/ lost \intersect {"died", "source", "outrun"} # {}

\* A briefing tells everything it can, and that it was written is on record.
BriefingsComplete == TypeOK /\ RestIsWritten /\ BriefingsAudited
=============================================================================
