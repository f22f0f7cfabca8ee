---------------------------- MODULE GoogleAccount ----------------------------
(***************************************************************************)
(* The Google account and the settings of a user, and the requests that    *)
(* work on them: connecting through OAuth, disconnecting, sending mail or  *)
(* changing the calendar, changing settings.  A request stops at every     *)
(* await: at Redis, at Google, at every commit.  Nothing is locked.        *)
(*                                                                         *)
(* Google itself is external: it answers, refuses, or does what it was     *)
(* asked and the answer is lost.                                           *)
(***************************************************************************)
EXTENDS Integers, Sequences, FiniteSets

CONSTANTS
    Users,
    Connected,    \* users whose account is connected at the start
    Clients,      \* concurrent API requests
    Requests,     \* what is asked for; see Request
    States,       \* OAuth states, each issued at most once
    MaxRequests,  \* bound: requests
    MaxGrants,    \* bound: codes exchanged for tokens
    Hours,        \* hours of a day
    Keys,         \* provider keys a user may store
    MayDie,       \* clients and workers that may die at any await
    None, Gone, Masked, Empty

Modes == {"guardian", "work"}

\* The columns that other parts of this model read, and one of the keys.
UserSettings == [mode : Modes, briefing_enabled : BOOLEAN, briefing_hour : 0..(Hours - 1),
                 api_key : Keys \union {None}]
Defaults == [mode |-> "guardian", briefing_enabled |-> TRUE, briefing_hour |-> 0, api_key |-> None]

\* The fields that a PATCH names, each with its new value.
UpdateSettingsRequest(patch) ==
    /\ DOMAIN patch \subseteq DOMAIN Defaults
    /\ "mode" \in DOMAIN patch => patch.mode \in Modes \union {None}
    /\ "briefing_enabled" \in DOMAIN patch => patch.briefing_enabled \in BOOLEAN \union {None}
    /\ "briefing_hour" \in DOMAIN patch => patch.briefing_hour \in 0..(Hours - 1) \union {None}
    /\ "api_key" \in DOMAIN patch => patch.api_key \in Keys \union {None, Masked, Empty}

\* call: send a mail, create or delete an event.  patch is of use to settings only.
Request(op, user, patch) == [op |-> op, user |-> user, patch |-> patch]
NoPatch == [f \in {} |-> None]

ASSUME GoogleAssumption ==
    /\ {MaxRequests, MaxGrants, Hours} \subseteq Nat \ {0}
    /\ \A r \in Requests : /\ r.op \in {"url", "callback", "disconnect", "call", "settings"}
                           /\ r.user \in Users /\ UpdateSettingsRequest(r.patch)
    /\ {None, Masked, Empty} \intersect Keys = {} /\ None \notin Users
    /\ Connected \subseteq Users

VARIABLES
    google_tokens,  \* google_tokens[u]: the row of u, or None
    latest,         \* history: the tokens of the last connect, Gone after a disconnect
    connects,       \* history: connects so far
    overtaken,      \* history: users with a refresh, written since the last connect, that
                    \* had read the row before it
    user_settings,  \* user_settings[u]: the row of u, or None
    oauth_states,   \* Redis: the live states, each with its user
    issued,         \* history: states issued so far
    overlapped,     \* history: states that two callbacks held at the same time
    grants,         \* history: the state each exchanged code came with
    client,         \* client[c]: the request handled there
    requests,       \* number of requests so far
    effects,        \* history: what was done outside, to a mode, or as a briefing
    audits,         \* audit entries
    excused         \* history: effects whose process died or did not learn of them

Tokens == <<google_tokens, latest, connects, overtaken>>
OAuth == <<oauth_states, issued, overlapped, grants>>
Log == <<effects, audits, excused>>
accountVars == <<Tokens, user_settings, OAuth, client, requests, Log>>

\* A token is known by the grant it comes from, 0 for one from before the start;
\* Google may have sent no refresh token.  connect, a history field, tells which
\* connect the row is of.
GoogleToken == [access : 0..MaxGrants, refresh : 0..MaxGrants \union {None}, expired : BOOLEAN,
                connect : Nat]
Connect == [access : 0..MaxGrants, refresh : 0..MaxGrants \union {None}]

\* What is not there is no value of the column, and what the API masks is neither.
ASSUME MarkerAssumption ==
    /\ None \notin GoogleToken /\ None \notin UserSettings
    /\ Gone \notin Connect
    /\ Empty \notin Modes /\ Empty \notin BOOLEAN /\ Empty \notin 0..(Hours - 1)

\* row: what the request has read.
IdleClient == [phase |-> "idle", id |-> 0, user |-> None, patch |-> NoPatch, state |-> None,
               grant |-> 0, row |-> None]

AccountInit ==
    /\ google_tokens = [u \in Users |-> IF u \in Connected
                            THEN [access |-> 0, refresh |-> 0, expired |-> FALSE, connect |-> 0]
                            ELSE None]
    /\ latest = [u \in Users |-> IF u \in Connected THEN [access |-> 0, refresh |-> 0] ELSE Gone]
    /\ connects = [u \in Users |-> 0] /\ overtaken = {}
    /\ user_settings \in [Users -> {None, Defaults}]
    /\ oauth_states = [s \in {} |-> None]
    /\ issued = {} /\ overlapped = {} /\ grants = << >>
    /\ client = [c \in Clients |-> IdleClient] /\ requests = 0
    /\ effects = {} /\ audits = {} /\ excused = {}

In(c, phase) == client[c].phase = phase
Go(c, phase) == client' = [client EXCEPT ![c].phase = phase]
Read(c, phase, row) == client' = [client EXCEPT ![c].phase = phase, ![c].row = row]
End(c) == client' = [client EXCEPT ![c] = IdleClient]
Effect(c) == <<"request", client[c].id>>

\* A new request of user u that starts in the given phase.
Accept(c, phase, u, patch, s) ==
    /\ In(c, "idle") /\ requests < MaxRequests
    /\ requests' = requests + 1
    /\ client' = [client EXCEPT ![c] = [IdleClient EXCEPT !.phase = phase, !.id = requests + 1,
                      !.user = u, !.patch = patch, !.state = s]]

-----------------------------------------------------------------------------
(* Connecting and disconnecting                                            *)

google_auth_url(u) ==
    /\ \E r \in Requests : r.op = "url" /\ r.user = u
    /\ \E s \in States \ issued :
          /\ oauth_states' = [x \in DOMAIN oauth_states \union {s} |->
                                 IF x = s THEN u ELSE oauth_states[x]]
          /\ issued' = issued \union {s}
    /\ UNCHANGED <<Tokens, user_settings, overlapped, grants, client, requests, Log>>

Forgotten(s) == [x \in DOMAIN oauth_states \ {s} |-> oauth_states[x]]

\* STATE_TTL_SECONDS are over.
StateExpires(s) ==
    /\ s \in DOMAIN oauth_states
    /\ oauth_states' = Forgotten(s)
    /\ UNCHANGED <<Tokens, user_settings, issued, overlapped, grants, client, requests, Log>>

\* GET of the state; an unknown one is refused.
google_callback(c, s) ==
    /\ s \in DOMAIN oauth_states /\ Accept(c, "forget", oauth_states[s], NoPatch, s)
    /\ overlapped' = overlapped \union {t \in {s} : \E d \in Clients :
                                            In(d, "forget") /\ client[d].state = t}
    /\ UNCHANGED <<Tokens, user_settings, oauth_states, issued, grants, Log>>

\* Mutant: the state is left to its deadline.
LeaveState(c) ==
    /\ In(c, "forget")
    /\ Go(c, "exchange")
    /\ UNCHANGED <<Tokens, user_settings, OAuth, requests, Log>>

\* DELETE of the state, before the code is used.
ForgetState(c) ==
    /\ In(c, "forget")
    /\ oauth_states' = Forgotten(client[c].state)
    /\ Go(c, "exchange")
    /\ UNCHANGED <<Tokens, user_settings, issued, overlapped, grants, requests, Log>>

\* fetch_token, _extract_email, _enforce_owner.  Google and the owner check may
\* refuse, which ends the request.
Exchange(c) ==
    /\ In(c, "exchange")
    /\ \/ /\ Len(grants) < MaxGrants
          /\ grants' = Append(grants, client[c].state)
          /\ client' = [client EXCEPT ![c].phase = "select", ![c].grant = Len(grants) + 1]
       \/ End(c) /\ UNCHANGED grants
    /\ UNCHANGED <<Tokens, user_settings, oauth_states, issued, overlapped, requests, Log>>

SelectToken(c) ==
    /\ In(c, "select")
    /\ Read(c, "save", google_tokens[client[c].user])
    /\ UNCHANGED <<Tokens, user_settings, OAuth, requests, Log>>

\* INSERT or UPDATE, as the SELECT said; if the row has come or gone since, the
\* commit fails.  Without a new refresh token the stored one stays.
handle_callback(c) ==
    LET u == client[c].user
        stored == google_tokens[u]
    IN /\ In(c, "save")
       /\ IF (client[c].row = None) <=> (stored = None)
          THEN \E sent \in {None, client[c].grant} :
                 LET kept == IF sent = None /\ stored # None THEN stored.refresh ELSE sent
                 IN /\ google_tokens' = [google_tokens EXCEPT ![u] =
                           [access |-> client[c].grant, refresh |-> kept, expired |-> FALSE,
                            connect |-> connects[u] + 1]]
                    /\ latest' = [latest EXCEPT ![u] =
                           [access |-> client[c].grant, refresh |-> kept]]
                    /\ connects' = [connects EXCEPT ![u] = connects[u] + 1]
                    /\ overtaken' = overtaken \ {u}
          ELSE UNCHANGED Tokens
       /\ End(c)
       /\ UNCHANGED <<user_settings, OAuth, requests, Log>>

\* Nothing is awaited between SELECT and DELETE that could change the outcome: a
\* row that was not there stays out, a row that was there goes.
disconnect(c, u) ==
    /\ In(c, "idle") /\ requests < MaxRequests
    /\ requests' = requests + 1
    /\ google_tokens' = [google_tokens EXCEPT ![u] = None]
    /\ latest' = [latest EXCEPT ![u] = Gone]
    /\ overtaken' = overtaken \ {u}
    /\ UNCHANGED <<connects, user_settings, OAuth, client, Log>>

-----------------------------------------------------------------------------
(* Using the account                                                       *)

\* The access token's hour is over.
TokenExpires(u) ==
    /\ google_tokens[u] # None /\ ~google_tokens[u].expired
    /\ google_tokens' = [google_tokens EXCEPT ![u].expired = TRUE]
    /\ UNCHANGED <<latest, connects, overtaken, user_settings, OAuth, client, requests, Log>>

\* get_valid_credentials, first half: what the row read asks for next.
Missing(row) == row = None
Stale(row) == row # None /\ row.expired /\ row.refresh # None

Overtaken(u, row) == overtaken' = overtaken \union {v \in {u} : row.connect # connects[v]}

\* Mutant: the refreshed credentials are written as they are, row or no row.
RefreshedAsRead(u, row) ==
    /\ google_tokens' = [google_tokens EXCEPT ![u] =
           [access |-> row.refresh, refresh |-> row.refresh, expired |-> FALSE,
            connect |-> connects[u]]]
    /\ Overtaken(u, row)

\* Second half: the UPDATE after the refresh, whatever connect the row is of by now.
\* The answer may carry another refresh token of the grant; if not, the column keeps
\* its value.  A row that is gone fails the commit.
Refreshed(u, row) ==
    IF google_tokens[u] = None THEN UNCHANGED <<google_tokens, overtaken>>
    ELSE /\ \E refresh \in {google_tokens[u].refresh, row.refresh} :
              google_tokens' = [google_tokens EXCEPT ![u] =
                  [access |-> row.refresh, refresh |-> refresh, expired |-> FALSE,
                   connect |-> google_tokens[u].connect]]
         /\ Overtaken(u, row)

LoadCredentials(c) ==
    /\ In(c, "load")
    /\ LET row == google_tokens[client[c].user]
       IN IF Missing(row) THEN End(c)
          ELSE Read(c, IF Stale(row) THEN "refresh" ELSE "call", row)
    /\ UNCHANGED <<Tokens, user_settings, OAuth, requests, Log>>

RefreshCredentials(c) ==
    LET u == client[c].user
    IN /\ In(c, "refresh")
       /\ \/ Refreshed(u, client[c].row)
             /\ IF google_tokens[u] = None THEN End(c) ELSE Go(c, "call")
          \/ End(c) /\ UNCHANGED <<google_tokens, overtaken>>   \* Google refuses
       /\ UNCHANGED <<latest, connects, user_settings, OAuth, requests, Log>>

\* send_message, create_event, delete_event: done; refused; done but not known.
CallGoogle(c) ==
    /\ In(c, "call")
    /\ \/ effects' = effects \union {Effect(c)} /\ Go(c, "audit") /\ UNCHANGED excused
       \/ effects' = effects \union {Effect(c)} /\ excused' = excused \union {Effect(c)} /\ End(c)
       \/ End(c) /\ UNCHANGED <<effects, excused>>
    /\ UNCHANGED <<Tokens, user_settings, OAuth, requests, audits>>

\* Mutant: no entry is written.
EffectUnaudited(c) ==
    /\ In(c, "audit")
    /\ End(c)
    /\ UNCHANGED <<Tokens, user_settings, OAuth, requests, Log>>

AuditEffect(c) ==
    /\ In(c, "audit")
    /\ audits' = audits \union {Effect(c)}
    /\ End(c)
    /\ UNCHANGED <<Tokens, user_settings, OAuth, requests, effects, excused>>

-----------------------------------------------------------------------------
(* Settings                                                                *)

get_or_create(c) ==
    /\ In(c, "get_or_create")
    /\ Read(c, IF user_settings[client[c].user] = None THEN "create" ELSE "update",
            user_settings[client[c].user])
    /\ UNCHANGED <<Tokens, user_settings, OAuth, requests, Log>>

\* The first access inserts the defaults; two first accesses collide on the key.
CreateDefaults(c) ==
    LET u == client[c].user
    IN /\ In(c, "create")
       /\ IF user_settings[u] = None
          THEN user_settings' = [user_settings EXCEPT ![u] = Defaults] /\ Go(c, "reread")
          ELSE End(c) /\ UNCHANGED user_settings
       /\ UNCHANGED <<Tokens, OAuth, requests, Log>>

\* The row as it is after the commit, by when others may have changed it.
ReadDefaults(c) ==
    /\ In(c, "reread")
    /\ Read(c, "update", user_settings[client[c].user])
    /\ UNCHANGED <<Tokens, user_settings, OAuth, requests, Log>>

\* The value a field is set to, where it is set at all.
NewValue(field, value) == IF value = Empty THEN None ELSE value
Sets(field, value) == (value # None \/ field = "api_key") /\ value # Masked

\* Only columns whose value differs from the one read are written.
update(c) ==
    LET u == client[c].user
        patch == client[c].patch
        written == {f \in DOMAIN patch : /\ Sets(f, patch[f])
                                         /\ NewValue(f, patch[f]) # client[c].row[f]}
    IN /\ In(c, "update")
       /\ user_settings' = [user_settings EXCEPT ![u] =
              [f \in DOMAIN @ |-> IF f \in written THEN NewValue(f, patch[f]) ELSE @[f]]]
       /\ IF "mode" \in written THEN Go(c, "audit") /\ effects' = effects \union {Effect(c)}
          ELSE End(c) /\ UNCHANGED effects
       /\ UNCHANGED <<Tokens, OAuth, requests, audits, excused>>

\* The process dies.
ClientDies(c) ==
    /\ c \in MayDie /\ ~In(c, "idle")
    /\ excused' = excused \union {e \in effects : e = Effect(c)}
    /\ End(c)
    /\ UNCHANGED <<Tokens, user_settings, OAuth, requests, effects, audits>>

-----------------------------------------------------------------------------

Begin(c, r) ==
    \/ r.op = "callback" /\ \E s \in States : google_callback(c, s)
    \/ r.op = "disconnect" /\ disconnect(c, r.user)
    \/ /\ r.op = "call" /\ Accept(c, "load", r.user, NoPatch, None)
       /\ UNCHANGED <<Tokens, user_settings, OAuth, Log>>
    \/ /\ r.op = "settings" /\ Accept(c, "get_or_create", r.user, r.patch, None)
       /\ UNCHANGED <<Tokens, user_settings, OAuth, Log>>

Serve(c) ==
    \/ ForgetState(c) \/ Exchange(c) \/ SelectToken(c) \/ handle_callback(c)
    \/ LoadCredentials(c) \/ RefreshCredentials(c) \/ CallGoogle(c) \/ AuditEffect(c)
    \/ get_or_create(c) \/ CreateDefaults(c) \/ ReadDefaults(c) \/ update(c)

AccountNext ==
    \/ \E u \in Users : google_auth_url(u) \/ TokenExpires(u)
    \/ \E s \in States : StateExpires(s)
    \/ \E c \in Clients : (\E r \in Requests : Begin(c, r)) \/ Serve(c) \/ ClientDies(c)

AccountSpec == AccountInit /\ [][AccountNext]_accountVars

\* Effects whose entry is the next step of their request.
BeingAudited == {Effect(c) : c \in {d \in Clients : In(d, "audit")}}

-----------------------------------------------------------------------------
(* Properties                                                              *)

\* What is stored has the type of its column; no masked value has become a key
\* ("a masked value is what the API handed out, so it means keep").
AccountTypeOK ==
    /\ \A u \in Users : /\ google_tokens[u] \in GoogleToken \union {None}
                        /\ user_settings[u] \in UserSettings \union {None}
    /\ DOMAIN oauth_states \subseteq issued /\ issued \subseteq States
    /\ Len(grants) <= MaxGrants /\ requests \in 0..MaxRequests
    /\ \A c \in Clients : DOMAIN client[c] = DOMAIN IdleClient

\* A state serves one exchange, unless two callbacks held it at the same time
\* (google_callback reads it and deletes it in two commands).
StateServesOnce ==
    \A i, j \in 1..Len(grants) : i # j /\ grants[i] = grants[j] => grants[i] \in overlapped

\* What was done has an audit entry, is about to get one, or is of a request that
\* died or never learned that it was done; and nothing else has one (send_mail,
\* create_event, delete_event, update_settings: the entry is a commit of its own,
\* after the fact).
EffectsAudited == audits \subseteq effects /\ effects \subseteq audits \union excused \union BeingAudited

\* A refresh in flight never brings a disconnected account back, and the tokens of
\* the row are those of the last connect, the access token perhaps refreshed with
\* its refresh token: unless a refresh that had read the row before that connect
\* was written after it.  get_valid_credentials writes after it has waited for
\* Google and looks at nothing again, so then the access token, and a refresh token
\* that came with it, are the older grant's.
LatestConnectHolds ==
    \A u \in Users :
      LET row == google_tokens[u]
      IN /\ row = None <=> latest[u] = Gone
         /\ row # None /\ u \notin overtaken =>
              /\ row.refresh = latest[u].refresh
              /\ row.access \in {latest[u].access, latest[u].refresh}

\* The account is what the user last made of it: keys, settings and connection.
AccountIsCurrent == AccountTypeOK /\ LatestConnectHolds
=============================================================================
