---------------------------- MODULE HeartbeatProofs ----------------------------
(***************************************************************************)
(* Proofs about GoogleAccount and Heartbeat for every set of users,        *)
(* clients, workers and requests: the stored tokens are those of the last  *)
(* connect unless a refresh of an older one is written over them, a state  *)
(* serves one exchange, what is done outside is on record, and a briefing  *)
(* tells what there is to tell.                                            *)
(***************************************************************************)
EXTENDS Heartbeat, TLAPS

-----------------------------------------------------------------------------
(* The inductive invariant of the account                                  *)

ClientPhases == {"idle", "forget", "exchange", "select", "save", "load", "refresh", "call",
                 "audit", "get_or_create", "create", "reread", "update"}

Patches == {r.patch : r \in Requests} \union {NoPatch}

ClientRequest ==
    [phase : ClientPhases, id : Nat, user : Users \union {None}, patch : Patches,
     state : States \union {None}, grant : 0..MaxGrants,
     row : GoogleToken \union UserSettings \union {None}]

TablesOK ==
    /\ google_tokens \in [Users -> GoogleToken \union {None}]
    /\ latest \in [Users -> Connect \union {Gone}]
    /\ connects \in [Users -> Nat]
    /\ \A u \in Users : google_tokens[u] # None => google_tokens[u].connect = connects[u]
    /\ user_settings \in [Users -> UserSettings \union {None}]

OAuthOK ==
    /\ oauth_states \in [DOMAIN oauth_states -> Users]
    /\ DOMAIN oauth_states \subseteq issued /\ issued \subseteq States
    /\ grants \in Seq(States) /\ Len(grants) <= MaxGrants

ClientsOK == client \in [Clients -> ClientRequest] /\ requests \in 0..MaxRequests

Holding(c) == client[c].phase \in {"forget", "exchange"}

\* A row that was read of user u, to be refreshed: it is of this connect or of an
\* older one, and if of this one, and nothing older was written over it, its refresh
\* token is the one that the connect left.
Held(u, row) ==
    /\ row.refresh # None /\ row.connect <= connects[u]
    /\ google_tokens[u] # None /\ row.connect = connects[u] /\ u \notin overtaken
         => row.refresh = latest[u].refresh

\* What the phase of a request says of what it has read and is about to write.
ClientKnows(c) ==
    /\ ~In(c, "idle") => client[c].user \in Users
    /\ In(c, "refresh") => client[c].row \in GoogleToken /\ Held(client[c].user, client[c].row)
    /\ client[c].phase \in {"reread", "update"} => user_settings[client[c].user] # None

\* A state that is being exchanged, or has been, is dead: only the callbacks that
\* already hold it can still bring it to an exchange.
DeadStates ==
    /\ \A c \in Clients : Holding(c) => client[c].state \in issued
    /\ \A c \in Clients : In(c, "exchange") => client[c].state \notin DOMAIN oauth_states
    /\ \A i \in 1..Len(grants) : grants[i] \in issued \ DOMAIN oauth_states

\* Two that hold a state, or one that holds it after its exchange, have overlapped.
HoldersOverlap ==
    /\ \A c, d \in Clients : c # d /\ Holding(c) /\ Holding(d) /\ client[c].state = client[d].state
                               => client[c].state \in overlapped
    /\ \A c \in Clients, i \in 1..Len(grants) : Holding(c) /\ grants[i] = client[c].state
                                                  => client[c].state \in overlapped

AccountInv ==
    /\ TablesOK /\ OAuthOK /\ ClientsOK
    /\ \A c \in Clients : ClientKnows(c)
    /\ LatestConnectHolds
    /\ DeadStates /\ HoldersOverlap /\ StateServesOnce

\* Effects that no audit entry and no request accounts for.
Unaccounted == effects \ (audits \union excused \union BeingAudited)

AuditedAreDone ==
    /\ audits \subseteq effects
    /\ \A c \in Clients : In(c, "audit") => Effect(c) \in effects

-----------------------------------------------------------------------------
(* Types                                                                   *)

\* What a step of the tables may not do to those that have read them.
TablesGoOn ==
    /\ TablesOK' /\ LatestConnectHolds'
    /\ \A u \in Users, row \in GoogleToken : Held(u, row) => Held(u, row)'
    /\ \A u \in Users : user_settings[u] # None => user_settings'[u] # None

LEMMA IdleIsRequest ==
    IdleClient \in ClientRequest /\ IdleClient.phase = "idle"
BY GoogleAssumption DEF IdleClient, ClientRequest, ClientPhases, Patches

\* A request goes on: everything it has read so far stays.
LEMMA GoMoves ==
    ASSUME ClientsOK, NEW c \in Clients, NEW phase \in ClientPhases, Go(c, phase)
    PROVE  /\ client' \in [Clients -> ClientRequest]
           /\ client'[c].phase = phase
           /\ client'[c].id = client[c].id /\ client'[c].user = client[c].user
           /\ client'[c].state = client[c].state /\ client'[c].row = client[c].row
           /\ \A d \in Clients : d # c => client'[d] = client[d]
<1>1. client[c] \in ClientRequest
  BY DEF ClientsOK
<1> DEFINE x == [client[c] EXCEPT !.phase = phase]
<1>2. /\ x \in ClientRequest /\ x.phase = phase /\ x.id = client[c].id /\ x.user = client[c].user
      /\ x.state = client[c].state /\ x.row = client[c].row
  BY <1>1 DEF ClientRequest
<1>3. client' = [client EXCEPT ![c] = x]
  BY DEF Go
<1> HIDE DEF x
<1> QED
  BY <1>2, <1>3 DEF ClientsOK

\* A request goes on with what it has just read.
LEMMA ReadMoves ==
    ASSUME ClientsOK, NEW c \in Clients, NEW phase \in ClientPhases,
           NEW row \in GoogleToken \union UserSettings \union {None}, Read(c, phase, row)
    PROVE  /\ client' \in [Clients -> ClientRequest]
           /\ client'[c].phase = phase /\ client'[c].row = row
           /\ client'[c].id = client[c].id /\ client'[c].user = client[c].user
           /\ client'[c].state = client[c].state
           /\ \A d \in Clients : d # c => client'[d] = client[d]
<1>1. client[c] \in ClientRequest
  BY DEF ClientsOK
<1> DEFINE x == [client[c] EXCEPT !.phase = phase, !.row = row]
<1>2. /\ x \in ClientRequest /\ x.phase = phase /\ x.row = row
      /\ x.id = client[c].id /\ x.user = client[c].user /\ x.state = client[c].state
  BY <1>1 DEF ClientRequest
<1>3. client' = [client EXCEPT ![c] = x]
  BY DEF Read
<1> HIDE DEF x
<1> QED
  BY <1>2, <1>3 DEF ClientsOK

LEMMA EndMoves ==
    ASSUME ClientsOK, NEW c \in Clients, End(c)
    PROVE  /\ client' \in [Clients -> ClientRequest]
           /\ client'[c].phase = "idle"
           /\ \A d \in Clients : d # c => client'[d] = client[d]
BY IdleIsRequest DEF ClientsOK, End

LEMMA AcceptMoves ==
    ASSUME ClientsOK, NEW c \in Clients, NEW phase \in ClientPhases, NEW u \in Users,
           NEW patch \in Patches, NEW s \in States \union {None}, Accept(c, phase, u, patch, s)
    PROVE  /\ ClientsOK'
           /\ client[c].phase = "idle" /\ client'[c].phase = phase
           /\ client'[c].user = u /\ client'[c].state = s
           /\ \A d \in Clients : d # c => client'[d] = client[d]
<1> DEFINE x == [IdleClient EXCEPT !.phase = phase, !.id = requests + 1,
                                   !.user = u, !.patch = patch, !.state = s]
<1>1. requests' = requests + 1 /\ requests' \in 0..MaxRequests /\ requests + 1 \in Nat
  BY GoogleAssumption DEF Accept, ClientsOK
<1>2. x \in ClientRequest /\ x.phase = phase /\ x.user = u /\ x.state = s
  BY <1>1, IdleIsRequest DEF ClientRequest
<1>3. client' = [client EXCEPT ![c] = x] /\ client[c].phase = "idle"
  BY DEF Accept, In
<1> HIDE DEF x
<1> QED
  BY <1>1, <1>2, <1>3 DEF ClientsOK

-----------------------------------------------------------------------------
(* The tables                                                              *)

\* A request that does not move while the tables go on.
LEMMA ClientStays ==
    ASSUME AccountInv, TablesGoOn, NEW c \in Clients, client'[c] = client[c]
    PROVE  ClientKnows(c)'
<1>1. ClientKnows(c)
  BY DEF AccountInv
<1>2. CASE In(c, "refresh")
  <2> DEFINE u == client[c].user
             row == client[c].row
  <2>1. u \in Users /\ row \in GoogleToken /\ Held(u, row)
    BY <1>1, <1>2 DEF ClientKnows, In
  <2>2. /\ row.refresh # None /\ row.connect <= connects'[u]
        /\ google_tokens'[u] # None /\ row.connect = connects'[u] /\ u \notin overtaken'
             => row.refresh = latest'[u].refresh
    BY <2>1 DEF TablesGoOn, Held
  <2>3. Held(client[c].user, client[c].row)'
    BY <2>2 DEF Held
  <2> QED
    BY <1>2, <2>1, <2>3 DEF ClientKnows, In
<1>3. CASE ~In(c, "refresh")
  BY <1>1, <1>3 DEF ClientKnows, In, TablesGoOn
<1> QED
  BY <1>2, <1>3

\* The rest of the account while one request moves.
LEMMA ClientStep ==
    ASSUME AccountInv, TablesGoOn, NEW c \in Clients,
           \A d \in Clients : d # c => client'[d] = client[d],
           ClientKnows(c)'
    PROVE  \A d \in Clients : ClientKnows(d)'
BY ClientStays

\* A step that moves one request, or none, and neither begins nor ends an OAuth flow.
LEMMA SameFlow ==
    ASSUME AccountInv, UNCHANGED OAuth,
           \A c \in Clients : Holding(c)' => client'[c] = client[c]
    PROVE  OAuthOK' /\ DeadStates' /\ HoldersOverlap' /\ StateServesOnce'
<1>1. OAuthOK' /\ StateServesOnce'
  BY DEF AccountInv, OAuth, OAuthOK, StateServesOnce
<1>2. DeadStates'
  BY DEF AccountInv, OAuth, DeadStates, Holding, In
<1>3. HoldersOverlap'
  BY DEF AccountInv, OAuth, HoldersOverlap, Holding
<1> QED
  BY <1>1, <1>2, <1>3

LEMMA SameTables ==
    ASSUME AccountInv, UNCHANGED Tokens,
           user_settings' \in [Users -> UserSettings \union {None}],
           \A u \in Users : user_settings[u] # None => user_settings'[u] # None
    PROVE  TablesGoOn
<1>1. TablesOK' /\ LatestConnectHolds'
  BY DEF AccountInv, Tokens, TablesOK, LatestConnectHolds
<1>2. \A u \in Users, row \in GoogleToken : Held(u, row) => Held(u, row)'
  BY DEF Tokens, Held
<1> QED
  BY <1>1, <1>2 DEF TablesGoOn

\* A step that only reads the tables.
LEMMA TablesStay ==
    ASSUME AccountInv, UNCHANGED <<Tokens, user_settings>>
    PROVE  TablesGoOn
BY SameTables DEF AccountInv, TablesOK

\* A row of the same connect takes the place of the one stored; if a refresh token
\* of an older connect comes with it, the user is overtaken.
LEMMA SameConnect ==
    ASSUME TablesOK, LatestConnectHolds, UNCHANGED <<latest, connects, user_settings>>,
           NEW u \in Users, google_tokens[u] # None,
           NEW token \in GoogleToken, token.connect = google_tokens[u].connect,
           google_tokens' = [google_tokens EXCEPT ![u] = token],
           overtaken \subseteq overtaken', \A v \in Users \ {u} : v \in overtaken' => v \in overtaken,
           u \notin overtaken' =>
             /\ token.refresh = latest[u].refresh
             /\ token.access \in {latest[u].access, latest[u].refresh}
    PROVE  TablesGoOn
<1>1. /\ google_tokens'[u] = token /\ token # None
      /\ \A v \in Users \ {u} : google_tokens'[v] = google_tokens[v]
  BY MarkerAssumption DEF TablesOK
<1>2. TablesOK'
  BY <1>1 DEF TablesOK
<1>3. LatestConnectHolds'
  BY <1>1 DEF LatestConnectHolds
<1>4. ASSUME NEW v \in Users, NEW row \in GoogleToken, Held(v, row)
      PROVE  Held(v, row)'
  BY <1>1, <1>4 DEF Held
<1> QED
  BY <1>2, <1>3, <1>4 DEF TablesGoOn

\* A refresh that is written, whatever became of the account since its row was read.
LEMMA RefreshedIsCurrent ==
    ASSUME TablesOK, LatestConnectHolds, UNCHANGED <<latest, connects, user_settings>>,
           NEW u \in Users, NEW row \in GoogleToken, Held(u, row),
           Refreshed(u, row) \/ UNCHANGED <<google_tokens, overtaken>>
    PROVE  TablesGoOn
<1>1. CASE UNCHANGED <<google_tokens, overtaken>>
  <2>1. TablesOK' /\ LatestConnectHolds'
    BY <1>1 DEF TablesOK, LatestConnectHolds
  <2>2. \A v \in Users, r \in GoogleToken : Held(v, r) => Held(v, r)'
    BY <1>1 DEF Held
  <2> QED
    BY <2>1, <2>2 DEF TablesGoOn
<1>2. CASE google_tokens[u] # None /\ Refreshed(u, row)
  <2>1. /\ google_tokens[u] \in GoogleToken /\ google_tokens[u].connect = connects[u]
        /\ google_tokens[u].refresh \in 0..MaxGrants \union {None} /\ google_tokens[u].connect \in Nat
        /\ row.refresh \in 0..MaxGrants
    BY <1>2 DEF TablesOK, GoogleToken, Held
  <2>2. PICK refresh \in {google_tokens[u].refresh, row.refresh} :
          google_tokens' = [google_tokens EXCEPT ![u] =
              [access |-> row.refresh, refresh |-> refresh, expired |-> FALSE,
               connect |-> google_tokens[u].connect]]
    BY <1>2 DEF Refreshed
  <2>3. overtaken' = overtaken \union {v \in {u} : row.connect # connects[v]}
    BY <1>2 DEF Refreshed, Overtaken
  <2> DEFINE token == [access |-> row.refresh, refresh |-> refresh, expired |-> FALSE,
                       connect |-> google_tokens[u].connect]
  <2>4. /\ token \in GoogleToken /\ token.connect = google_tokens[u].connect
        /\ token.refresh = refresh /\ token.access = row.refresh
    BY <2>1 DEF GoogleToken
  <2>5. google_tokens' = [google_tokens EXCEPT ![u] = token]
    BY <2>2
  <2> HIDE DEF token
  <2>6. ASSUME u \notin overtaken'
        PROVE  /\ token.refresh = latest[u].refresh
               /\ token.access \in {latest[u].access, latest[u].refresh}
    <3>1. row.refresh = latest[u].refresh
      BY <1>2, <2>3, <2>6 DEF Held
    <3>2. google_tokens[u].refresh = latest[u].refresh
      BY <1>2, <2>3, <2>6 DEF LatestConnectHolds
    <3> QED
      BY <2>4, <3>1, <3>2
  <2> QED
    BY <1>2, <2>3, <2>4, <2>5, <2>6, SameConnect
<1>3. CASE google_tokens[u] = None /\ Refreshed(u, row)
  BY <1>1, <1>3 DEF Refreshed
<1> QED
  BY <1>1, <1>2, <1>3

LEMMA ExpiryIsCurrent ==
    ASSUME AccountInv, NEW u \in Users, TokenExpires(u)
    PROVE  AccountInv' /\ TablesGoOn
<1> DEFINE row == google_tokens[u]
           token == [row EXCEPT !.expired = TRUE]
<1>1. /\ row # None /\ google_tokens' = [google_tokens EXCEPT ![u] = token]
      /\ UNCHANGED <<latest, connects, overtaken, user_settings, OAuth, client, requests, Log>>
  BY DEF TokenExpires
<1>2. row \in GoogleToken
  BY <1>1 DEF AccountInv, TablesOK
<1> HIDE DEF row
<1>3. /\ token \in GoogleToken /\ token.connect = row.connect
      /\ token.refresh = row.refresh /\ token.access = row.access
  BY <1>2 DEF GoogleToken
<1> HIDE DEF token
<1>4. u \notin overtaken => /\ token.refresh = latest[u].refresh
                           /\ token.access \in {latest[u].access, latest[u].refresh}
  BY <1>1, <1>3 DEF AccountInv, LatestConnectHolds, row
<1>5. TablesGoOn
  BY <1>1, <1>3, <1>4, SameConnect DEF AccountInv, row
<1>6. OAuthOK' /\ DeadStates' /\ HoldersOverlap' /\ StateServesOnce'
  BY <1>1, SameFlow
<1>7. ClientsOK' /\ \A c \in Clients : ClientKnows(c)'
  BY <1>1, <1>5, ClientStays DEF AccountInv, ClientsOK
<1> QED
  BY <1>5, <1>6, <1>7 DEF AccountInv, TablesGoOn

-----------------------------------------------------------------------------
(* Connecting and disconnecting                                            *)

LEMMA UrlStep ==
    ASSUME AccountInv, NEW u \in Users, google_auth_url(u)
    PROVE  AccountInv' /\ TablesGoOn
<1>1. PICK s \in States \ issued :
        /\ oauth_states' = [x \in DOMAIN oauth_states \union {s} |->
                              IF x = s THEN u ELSE oauth_states[x]]
        /\ issued' = issued \union {s}
  BY DEF google_auth_url
<1>2. UNCHANGED <<Tokens, user_settings, overlapped, grants, client, requests, Log>>
  BY DEF google_auth_url
<1>3. TablesGoOn
  BY <1>2, TablesStay
<1>4. ClientsOK' /\ \A c \in Clients : ClientKnows(c)'
  BY <1>2, <1>3, ClientStays DEF AccountInv, ClientsOK
<1>5. OAuthOK'
  BY <1>1, <1>2 DEF AccountInv, OAuthOK
<1>6. DeadStates'
  BY <1>1, <1>2 DEF AccountInv, DeadStates, Holding, In
<1>7. HoldersOverlap' /\ StateServesOnce'
  BY <1>2 DEF AccountInv, HoldersOverlap, Holding, StateServesOnce
<1> QED
  BY <1>3, <1>4, <1>5, <1>6, <1>7 DEF AccountInv, TablesGoOn

\* A state leaves Redis, by its deadline or because a callback takes it.
LEMMA ForgottenFlow ==
    ASSUME AccountInv, NEW s, oauth_states' = Forgotten(s), UNCHANGED <<issued, grants>>
    PROVE  /\ OAuthOK'
           /\ DOMAIN oauth_states' = DOMAIN oauth_states \ {s}
           /\ \A i \in 1..Len(grants') : grants'[i] \in issued' \ DOMAIN oauth_states'
<1>1. DOMAIN oauth_states' = DOMAIN oauth_states \ {s}
  BY DEF Forgotten
<1>2. OAuthOK'
  BY <1>1 DEF AccountInv, OAuthOK, Forgotten
<1> QED
  BY <1>1, <1>2 DEF AccountInv, DeadStates

LEMMA StateExpiresStep ==
    ASSUME AccountInv, NEW s \in States, StateExpires(s)
    PROVE  AccountInv' /\ TablesGoOn
<1>1. /\ oauth_states' = Forgotten(s)
      /\ UNCHANGED <<Tokens, user_settings, issued, overlapped, grants, client, requests, Log>>
  BY DEF StateExpires
<1>2. TablesGoOn
  BY <1>1, TablesStay
<1>3. ClientsOK' /\ \A c \in Clients : ClientKnows(c)'
  BY <1>1, <1>2, ClientStays DEF AccountInv, ClientsOK
<1>4. OAuthOK' /\ DeadStates'
  BY <1>1, ForgottenFlow DEF AccountInv, DeadStates, Holding, In
<1>5. HoldersOverlap' /\ StateServesOnce'
  BY <1>1 DEF AccountInv, HoldersOverlap, Holding, StateServesOnce
<1> QED
  BY <1>2, <1>3, <1>4, <1>5 DEF AccountInv, TablesGoOn

LEMMA CallbackStep ==
    ASSUME AccountInv, NEW c \in Clients, NEW s \in States, google_callback(c, s)
    PROVE  AccountInv' /\ TablesGoOn
<1>1. /\ s \in DOMAIN oauth_states /\ Accept(c, "forget", oauth_states[s], NoPatch, s)
      /\ overlapped' = overlapped \union {t \in {s} : \E d \in Clients :
                                            In(d, "forget") /\ client[d].state = t}
      /\ UNCHANGED <<Tokens, user_settings, oauth_states, issued, grants, Log>>
  BY DEF google_callback
<1>2. oauth_states[s] \in Users /\ NoPatch \in Patches
  BY <1>1 DEF AccountInv, OAuthOK, Patches
<1>3. /\ ClientsOK'
      /\ client[c].phase = "idle" /\ client'[c].phase = "forget"
      /\ client'[c].user \in Users /\ client'[c].state = s
      /\ \A d \in Clients : d # c => client'[d] = client[d]
  BY <1>1, <1>2, AcceptMoves DEF AccountInv, ClientPhases
<1>4. TablesGoOn
  BY <1>1, TablesStay
<1>5. \A d \in Clients : ClientKnows(d)'
  <2>1. ClientKnows(c)'
    BY <1>3 DEF ClientKnows, In
  <2> QED
    BY <1>3, <1>4, <2>1, ClientStep
<1>6. OAuthOK' /\ StateServesOnce'
  BY <1>1 DEF AccountInv, OAuthOK, StateServesOnce
<1>7. DeadStates'
  BY <1>1, <1>3 DEF AccountInv, OAuthOK, DeadStates, Holding, In
<1>8. HoldersOverlap'
  <2>1. ASSUME NEW d \in Clients, d # c, Holding(d)', client'[d].state = s
        PROVE  s \in overlapped'
    <3>1. Holding(d) /\ client[d].state = s /\ ~In(d, "exchange")
      BY <1>1, <1>3, <2>1 DEF AccountInv, DeadStates, Holding, In
    <3> QED
      BY <1>1, <3>1 DEF Holding, In
  <2>2. \A i \in 1..Len(grants) : grants[i] # s
    BY <1>1 DEF AccountInv, DeadStates
  <2>3. ASSUME NEW a \in Clients, NEW b \in Clients,
               a # b, Holding(a)', Holding(b)', client'[a].state = client'[b].state
        PROVE  client'[a].state \in overlapped'
    <3>1. CASE a = c \/ b = c
      BY <1>3, <2>1, <2>3, <3>1
    <3>2. CASE a # c /\ b # c
      BY <1>1, <1>3, <2>3, <3>2 DEF AccountInv, HoldersOverlap, Holding
    <3> QED
      BY <3>1, <3>2
  <2>4. ASSUME NEW a \in Clients, NEW i \in 1..Len(grants'),
               Holding(a)', grants'[i] = client'[a].state
        PROVE  client'[a].state \in overlapped'
    BY <1>1, <1>3, <2>2, <2>4 DEF AccountInv, HoldersOverlap, Holding
  <2> QED
    BY <2>3, <2>4 DEF HoldersOverlap
<1> QED
  BY <1>3, <1>4, <1>5, <1>6, <1>7, <1>8 DEF AccountInv, TablesGoOn

LEMMA ForgetStateStep ==
    ASSUME AccountInv, NEW c \in Clients, ForgetState(c)
    PROVE  AccountInv' /\ TablesGoOn
<1>1. /\ In(c, "forget") /\ Go(c, "exchange")
      /\ oauth_states' = Forgotten(client[c].state)
      /\ UNCHANGED <<Tokens, user_settings, issued, overlapped, grants, requests, Log>>
  BY DEF ForgetState
<1>2. /\ client' \in [Clients -> ClientRequest]
      /\ client'[c].phase = "exchange" /\ client'[c].user = client[c].user
      /\ client'[c].state = client[c].state
      /\ \A d \in Clients : d # c => client'[d] = client[d]
  BY <1>1, GoMoves DEF AccountInv, ClientPhases
<1>3. TablesGoOn /\ ClientsOK'
  BY <1>1, <1>2, TablesStay DEF AccountInv, ClientsOK
<1>4. \A d \in Clients : ClientKnows(d)'
  <2>1. ClientKnows(c)'
    BY <1>1, <1>2 DEF AccountInv, ClientKnows, In
  <2> QED
    BY <1>2, <1>3, <2>1, ClientStep
<1>5. /\ OAuthOK'
      /\ DOMAIN oauth_states' = DOMAIN oauth_states \ {client[c].state}
      /\ \A i \in 1..Len(grants') : grants'[i] \in issued' \ DOMAIN oauth_states'
  BY <1>1, ForgottenFlow
<1>6. DeadStates'
  BY <1>1, <1>2, <1>5 DEF AccountInv, DeadStates, Holding, In
<1>7. HoldersOverlap' /\ StateServesOnce'
  BY <1>1, <1>2 DEF AccountInv, HoldersOverlap, Holding, StateServesOnce, In
<1> QED
  BY <1>3, <1>4, <1>5, <1>6, <1>7 DEF AccountInv, TablesGoOn

LEMMA ExchangeStep ==
    ASSUME AccountInv, NEW c \in Clients, Exchange(c)
    PROVE  AccountInv' /\ TablesGoOn
<1> DEFINE s == client[c].state
<1>1. /\ In(c, "exchange")
      /\ UNCHANGED <<Tokens, user_settings, oauth_states, issued, overlapped, requests, Log>>
  BY DEF Exchange
<1>2. client[c] \in ClientRequest /\ client[c].user \in Users
  BY <1>1 DEF AccountInv, ClientsOK, ClientKnows, In
<1>3. TablesGoOn
  BY <1>1, TablesStay
<1>4. CASE End(c) /\ UNCHANGED grants
  <2>1. /\ client' \in [Clients -> ClientRequest] /\ client'[c].phase = "idle"
        /\ \A d \in Clients : d # c => client'[d] = client[d]
    BY <1>4, EndMoves DEF AccountInv
  <2>2. ClientsOK' /\ \A d \in Clients : ClientKnows(d)'
    <3>1. ClientKnows(c)'
      BY <2>1 DEF ClientKnows, In
    <3> QED
      BY <1>1, <1>3, <2>1, <3>1, ClientStep DEF AccountInv, ClientsOK
  <2>3. OAuthOK' /\ DeadStates' /\ HoldersOverlap' /\ StateServesOnce'
    BY <1>1, <1>4, <2>1, SameFlow DEF OAuth, Holding
  <2> QED
    BY <1>3, <2>2, <2>3 DEF AccountInv, TablesGoOn
<1>5. CASE /\ Len(grants) < MaxGrants
           /\ grants' = Append(grants, s)
           /\ client' = [client EXCEPT ![c].phase = "select", ![c].grant = Len(grants) + 1]
  <2> DEFINE x == [client[c] EXCEPT !.phase = "select", !.grant = Len(grants) + 1]
  <2>1. grants \in Seq(States) /\ Len(grants) \in Nat /\ Len(grants) + 1 \in 0..MaxGrants
    BY <1>5, GoogleAssumption DEF AccountInv, OAuthOK
  <2>2. x \in ClientRequest /\ x.phase = "select" /\ x.user = client[c].user
    BY <1>2, <2>1 DEF ClientRequest, ClientPhases
  <2>3. client' = [client EXCEPT ![c] = x]
    BY <1>5
  <2>4. s \in issued /\ issued \subseteq States /\ s \notin DOMAIN oauth_states
    BY <1>1 DEF AccountInv, OAuthOK, DeadStates, Holding, In
  <2> HIDE DEF x, s
  <2>5. /\ client' \in [Clients -> ClientRequest] /\ client'[c] = x
        /\ \A d \in Clients : d # c => client'[d] = client[d]
    BY <2>2, <2>3 DEF AccountInv, ClientsOK
  <2>6. ClientsOK' /\ \A d \in Clients : ClientKnows(d)'
    <3>1. ClientKnows(c)'
      BY <1>2, <2>2, <2>5 DEF ClientKnows, In
    <3> QED
      BY <1>1, <1>3, <2>5, <3>1, ClientStep DEF AccountInv, ClientsOK
  <2>7. /\ grants' \in Seq(States) /\ Len(grants') = Len(grants) + 1
        /\ \A i \in 1..Len(grants) : grants'[i] = grants[i]
        /\ grants'[Len(grants) + 1] = s
    BY <1>5, <2>1, <2>4
  <2>8. OAuthOK'
    BY <1>1, <2>1, <2>7 DEF AccountInv, OAuthOK
  <2>9. DeadStates'
    <3>1. \A i \in 1..Len(grants') : grants'[i] \in issued' \ DOMAIN oauth_states'
      BY <1>1, <2>1, <2>4, <2>7 DEF AccountInv, DeadStates
    <3> QED
      BY <1>1, <2>2, <2>5, <3>1 DEF AccountInv, DeadStates, Holding, In
  <2>10. HoldersOverlap'
    <3>1. \A d \in Clients : Holding(d)' => d # c /\ client'[d] = client[d] /\ Holding(d)
      BY <2>2, <2>5 DEF Holding
    <3>2. ASSUME NEW d \in Clients, Holding(d)', client'[d].state = s
          PROVE  s \in overlapped
      BY <1>1, <3>1, <3>2 DEF AccountInv, HoldersOverlap, Holding, In, s
    <3>3. ASSUME NEW d \in Clients, NEW i \in 1..Len(grants'),
                 Holding(d)', grants'[i] = client'[d].state
          PROVE  client'[d].state \in overlapped
      <4>1. CASE i = Len(grants) + 1
        BY <2>7, <3>2, <3>3, <4>1
      <4>2. CASE i # Len(grants) + 1
        <5>1. i \in 1..Len(grants)
          BY <2>1, <2>7, <4>2
        <5> QED
          BY <2>7, <3>1, <3>3, <5>1 DEF AccountInv, HoldersOverlap
      <4> QED
        BY <4>1, <4>2
    <3> QED
      BY <1>1, <3>1, <3>3 DEF AccountInv, HoldersOverlap
  <2>11. StateServesOnce'
    <3>1. ASSUME NEW i \in 1..Len(grants), grants[i] = s
          PROVE  s \in overlapped
      BY <1>1, <3>1 DEF AccountInv, HoldersOverlap, Holding, In, s
    <3>2. ASSUME NEW i \in 1..Len(grants'), NEW j \in 1..Len(grants'), i # j, grants'[i] = grants'[j]
          PROVE  grants'[i] \in overlapped
      <4>1. CASE i \in 1..Len(grants) /\ j \in 1..Len(grants)
        BY <2>7, <3>2, <4>1 DEF AccountInv, StateServesOnce
      <4>2. CASE i = Len(grants) + 1
        <5>1. j \in 1..Len(grants)
          BY <2>1, <2>7, <3>2, <4>2
        <5> QED
          BY <2>7, <3>1, <3>2, <4>2, <5>1
      <4>3. CASE j = Len(grants) + 1
        <5>1. i \in 1..Len(grants)
          BY <2>1, <2>7, <3>2, <4>3
        <5> QED
          BY <2>7, <3>1, <3>2, <4>3, <5>1
      <4> QED
        BY <2>1, <2>7, <4>1, <4>2, <4>3
    <3> QED
      BY <1>1, <3>2 DEF StateServesOnce
  <2> QED
    BY <1>3, <2>6, <2>8, <2>9, <2>10, <2>11 DEF AccountInv, TablesGoOn
<1> QED
  BY <1>4, <1>5 DEF Exchange

\* A step of one request that leaves the OAuth flows alone.
LEMMA QuietClient ==
    ASSUME AccountInv, UNCHANGED <<OAuth, requests>>, TablesGoOn,
           NEW c \in Clients,
           client' \in [Clients -> ClientRequest],
           \A d \in Clients : d # c => client'[d] = client[d],
           ~Holding(c)', ClientKnows(c)'
    PROVE  AccountInv' /\ TablesGoOn
<1>1. \A d \in Clients : ClientKnows(d)'
  BY ClientStep
<1>2. OAuthOK' /\ DeadStates' /\ HoldersOverlap' /\ StateServesOnce'
  BY SameFlow
<1> QED
  BY <1>1, <1>2 DEF AccountInv, ClientsOK, TablesGoOn

LEMMA QuietEnd ==
    ASSUME AccountInv, UNCHANGED <<OAuth, requests>>, TablesGoOn,
           NEW c \in Clients, End(c)
    PROVE  AccountInv' /\ TablesGoOn
<1>1. /\ client' \in [Clients -> ClientRequest] /\ client'[c].phase = "idle"
      /\ \A d \in Clients : d # c => client'[d] = client[d]
  BY EndMoves DEF AccountInv
<1>2. ~Holding(c)' /\ ClientKnows(c)'
  BY <1>1 DEF Holding, ClientKnows, In
<1> QED
  BY <1>1, <1>2, QuietClient

LEMMA QuietRead ==
    ASSUME AccountInv, UNCHANGED <<OAuth, requests>>, TablesGoOn,
           NEW c \in Clients, ~In(c, "idle"),
           NEW phase \in ClientPhases \ {"forget", "exchange"},
           NEW row \in GoogleToken \union UserSettings \union {None},
           phase = "refresh" => row \in GoogleToken /\ Held(client[c].user, row),
           phase \in {"reread", "update"} => user_settings'[client[c].user] # None,
           Read(c, phase, row)
    PROVE  AccountInv' /\ TablesGoOn
<1>1. /\ client' \in [Clients -> ClientRequest]
      /\ client'[c].phase = phase /\ client'[c].row = row /\ client'[c].user = client[c].user
      /\ \A d \in Clients : d # c => client'[d] = client[d]
  BY ReadMoves DEF AccountInv
<1>2. client[c].user \in Users
  BY DEF AccountInv, ClientKnows
<1>3. ASSUME phase = "refresh"
      PROVE  Held(client[c].user, client[c].row)'
  <2> DEFINE u == client[c].user
  <2>1. u \in Users /\ row \in GoogleToken /\ Held(u, row)
    BY <1>2, <1>3
  <2>2. /\ row.refresh # None /\ row.connect <= connects'[u]
        /\ google_tokens'[u] # None /\ row.connect = connects'[u] /\ u \notin overtaken'
             => row.refresh = latest'[u].refresh
    BY <2>1 DEF TablesGoOn, Held
  <2> QED
    BY <1>1, <2>2 DEF Held
<1>4. ~Holding(c)' /\ ClientKnows(c)'
  BY <1>1, <1>2, <1>3 DEF Holding, ClientKnows, In
<1> QED
  BY <1>1, <1>4, QuietClient

LEMMA QuietGo ==
    ASSUME AccountInv, UNCHANGED <<OAuth, requests>>, TablesGoOn,
           NEW c \in Clients, ~In(c, "idle"), NEW phase \in {"call", "audit", "reread"}, Go(c, phase),
           phase = "reread" => user_settings'[client[c].user] # None
    PROVE  AccountInv' /\ TablesGoOn
<1>1. /\ client' \in [Clients -> ClientRequest]
      /\ client'[c].phase = phase /\ client'[c].user = client[c].user
      /\ \A d \in Clients : d # c => client'[d] = client[d]
  BY GoMoves DEF AccountInv, ClientPhases
<1>2. client[c].user \in Users
  BY DEF AccountInv, ClientKnows
<1>3. ~Holding(c)' /\ ClientKnows(c)'
  BY <1>1, <1>2 DEF Holding, ClientKnows, In
<1> QED
  BY <1>1, <1>3, QuietClient

LEMMA SelectTokenStep ==
    ASSUME AccountInv, NEW c \in Clients, SelectToken(c)
    PROVE  AccountInv' /\ TablesGoOn
<1>1. /\ In(c, "select") /\ Read(c, "save", google_tokens[client[c].user])
      /\ UNCHANGED <<Tokens, user_settings, OAuth, requests, Log>>
  BY DEF SelectToken
<1>2. TablesGoOn
  BY <1>1, TablesStay
<1>3. ~In(c, "idle") /\ google_tokens[client[c].user] \in GoogleToken \union {None}
  BY <1>1 DEF AccountInv, TablesOK, ClientKnows, In
<1>4. "save" \in ClientPhases
  BY DEF ClientPhases
<1> QED
  BY <1>1, <1>2, <1>3, <1>4, QuietRead

\* A connect, or a disconnect, leaves every row read before it behind.
LEMMA ConnectIsCurrent ==
    ASSUME TablesOK, LatestConnectHolds, UNCHANGED user_settings, NEW u \in Users,
           NEW token \in GoogleToken, NEW connect \in Connect,
           token.connect = connects[u] + 1,
           token.refresh = connect.refresh, token.access = connect.access,
           google_tokens' = [google_tokens EXCEPT ![u] = token],
           latest' = [latest EXCEPT ![u] = connect],
           connects' = [connects EXCEPT ![u] = connects[u] + 1],
           overtaken' = overtaken \ {u}
    PROVE  TablesGoOn
<1>1. /\ google_tokens'[u] = token /\ token # None
      /\ latest'[u] = connect /\ connect # Gone
      /\ connects'[u] = connects[u] + 1 /\ connects[u] \in Nat
      /\ \A v \in Users \ {u} : /\ google_tokens'[v] = google_tokens[v]
                               /\ latest'[v] = latest[v] /\ connects'[v] = connects[v]
  BY MarkerAssumption DEF TablesOK
<1>2. TablesOK'
  BY <1>1 DEF TablesOK
<1>3. LatestConnectHolds'
  BY <1>1 DEF LatestConnectHolds
<1>4. ASSUME NEW v \in Users, NEW row \in GoogleToken, Held(v, row)
      PROVE  Held(v, row)'
  <2>1. row.connect \in Nat
    BY DEF GoogleToken
  <2>2. CASE v = u
    BY <1>1, <1>4, <2>1, <2>2 DEF Held
  <2>3. CASE v # u
    BY <1>1, <1>4, <2>3 DEF Held
  <2> QED
    BY <2>2, <2>3
<1> QED
  BY <1>2, <1>3, <1>4 DEF TablesGoOn

LEMMA HandleCallbackStep ==
    ASSUME AccountInv, NEW c \in Clients, handle_callback(c)
    PROVE  AccountInv' /\ TablesGoOn
<1> DEFINE u == client[c].user
           grant == client[c].grant
           token(kept) == [access |-> grant, refresh |-> kept, expired |-> FALSE,
                           connect |-> connects[u] + 1]
           connect(kept) == [access |-> grant, refresh |-> kept]
<1>1. /\ In(c, "save") /\ End(c) /\ UNCHANGED <<user_settings, OAuth, requests, Log>>
      /\ \/ \E kept \in 0..MaxGrants \union {None} :
              /\ google_tokens' = [google_tokens EXCEPT ![u] = token(kept)]
              /\ latest' = [latest EXCEPT ![u] = connect(kept)]
              /\ connects' = [connects EXCEPT ![u] = connects[u] + 1]
              /\ overtaken' = overtaken \ {u}
         \/ UNCHANGED Tokens
  <2>1. In(c, "save") /\ client[c] \in ClientRequest /\ u \in Users
    BY DEF handle_callback, In, AccountInv, ClientsOK, ClientKnows
  <2>2. grant \in 0..MaxGrants
    BY <2>1 DEF ClientRequest
  <2>3. google_tokens[u] # None => google_tokens[u].refresh \in 0..MaxGrants \union {None}
    BY <2>1 DEF AccountInv, TablesOK, GoogleToken
  <2>4. \A sent \in {None, grant} :
          (IF sent = None /\ google_tokens[u] # None THEN google_tokens[u].refresh ELSE sent)
             \in 0..MaxGrants \union {None}
    BY <2>2, <2>3
  <2> QED
    BY <2>4 DEF handle_callback
<1>2. u \in Users /\ grant \in 0..MaxGrants
  BY <1>1 DEF AccountInv, ClientsOK, ClientRequest, ClientKnows, In
<1>3. TablesGoOn
  <2>1. CASE UNCHANGED Tokens
    BY <1>1, <2>1, TablesStay
  <2>2. ASSUME NEW kept \in 0..MaxGrants \union {None},
               google_tokens' = [google_tokens EXCEPT ![u] = token(kept)],
               latest' = [latest EXCEPT ![u] = connect(kept)],
               connects' = [connects EXCEPT ![u] = connects[u] + 1],
               overtaken' = overtaken \ {u}
        PROVE  TablesGoOn
    <3>1. /\ token(kept) \in GoogleToken /\ connect(kept) \in Connect
          /\ token(kept).connect = connects[u] + 1
          /\ token(kept).refresh = connect(kept).refresh /\ token(kept).access = connect(kept).access
      BY <1>2 DEF GoogleToken, Connect, AccountInv, TablesOK
    <3> HIDE DEF token, connect, u
    <3> QED
      BY <1>1, <1>2, <2>2, <3>1, ConnectIsCurrent DEF AccountInv
  <2> QED
    BY <1>1, <2>1, <2>2
<1> QED
  BY <1>1, <1>3, QuietEnd

LEMMA DisconnectStep ==
    ASSUME AccountInv, NEW c \in Clients, NEW u \in Users, disconnect(c, u)
    PROVE  AccountInv' /\ TablesGoOn
<1>1. /\ google_tokens' = [google_tokens EXCEPT ![u] = None]
      /\ latest' = [latest EXCEPT ![u] = Gone]
      /\ overtaken' = overtaken \ {u}
      /\ UNCHANGED <<connects, user_settings, OAuth, client, Log>>
  BY DEF disconnect
<1>2. TablesGoOn
  <2>1. TablesOK' /\ LatestConnectHolds'
    BY <1>1 DEF AccountInv, TablesOK, LatestConnectHolds
  <2>2. ASSUME NEW v \in Users, NEW row \in GoogleToken, Held(v, row)
        PROVE  Held(v, row)'
    BY <1>1, <2>2 DEF AccountInv, TablesOK, Held
  <2> QED
    BY <1>1, <2>1, <2>2 DEF TablesGoOn
<1>3. ClientsOK' /\ \A d \in Clients : ClientKnows(d)'
  <2>1. requests' \in 0..MaxRequests
    BY GoogleAssumption DEF disconnect, AccountInv, ClientsOK
  <2> QED
    BY <1>1, <1>2, <2>1, ClientStays DEF AccountInv, ClientsOK
<1>4. OAuthOK' /\ DeadStates' /\ HoldersOverlap' /\ StateServesOnce'
  BY <1>1, SameFlow
<1> QED
  BY <1>2, <1>3, <1>4 DEF AccountInv, TablesGoOn

-----------------------------------------------------------------------------
(* Using the account                                                       *)

\* What is read now is of this connect.
LEMMA ReadIsHeld ==
    ASSUME TablesOK, LatestConnectHolds, NEW u \in Users, Stale(google_tokens[u])
    PROVE  google_tokens[u] \in GoogleToken /\ Held(u, google_tokens[u])
BY DEF TablesOK, LatestConnectHolds, Stale, Held

LEMMA LoadStep ==
    ASSUME AccountInv, NEW c \in Clients, LoadCredentials(c)
    PROVE  AccountInv' /\ TablesGoOn
<1> DEFINE row == google_tokens[client[c].user]
           phase == IF Stale(row) THEN "refresh" ELSE "call"
<1>1. /\ In(c, "load")
      /\ IF Missing(row) THEN End(c) ELSE Read(c, phase, row)
      /\ UNCHANGED <<Tokens, user_settings, OAuth, requests, Log>>
  BY DEF LoadCredentials
<1>2. TablesGoOn
  BY <1>1, TablesStay
<1>3. ~In(c, "idle") /\ row \in GoogleToken \union {None}
  BY <1>1 DEF AccountInv, TablesOK, ClientKnows, In
<1>4. /\ phase \in {"refresh", "call"} /\ phase \in ClientPhases \ {"forget", "exchange"}
      /\ phase = "refresh" => Stale(row)
  BY DEF ClientPhases
<1>5. client[c].user \in Users
  BY <1>1 DEF AccountInv, ClientKnows, In
<1>6. phase = "refresh" => row \in GoogleToken /\ Held(client[c].user, row)
  BY <1>4, <1>5, ReadIsHeld DEF AccountInv
<1> HIDE DEF row, phase
<1>7. CASE Missing(row)
  BY <1>1, <1>2, <1>7, QuietEnd
<1>8. CASE ~Missing(row)
  BY <1>1, <1>2, <1>3, <1>4, <1>6, <1>8, QuietRead
<1> QED
  BY <1>7, <1>8

LEMMA RefreshStep ==
    ASSUME AccountInv, NEW c \in Clients, RefreshCredentials(c)
    PROVE  AccountInv' /\ TablesGoOn
<1> DEFINE u == client[c].user
           row == client[c].row
<1>1. /\ In(c, "refresh")
      /\ End(c) \/ Go(c, "call")
      /\ Refreshed(u, row) \/ UNCHANGED <<google_tokens, overtaken>>
      /\ UNCHANGED <<latest, connects, user_settings, OAuth, requests, Log>>
  BY DEF RefreshCredentials
<1>2. ~In(c, "idle") /\ u \in Users /\ row \in GoogleToken /\ Held(u, row)
  BY <1>1 DEF AccountInv, ClientKnows, In
<1> HIDE DEF u, row
<1>3. TablesGoOn
  BY <1>1, <1>2, RefreshedIsCurrent DEF AccountInv
<1>4. CASE End(c)
  BY <1>1, <1>3, <1>4, QuietEnd
<1>5. CASE Go(c, "call")
  BY <1>1, <1>2, <1>3, <1>5, QuietGo
<1> QED
  BY <1>1, <1>4, <1>5

LEMMA CallStep ==
    ASSUME AccountInv, NEW c \in Clients, CallGoogle(c) \/ AuditEffect(c) \/ ClientDies(c)
    PROVE  AccountInv' /\ TablesGoOn
<1>1. /\ End(c) \/ (Go(c, "audit") /\ ~In(c, "idle"))
      /\ UNCHANGED <<Tokens, user_settings, OAuth, requests>>
  BY DEF CallGoogle, AuditEffect, ClientDies, In
<1>2. TablesGoOn
  BY <1>1, TablesStay
<1> QED
  BY <1>1, <1>2, QuietEnd, QuietGo

-----------------------------------------------------------------------------
(* Settings                                                                *)

LEMMA GetOrCreateStep ==
    ASSUME AccountInv, NEW c \in Clients, get_or_create(c)
    PROVE  AccountInv' /\ TablesGoOn
<1> DEFINE row == user_settings[client[c].user]
           phase == IF row = None THEN "create" ELSE "update"
<1>1. /\ In(c, "get_or_create") /\ Read(c, phase, row)
      /\ UNCHANGED <<Tokens, user_settings, OAuth, requests, Log>>
  BY DEF get_or_create
<1>2. TablesGoOn
  BY <1>1, TablesStay
<1>3. ~In(c, "idle") /\ row \in UserSettings \union {None}
  BY <1>1 DEF AccountInv, TablesOK, ClientKnows, In
<1>4. /\ phase \in ClientPhases \ {"forget", "exchange"} /\ phase \notin {"refresh", "reread"}
      /\ phase = "update" => row # None
  BY DEF ClientPhases
<1>5. phase \in {"reread", "update"} => user_settings'[client[c].user] # None
  BY <1>1, <1>4
<1> HIDE DEF row, phase
<1> QED
  BY <1>1, <1>2, <1>3, <1>4, <1>5, QuietRead

LEMMA DefaultsType ==
    Defaults \in UserSettings
BY GoogleAssumption DEF Defaults, UserSettings, Modes

LEMMA CreateStep ==
    ASSUME AccountInv, NEW c \in Clients, CreateDefaults(c)
    PROVE  AccountInv' /\ TablesGoOn
<1> DEFINE u == client[c].user
<1>1. /\ In(c, "create") /\ UNCHANGED <<Tokens, OAuth, requests, Log>>
      /\ \/ user_settings' = [user_settings EXCEPT ![u] = Defaults] /\ Go(c, "reread")
         \/ End(c) /\ UNCHANGED user_settings
  BY DEF CreateDefaults
<1>2. ~In(c, "idle") /\ u \in Users
  BY <1>1 DEF AccountInv, ClientKnows, In
<1>3. CASE End(c) /\ UNCHANGED user_settings
  <2>1. TablesGoOn
    BY <1>1, <1>3, TablesStay
  <2> QED
    BY <1>1, <1>3, <2>1, QuietEnd
<1>4. CASE user_settings' = [user_settings EXCEPT ![u] = Defaults] /\ Go(c, "reread")
  <2>1. /\ user_settings' \in [Users -> UserSettings \union {None}]
        /\ \A v \in Users : user_settings[v] # None => user_settings'[v] # None
        /\ user_settings'[u] # None
    BY <1>2, <1>4, DefaultsType, MarkerAssumption DEF AccountInv, TablesOK
  <2>2. TablesGoOn
    BY <1>1, <2>1, SameTables
  <2> QED
    BY <1>1, <1>2, <1>4, <2>1, <2>2, QuietGo
<1> QED
  BY <1>1, <1>3, <1>4

LEMMA ReadDefaultsStep ==
    ASSUME AccountInv, NEW c \in Clients, ReadDefaults(c)
    PROVE  AccountInv' /\ TablesGoOn
<1> DEFINE row == user_settings[client[c].user]
<1>1. /\ In(c, "reread") /\ Read(c, "update", row)
      /\ UNCHANGED <<Tokens, user_settings, OAuth, requests, Log>>
  BY DEF ReadDefaults
<1>2. TablesGoOn
  BY <1>1, TablesStay
<1>3. ~In(c, "idle") /\ row # None /\ row \in UserSettings \union {None}
  BY <1>1 DEF AccountInv, TablesOK, ClientKnows, In
<1>4. user_settings'[client[c].user] # None
  BY <1>1, <1>3
<1>5. "update" \in ClientPhases \ {"forget", "exchange"}
  BY DEF ClientPhases
<1> HIDE DEF row
<1> QED
  BY <1>1, <1>2, <1>3, <1>4, <1>5, QuietRead

\* No masked value and no marker gets into a row.
LEMMA PatchedType ==
    ASSUME NEW settings \in UserSettings, NEW patch \in Patches, NEW written,
           written \subseteq {f \in DOMAIN patch : Sets(f, patch[f])}
    PROVE  [f \in DOMAIN settings |-> IF f \in written THEN NewValue(f, patch[f]) ELSE settings[f]]
              \in UserSettings
<1> DEFINE value(f) == IF f \in written THEN NewValue(f, patch[f]) ELSE settings[f]
<1>1. UpdateSettingsRequest(patch)
  BY GoogleAssumption DEF Patches, NoPatch, UpdateSettingsRequest
<1>2. value("mode") \in Modes
  BY <1>1, MarkerAssumption DEF UpdateSettingsRequest, Sets, NewValue, UserSettings
<1>3. value("briefing_enabled") \in BOOLEAN
  BY <1>1, MarkerAssumption DEF UpdateSettingsRequest, Sets, NewValue, UserSettings
<1>4. value("briefing_hour") \in 0..(Hours - 1)
  BY <1>1, MarkerAssumption DEF UpdateSettingsRequest, Sets, NewValue, UserSettings
<1>5. value("api_key") \in Keys \union {None}
  BY <1>1 DEF UpdateSettingsRequest, Sets, NewValue, UserSettings
<1>6. DOMAIN settings = {"mode", "briefing_enabled", "briefing_hour", "api_key"}
  BY DEF UserSettings
<1> HIDE DEF value
<1>7. [f \in DOMAIN settings |-> value(f)] \in UserSettings
  BY <1>2, <1>3, <1>4, <1>5, <1>6 DEF UserSettings
<1> QED
  BY <1>7 DEF value

LEMMA UpdateStep ==
    ASSUME AccountInv, NEW c \in Clients, update(c)
    PROVE  AccountInv' /\ TablesGoOn
<1> DEFINE u == client[c].user
           patch == client[c].patch
           written == {f \in DOMAIN patch : /\ Sets(f, patch[f])
                                            /\ NewValue(f, patch[f]) # client[c].row[f]}
           row == [f \in DOMAIN user_settings[u] |->
                     IF f \in written THEN NewValue(f, patch[f]) ELSE user_settings[u][f]]
<1>1. /\ In(c, "update") /\ user_settings' = [user_settings EXCEPT ![u] = row]
      /\ Go(c, "audit") \/ End(c)
      /\ UNCHANGED <<Tokens, OAuth, requests, audits, excused>>
  BY DEF update
<1>2. ~In(c, "idle") /\ u \in Users /\ user_settings[u] # None
  BY <1>1 DEF AccountInv, ClientKnows, In
<1>3. patch \in Patches /\ user_settings[u] \in UserSettings
  BY <1>2 DEF AccountInv, ClientsOK, ClientRequest, TablesOK
<1>4. written \subseteq {f \in DOMAIN patch : Sets(f, patch[f])}
  OBVIOUS
<1> HIDE DEF written, patch, u
<1>5. row \in UserSettings
  BY <1>3, <1>4, PatchedType
<1> HIDE DEF row
<1>6. /\ user_settings' \in [Users -> UserSettings \union {None}]
      /\ \A v \in Users : user_settings[v] # None => user_settings'[v] # None
  BY <1>1, <1>2, <1>5, MarkerAssumption DEF AccountInv, TablesOK
<1>7. TablesGoOn
  BY <1>1, <1>6, SameTables
<1> QED
  BY <1>1, <1>2, <1>6, <1>7, QuietEnd, QuietGo

-----------------------------------------------------------------------------
(* Every step of the account                                               *)

LEMMA BeginStep ==
    ASSUME AccountInv, NEW c \in Clients, NEW r \in Requests, Begin(c, r)
    PROVE  AccountInv' /\ TablesGoOn
<1>1. r.user \in Users /\ r.patch \in Patches /\ NoPatch \in Patches
  BY GoogleAssumption DEF Patches
<1>2. ASSUME NEW phase \in {"load", "get_or_create"}, NEW patch \in Patches,
             Accept(c, phase, r.user, patch, None), UNCHANGED <<Tokens, user_settings, OAuth, Log>>
      PROVE  AccountInv' /\ TablesGoOn
  <2>1. /\ ClientsOK' /\ client'[c].phase = phase /\ client'[c].user \in Users
        /\ \A d \in Clients : d # c => client'[d] = client[d]
    BY <1>1, <1>2, AcceptMoves DEF AccountInv, ClientPhases
  <2>2. TablesGoOn
    BY <1>2, TablesStay
  <2>3. \A d \in Clients : ClientKnows(d)'
    <3>1. ClientKnows(c)'
      BY <2>1 DEF ClientKnows, In
    <3> QED
      BY <2>1, <2>2, <3>1, ClientStep
  <2>4. OAuthOK' /\ DeadStates' /\ HoldersOverlap' /\ StateServesOnce'
    BY <1>2, <2>1, SameFlow DEF Holding
  <2> QED
    BY <2>1, <2>2, <2>3, <2>4 DEF AccountInv, TablesGoOn
<1> QED
  BY <1>1, <1>2, CallbackStep, DisconnectStep DEF Begin

LEMMA ServeStep ==
    ASSUME AccountInv, NEW c \in Clients, Serve(c)
    PROVE  AccountInv' /\ TablesGoOn
BY ForgetStateStep, ExchangeStep, SelectTokenStep, HandleCallbackStep, LoadStep, RefreshStep,
   CallStep, GetOrCreateStep, CreateStep, ReadDefaultsStep, UpdateStep DEF Serve

LEMMA UnchangedAccount ==
    ASSUME AccountInv, UNCHANGED <<Tokens, user_settings, OAuth, client, requests>>
    PROVE  AccountInv' /\ TablesGoOn
<1>1. TablesGoOn
  BY TablesStay
<1>2. OAuthOK' /\ DeadStates' /\ HoldersOverlap' /\ StateServesOnce'
  BY SameFlow
<1>3. ClientsOK' /\ \A c \in Clients : ClientKnows(c)'
  BY <1>1, ClientStays DEF AccountInv, ClientsOK
<1> QED
  BY <1>1, <1>2, <1>3 DEF AccountInv, TablesGoOn

LEMMA AccountStep ==
    ASSUME AccountInv, [AccountNext]_accountVars
    PROVE  AccountInv' /\ TablesGoOn
<1>1. CASE UNCHANGED accountVars
  BY <1>1, UnchangedAccount DEF accountVars
<1>2. CASE AccountNext
  <2>1. ASSUME NEW u \in Users, google_auth_url(u) \/ TokenExpires(u)
        PROVE  AccountInv' /\ TablesGoOn
    BY <2>1, UrlStep, ExpiryIsCurrent
  <2>2. ASSUME NEW s \in States, StateExpires(s)
        PROVE  AccountInv' /\ TablesGoOn
    BY <2>2, StateExpiresStep
  <2>3. ASSUME NEW c \in Clients, (\E r \in Requests : Begin(c, r)) \/ Serve(c) \/ ClientDies(c)
        PROVE  AccountInv' /\ TablesGoOn
    BY <2>3, BeginStep, ServeStep, CallStep
  <2> QED
    BY <1>2, <2>1, <2>2, <2>3 DEF AccountNext
<1> QED
  BY <1>1, <1>2

LEMMA AccountStart ==
    ASSUME AccountInit
    PROVE  AccountInv
<1>1. \A c \in Clients : client[c].phase = "idle"
  BY IdleIsRequest DEF AccountInit
<1>2. TablesOK /\ LatestConnectHolds
  <2> DEFINE token == [access |-> 0, refresh |-> 0, expired |-> FALSE, connect |-> 0]
             connect == [access |-> 0, refresh |-> 0]
  <2>1. /\ token \in GoogleToken /\ token.connect = 0
        /\ connect \in Connect /\ token.refresh = connect.refresh /\ token.access = connect.access
    BY GoogleAssumption DEF GoogleToken, Connect
  <2>2. google_tokens = [u \in Users |-> IF u \in Connected THEN token ELSE None]
        /\ latest = [u \in Users |-> IF u \in Connected THEN connect ELSE Gone]
        /\ connects = [u \in Users |-> 0]
        /\ user_settings \in [Users -> {None, Defaults}]
    BY DEF AccountInit
  <2> HIDE DEF token, connect
  <2>3. connect # Gone /\ token # None
    BY <2>1, MarkerAssumption
  <2> QED
    BY <2>1, <2>2, <2>3, DefaultsType DEF TablesOK, LatestConnectHolds
<1>3. OAuthOK
  BY GoogleAssumption DEF AccountInit, OAuthOK
<1>4. ClientsOK
  BY IdleIsRequest, GoogleAssumption DEF AccountInit, ClientsOK
<1>5. \A c \in Clients : ClientKnows(c)
  BY <1>1 DEF ClientKnows, In
<1>6. Len(grants) = 0
  BY DEF AccountInit
<1>7. DeadStates /\ HoldersOverlap /\ StateServesOnce
  BY <1>1, <1>6 DEF DeadStates, HoldersOverlap, StateServesOnce, Holding, In
<1> QED
  BY <1>2, <1>3, <1>4, <1>5, <1>7 DEF AccountInv

LEMMA AccountInvTypes ==
    ASSUME AccountInv
    PROVE  AccountIsCurrent
<1>1. ASSUME NEW c \in Clients
      PROVE  DOMAIN client[c] = DOMAIN IdleClient
  <2>1. client[c] \in ClientRequest
    BY DEF AccountInv, ClientsOK
  <2>2. DOMAIN client[c] = {"phase", "id", "user", "patch", "state", "grant", "row"}
    BY <2>1 DEF ClientRequest
  <2> QED
    BY <2>2 DEF IdleClient
<1>2. AccountTypeOK
  BY <1>1 DEF AccountInv, TablesOK, OAuthOK, ClientsOK, AccountTypeOK
<1> QED
  BY <1>2 DEF AccountInv, AccountIsCurrent

-----------------------------------------------------------------------------
(* What is done outside and what is on record                              *)

\* A step of one request that does not leave its audit entry behind.
LEMMA StillAccounted ==
    ASSUME AuditedAreDone, NEW c \in Clients,
           \A d \in Clients : d # c => client'[d] = client[d],
           effects \subseteq effects', audits \subseteq audits', excused \subseteq excused',
           audits' \subseteq effects',
           In(c, "audit") => Effect(c) \in audits' \union excused' \union BeingAudited',
           In(c, "audit")' => Effect(c)' \in effects',
           \A e \in effects' \ effects : e \in audits' \union excused' \union BeingAudited'
    PROVE  AuditedAreDone' /\ Unaccounted' \subseteq Unaccounted
<1>1. AuditedAreDone'
  <2> SUFFICES ASSUME NEW d \in Clients, d # c, In(d, "audit")'
               PROVE  Effect(d)' \in effects'
    BY DEF AuditedAreDone
  <2> QED
    BY DEF AuditedAreDone, In, Effect
<1>2. Unaccounted' \subseteq Unaccounted
  <2> SUFFICES ASSUME NEW e \in Unaccounted', e \notin Unaccounted
               PROVE  FALSE
    OBVIOUS
  <2>1. e \in effects /\ e \notin audits /\ e \notin excused
    BY DEF Unaccounted
  <2>2. PICK d \in Clients : In(d, "audit") /\ e = Effect(d)
    BY <2>1 DEF Unaccounted, BeingAudited
  <2>3. d # c
    BY <2>2 DEF Unaccounted
  <2>4. e \in BeingAudited'
    BY <2>2, <2>3 DEF BeingAudited, In, Effect
  <2> QED
    BY <2>4 DEF Unaccounted
<1> QED
  BY <1>1, <1>2

LEMMA SameLog ==
    ASSUME AuditedAreDone, UNCHANGED Log,
           \A c \in Clients : In(c, "audit") => client'[c] = client[c],
           \A c \in Clients : In(c, "audit")' => In(c, "audit")
    PROVE  AuditedAreDone' /\ Unaccounted' \subseteq Unaccounted
<1>1. AuditedAreDone'
  BY DEF AuditedAreDone, Log, In, Effect
<1>2. BeingAudited \subseteq BeingAudited'
  BY DEF BeingAudited, In, Effect
<1> QED
  BY <1>1, <1>2 DEF Unaccounted, Log

\* A request that neither writes an entry nor is about to.
LEMMA QuietLog ==
    ASSUME AccountInv, AuditedAreDone, UNCHANGED Log, NEW c \in Clients, ~In(c, "audit"),
           \/ End(c)
           \/ \E phase \in ClientPhases \ {"audit"} :
                \/ Go(c, phase)
                \/ \E row \in GoogleToken \union UserSettings \union {None} : Read(c, phase, row)
                \/ \E u \in Users, patch \in Patches, s \in States \union {None} :
                     Accept(c, phase, u, patch, s)
           \/ UNCHANGED client
    PROVE  AuditedAreDone' /\ Unaccounted' \subseteq Unaccounted
<1>1. ~In(c, "audit")' /\ \A d \in Clients : d # c => client'[d] = client[d]
  <2>1. CASE End(c)
    BY <2>1, EndMoves DEF AccountInv, In
  <2>2. ASSUME NEW phase \in ClientPhases \ {"audit"}, Go(c, phase)
        PROVE  ~In(c, "audit")' /\ \A d \in Clients : d # c => client'[d] = client[d]
    BY <2>2, GoMoves DEF AccountInv, In
  <2>3. ASSUME NEW phase \in ClientPhases \ {"audit"},
               NEW row \in GoogleToken \union UserSettings \union {None}, Read(c, phase, row)
        PROVE  ~In(c, "audit")' /\ \A d \in Clients : d # c => client'[d] = client[d]
    BY <2>3, ReadMoves DEF AccountInv, In
  <2>4. ASSUME NEW phase \in ClientPhases \ {"audit"}, NEW u \in Users, NEW patch \in Patches,
               NEW s \in States \union {None}, Accept(c, phase, u, patch, s)
        PROVE  ~In(c, "audit")' /\ \A d \in Clients : d # c => client'[d] = client[d]
    BY <2>4, AcceptMoves DEF AccountInv, In
  <2>5. CASE UNCHANGED client
    BY <2>5 DEF In
  <2> QED
    BY <2>1, <2>2, <2>3, <2>4, <2>5
<1> QED
  BY <1>1, SameLog DEF In

LEMMA BeginLog ==
    ASSUME AccountInv, AuditedAreDone, NEW c \in Clients, NEW r \in Requests, Begin(c, r)
    PROVE  AuditedAreDone' /\ Unaccounted' \subseteq Unaccounted
<1>1. r.user \in Users /\ r.patch \in Patches /\ NoPatch \in Patches
  BY GoogleAssumption DEF Patches
<1>2. \A phase \in {"forget", "load", "get_or_create"} : phase \in ClientPhases \ {"audit"}
  BY DEF ClientPhases
<1>3. ASSUME NEW s \in States, google_callback(c, s)
      PROVE  AuditedAreDone' /\ Unaccounted' \subseteq Unaccounted
  <2>1. oauth_states[s] \in Users
    BY <1>3 DEF google_callback, AccountInv, OAuthOK
  <2> QED
    BY <1>1, <1>2, <1>3, <2>1, QuietLog DEF google_callback, Accept, In
<1>4. CASE disconnect(c, r.user)
  BY <1>4, QuietLog DEF disconnect, In
<1>5. ASSUME NEW phase \in {"load", "get_or_create"}, NEW patch \in Patches,
             Accept(c, phase, r.user, patch, None), UNCHANGED Log
      PROVE  AuditedAreDone' /\ Unaccounted' \subseteq Unaccounted
  <2>1. ~In(c, "audit")
    BY <1>5 DEF Accept, In
  <2> QED
    BY <1>1, <1>2, <1>5, <2>1, QuietLog
<1> QED
  BY <1>1, <1>3, <1>4, <1>5 DEF Begin

LEMMA QuietServeLog ==
    ASSUME AccountInv, AuditedAreDone, NEW c \in Clients,
           \/ ForgetState(c) \/ Exchange(c) \/ SelectToken(c) \/ handle_callback(c)
           \/ LoadCredentials(c) \/ RefreshCredentials(c) \/ get_or_create(c)
           \/ CreateDefaults(c) \/ ReadDefaults(c)
    PROVE  AuditedAreDone' /\ Unaccounted' \subseteq Unaccounted
<1>1. \A phase \in {"exchange", "save", "refresh", "call", "create", "reread", "update"} :
        phase \in ClientPhases \ {"audit"}
  BY DEF ClientPhases
<1>2. In(c, "idle") \/ client[c].user \in Users
  BY DEF AccountInv, ClientKnows
<1>3. CASE ForgetState(c)
  BY <1>1, <1>3, QuietLog DEF ForgetState, In
<1>4. CASE Exchange(c)
  <2>1. CASE End(c)
    BY <1>4, <2>1, QuietLog DEF Exchange, In
  <2>2. CASE client' = [client EXCEPT ![c].phase = "select", ![c].grant = Len(grants) + 1]
    <3>1. ~In(c, "audit") /\ ~In(c, "audit")' /\ \A d \in Clients : d # c => client'[d] = client[d]
      BY <1>4, <2>2 DEF Exchange, In, AccountInv, ClientsOK, ClientRequest
    <3> QED
      BY <1>4, <3>1, SameLog DEF Exchange, In
  <2> QED
    BY <1>4, <2>1, <2>2 DEF Exchange
<1>5. CASE SelectToken(c)
  <2>1. google_tokens[client[c].user] \in GoogleToken \union {None}
    BY <1>2, <1>5 DEF SelectToken, In, AccountInv, TablesOK
  <2> QED
    BY <1>1, <1>5, <2>1, QuietLog DEF SelectToken, In
<1>6. CASE handle_callback(c)
  BY <1>6, QuietLog DEF handle_callback, In
<1>7. CASE LoadCredentials(c)
  <2> DEFINE row == google_tokens[client[c].user]
  <2>1. row \in GoogleToken \union {None}
    BY <1>2, <1>7 DEF LoadCredentials, In, AccountInv, TablesOK
  <2>2. End(c) \/ Read(c, "refresh", row) \/ Read(c, "call", row)
    BY <1>7 DEF LoadCredentials
  <2> QED
    BY <1>1, <1>7, <2>1, <2>2, QuietLog DEF LoadCredentials, In
<1>8. CASE RefreshCredentials(c)
  <2>1. End(c) \/ Go(c, "call")
    BY <1>8 DEF RefreshCredentials
  <2> QED
    BY <1>1, <1>8, <2>1, QuietLog DEF RefreshCredentials, In
<1>9. CASE get_or_create(c)
  <2> DEFINE row == user_settings[client[c].user]
  <2>1. row \in UserSettings \union {None}
    BY <1>2, <1>9 DEF get_or_create, In, AccountInv, TablesOK
  <2>2. Read(c, "create", row) \/ Read(c, "update", row)
    BY <1>9 DEF get_or_create
  <2> QED
    BY <1>1, <1>9, <2>1, <2>2, QuietLog DEF get_or_create, In
<1>10. CASE CreateDefaults(c)
  <2>1. End(c) \/ Go(c, "reread")
    BY <1>10 DEF CreateDefaults
  <2> QED
    BY <1>1, <1>10, <2>1, QuietLog DEF CreateDefaults, In
<1>11. CASE ReadDefaults(c)
  <2>1. user_settings[client[c].user] \in UserSettings \union {None}
    BY <1>2, <1>11 DEF ReadDefaults, In, AccountInv, TablesOK
  <2> QED
    BY <1>1, <1>11, <2>1, QuietLog DEF ReadDefaults, In
<1> QED
  BY <1>3, <1>4, <1>5, <1>6, <1>7, <1>8, <1>9, <1>10, <1>11

\* An effect and its entry: whatever a request does outside is about to be
\* recorded, is recorded, or is excused.
LEMMA EffectLog ==
    ASSUME AccountInv, AuditedAreDone, NEW c \in Clients,
           CallGoogle(c) \/ AuditEffect(c) \/ update(c) \/ ClientDies(c)
    PROVE  AuditedAreDone' /\ Unaccounted' \subseteq Unaccounted
<1>1. "audit" \in ClientPhases
  BY DEF ClientPhases
<1>2. CASE Go(c, "audit") /\ ~In(c, "audit") /\ effects' = effects \union {Effect(c)}
           /\ UNCHANGED <<audits, excused>>
  <2>1. /\ In(c, "audit")' /\ Effect(c)' = Effect(c)
        /\ \A d \in Clients : d # c => client'[d] = client[d]
    BY <1>1, <1>2, GoMoves DEF AccountInv, In, Effect
  <2>2. Effect(c)' \in BeingAudited'
    BY <2>1 DEF BeingAudited
  <2>3. audits' \subseteq effects'
    BY <1>2 DEF AuditedAreDone
  <2> QED
    BY <1>2, <2>1, <2>2, <2>3, StillAccounted
<1>3. CASE End(c) /\ UNCHANGED audits
           /\ \/ ~In(c, "audit") /\ UNCHANGED <<effects, excused>>
              \/ /\ effects \subseteq effects' /\ effects' \subseteq effects \union {Effect(c)}
                 /\ excused' = excused \union {e \in effects' : e = Effect(c)}
  <2>1. ~In(c, "audit")' /\ \A d \in Clients : d # c => client'[d] = client[d]
    BY <1>3, EndMoves DEF AccountInv, In
  <2>2. audits' \subseteq effects'
    BY <1>3 DEF AuditedAreDone
  <2>3. In(c, "audit") => Effect(c) \in excused'
    BY <1>3 DEF AuditedAreDone
  <2> QED
    BY <1>3, <2>1, <2>2, <2>3, StillAccounted
<1>4. CASE AuditEffect(c)
  <2>1. End(c) /\ In(c, "audit") /\ audits' = audits \union {Effect(c)} /\ UNCHANGED <<effects, excused>>
    BY <1>4 DEF AuditEffect
  <2>2. ~In(c, "audit")' /\ \A d \in Clients : d # c => client'[d] = client[d]
    BY <2>1, EndMoves DEF AccountInv, In
  <2>3. audits' \subseteq effects'
    BY <2>1 DEF AuditedAreDone
  <2> QED
    BY <2>1, <2>2, <2>3, StillAccounted
<1>5. CASE CallGoogle(c)
  BY <1>2, <1>3, <1>5 DEF CallGoogle, In
<1>6. CASE update(c)
  <2>1. /\ In(c, "update") /\ UNCHANGED <<audits, excused>>
        /\ \/ Go(c, "audit") /\ effects' = effects \union {Effect(c)}
           \/ End(c) /\ UNCHANGED effects
    BY <1>6 DEF update
  <2> QED
    BY <1>2, <1>3, <2>1 DEF In
<1>7. CASE ClientDies(c)
  BY <1>3, <1>7 DEF ClientDies
<1> QED
  BY <1>4, <1>5, <1>6, <1>7

LEMMA AccountLog ==
    ASSUME AccountInv, AuditedAreDone, [AccountNext]_accountVars
    PROVE  AuditedAreDone' /\ Unaccounted' \subseteq Unaccounted
<1>1. ASSUME UNCHANGED <<client, Log>>
      PROVE  AuditedAreDone' /\ Unaccounted' \subseteq Unaccounted
  BY <1>1, SameLog DEF In
<1>2. ASSUME NEW u \in Users, google_auth_url(u) \/ TokenExpires(u)
      PROVE  AuditedAreDone' /\ Unaccounted' \subseteq Unaccounted
  BY <1>1, <1>2 DEF google_auth_url, TokenExpires
<1>3. ASSUME NEW s \in States, StateExpires(s)
      PROVE  AuditedAreDone' /\ Unaccounted' \subseteq Unaccounted
  BY <1>1, <1>3 DEF StateExpires
<1>4. ASSUME NEW c \in Clients, (\E r \in Requests : Begin(c, r)) \/ Serve(c) \/ ClientDies(c)
      PROVE  AuditedAreDone' /\ Unaccounted' \subseteq Unaccounted
  BY <1>4, BeginLog, QuietServeLog, EffectLog DEF Serve
<1> QED
  BY <1>1, <1>2, <1>3, <1>4 DEF AccountNext, accountVars

-----------------------------------------------------------------------------
(* The theorems about the account                                          *)

LEMMA AccountInvariant == AccountSpec => [](AccountInv /\ AuditedAreDone /\ Unaccounted = {})
<1>1. AccountInit => AccountInv /\ AuditedAreDone /\ Unaccounted = {}
  <2> SUFFICES ASSUME AccountInit
               PROVE  AuditedAreDone /\ Unaccounted = {}
    BY AccountStart
  <2>1. \A c \in Clients : ~In(c, "audit")
    BY IdleIsRequest DEF AccountInit, In
  <2> QED
    BY <2>1 DEF AccountInit, AuditedAreDone, Unaccounted
<1>2. AccountInv /\ AuditedAreDone /\ Unaccounted = {} /\ [AccountNext]_accountVars
        => (AccountInv /\ AuditedAreDone /\ Unaccounted = {})'
  BY AccountStep, AccountLog
<1> QED
  BY <1>1, <1>2, PTL DEF AccountSpec

\* The stored tokens are those of the last connect, the access token perhaps
\* refreshed, unless a refresh that had read an older connect's row was written
\* over them; they are gone after a disconnect, whatever refreshes are in flight;
\* and no masked value becomes a key (google_oauth.py, settings_service.py).
THEOREM ConnectionIsCurrent == AccountSpec => []AccountIsCurrent
<1>1. AccountInv => AccountIsCurrent
  BY AccountInvTypes
<1> QED
  BY <1>1, AccountInvariant, PTL

\* A state serves one exchange unless two callbacks held it at once (the GET
\* and the DELETE of google_callback are two commands).
THEOREM StatesServeOnce == AccountSpec => []StateServesOnce
<1>1. AccountInv => StateServesOnce
  BY DEF AccountInv
<1> QED
  BY <1>1, AccountInvariant, PTL

\* What is done outside has an audit entry, is about to get one, or belongs to
\* a request that died or did not learn of it; nothing else has an entry.
THEOREM EffectsAreAudited == AccountSpec => []EffectsAudited
<1>1. AuditedAreDone /\ Unaccounted = {} => EffectsAudited
  BY DEF AuditedAreDone, Unaccounted, EffectsAudited
<1> QED
  BY <1>1, AccountInvariant, PTL

-----------------------------------------------------------------------------
(* The inductive invariant of the briefings                                *)

RunPhases == {"idle", "next", "check", "calendar", "calendar_refresh", "mail", "mail_refresh",
              "local", "save", "audit"}

RefreshPhases == {"calendar_refresh", "mail_refresh"}

RunType ==
    [phase : RunPhases, rest : SUBSET Users, date : Dates, user : Users \union {None},
     row : GoogleToken \union {None}, local : BOOLEAN, broken : BOOLEAN]

\* What the phase of a run says of the user it is at: a session that is not
\* broken has told what there is to tell when the briefing is saved.
RunKnows(x) ==
    /\ x.phase \notin {"idle", "next"} => x.user \in Users
    /\ x.phase \in RefreshPhases => x.row \in GoogleToken
    /\ x.phase = "save" /\ ~x.broken => (x.local <=> x.user \in Facts)

\* A section that refreshes the tokens holds the row it has read.
RowHeld(w) == run[w].phase \in RefreshPhases => Held(run[w].user, run[w].row)

EntriesDue == {Entry(w) : w \in {v \in Runners : Phase(v, "audit")}}

HeartTypes ==
    /\ clock \in 0..MaxClock /\ queued \in 0..(clock + 1)
    /\ run \in [Runners -> RunType]
    /\ briefings \subseteq Briefing
    /\ lost \subseteq {"source", "beaten", "outrun", "died"}

HeartInv ==
    /\ AccountInv /\ AuditedAreDone
    /\ HeartTypes
    /\ \A w \in Runners : RunKnows(run[w]) /\ RowHeld(w)
    /\ EntriesDue \subseteq effects
    /\ RestIsWritten
    /\ Unaccounted \subseteq EntriesDue

LEMMA DayInRange ==
    ASSUME NEW a \in Nat, NEW b \in Nat, a <= b, NEW n \in Nat \ {0}
    PROVE  a \div n \in 0..(b \div n)
<1> DEFINE p == a \div n
           q == b \div n
<1>1. /\ p \in Nat /\ q \in Nat
      /\ a = n * p + (a % n) /\ b = n * q + (b % n)
      /\ a % n \in 0..(n - 1) /\ b % n \in 0..(n - 1)
  OBVIOUS
<1> HIDE DEF p, q
<1>2. p <= q
  <2> SUFFICES ASSUME p >= q + 1
               PROVE  FALSE
    BY <1>1
  <2>1. PICK k \in Nat : p = q + 1 + k
    BY <1>1
  <2>2. n * p = n * q + n + n * k /\ n * k \in Nat /\ n * q \in Nat
    BY <1>1, <2>1
  <2> QED
    BY <1>1, <2>2
<1> QED
  BY <1>1, <1>2 DEF p, q

LEMMA IdleRunType ==
    IdleRun \in RunType /\ IdleRun.phase = "idle" /\ RunKnows(IdleRun)
<1>1. 0 \in Dates
  BY DayInRange, HeartbeatAssumption, GoogleAssumption DEF Dates
<1> QED
  BY <1>1 DEF IdleRun, RunType, RunPhases, RunKnows, RefreshPhases

LEMMA RunMoves ==
    ASSUME HeartTypes, NEW w \in Runners, NEW x \in RunType, Step(w, x)
    PROVE  /\ run' \in [Runners -> RunType] /\ run'[w] = x
           /\ \A v \in Runners : v # w => run'[v] = run[v]
BY DEF HeartTypes, Step

\* What a section has read is held on to, whatever the tables do meanwhile.
LEMMA RowsStay ==
    ASSUME HeartInv, TablesGoOn, NEW w \in Runners, NEW x \in RunType, RunKnows(x),
           run'[w] = x, x.phase \in RefreshPhases => Held(x.user, x.row)
    PROVE  RowHeld(w)'
<1> SUFFICES ASSUME x.phase \in RefreshPhases
             PROVE  Held(run[w].user, run[w].row)'
  BY DEF RowHeld
<1>1. x.user \in Users /\ x.row \in GoogleToken /\ Held(x.user, x.row)
  BY DEF RunKnows, RefreshPhases
<1>2. /\ x.row.refresh # None /\ x.row.connect <= connects'[x.user]
      /\ google_tokens'[x.user] # None /\ x.row.connect = connects'[x.user] /\ x.user \notin overtaken'
           => x.row.refresh = latest'[x.user].refresh
  BY <1>1 DEF TablesGoOn, Held
<1> QED
  BY <1>2 DEF Held

LEMMA SameRowsStay ==
    ASSUME HeartInv, TablesGoOn, NEW w \in Runners, run'[w] = run[w]
    PROVE  RowHeld(w)'
<1>1. run[w] \in RunType /\ RunKnows(run[w]) /\ RowHeld(w)
  BY DEF HeartInv, HeartTypes
<1> QED
  BY <1>1, RowsStay DEF RowHeld

\* A step of a run that neither writes a briefing nor an entry.
LEMMA QuietRun ==
    ASSUME HeartInv, AccountInv', TablesGoOn, UNCHANGED <<client, Log, briefings>>,
           clock' \in 0..MaxClock, queued' \in 0..(clock' + 1),
           lost' \subseteq {"source", "beaten", "outrun", "died"},
           NEW w \in Runners, NEW x \in RunType, Step(w, x), RunKnows(x),
           x.phase \in RefreshPhases => Held(x.user, x.row),
           ~Phase(w, "audit"), x.phase # "audit"
    PROVE  HeartInv'
<1>1. /\ run' \in [Runners -> RunType] /\ run'[w] = x
      /\ \A v \in Runners : v # w => run'[v] = run[v]
  BY RunMoves DEF HeartInv
<1>2. HeartTypes'
  BY <1>1 DEF HeartInv, HeartTypes
<1>3. EntriesDue' = EntriesDue
  BY <1>1 DEF EntriesDue, Phase, Entry
<1>4. AuditedAreDone' /\ Unaccounted' = Unaccounted
  BY DEF HeartInv, Log, AuditedAreDone, Unaccounted, BeingAudited, In, Effect
<1>5. \A v \in Runners : RunKnows(run'[v]) /\ RowHeld(v)'
  BY <1>1, RowsStay, SameRowsStay DEF HeartInv
<1>6. RestIsWritten' /\ UNCHANGED effects
  BY DEF HeartInv, RestIsWritten, Log
<1> QED
  BY <1>2, <1>3, <1>4, <1>5, <1>6 DEF HeartInv, RunKnows

-----------------------------------------------------------------------------
(* Runs and their users                                                    *)

LEMMA TodayIsDate ==
    ASSUME HeartInv
    PROVE  Today \in Dates
BY DayInRange, HeartbeatAssumption, GoogleAssumption DEF HeartInv, HeartTypes, Today, Dates

LEMMA RunAllStep ==
    ASSUME HeartInv, NEW w \in Runners, run_all(w)
    PROVE  HeartInv'
<1> DEFINE x == [IdleRun EXCEPT !.phase = "next", !.rest = user_ids_wanting_a_briefing, !.date = Today]
<1>1. x \in RunType /\ x.phase = "next"
  BY IdleRunType, TodayIsDate DEF RunType, RunPhases, user_ids_wanting_a_briefing
<1>2. /\ Phase(w, "idle") /\ Step(w, x) /\ UNCHANGED <<accountVars, clock, briefings, lost>>
      /\ (queued > 0 /\ queued' = queued - 1) \/ UNCHANGED queued
  BY DEF run_all
<1> HIDE DEF x
<1>3. RunKnows(x) /\ ~Phase(w, "audit") /\ x.phase \notin RefreshPhases
  BY <1>1, <1>2 DEF RunKnows, Phase, RefreshPhases
<1>4. AccountInv' /\ TablesGoOn
  BY <1>2, UnchangedAccount DEF accountVars, HeartInv
<1>5. /\ clock' \in 0..MaxClock /\ queued' \in 0..(clock' + 1)
      /\ lost' \subseteq {"source", "beaten", "outrun", "died"}
  BY <1>2, HeartbeatAssumption DEF HeartInv, HeartTypes
<1> QED
  BY <1>1, <1>2, <1>3, <1>4, <1>5, QuietRun DEF accountVars

\* A run goes on to its next phase, and the account stays as it is.
LEMMA RunGoesOn ==
    ASSUME HeartInv, NEW w \in Runners, NEW x \in RunType, Step(w, x), RunKnows(x),
           x.phase \in RefreshPhases => Held(x.user, x.row),
           ~Phase(w, "audit"), x.phase # "audit",
           UNCHANGED <<accountVars, clock, queued, redelivered, briefings, lost>>
    PROVE  HeartInv'
<1>1. AccountInv' /\ TablesGoOn
  BY UnchangedAccount DEF accountVars, HeartInv
<1>2. /\ clock' \in 0..MaxClock /\ queued' \in 0..(clock' + 1)
      /\ lost' \subseteq {"source", "beaten", "outrun", "died"}
  BY DEF HeartInv, HeartTypes
<1> QED
  BY <1>1, <1>2, QuietRun DEF accountVars

LEMMA NextUserStep ==
    ASSUME HeartInv, NEW w \in Runners, NextUser(w)
    PROVE  HeartInv'
<1>1. /\ Phase(w, "next") /\ run[w] \in RunType
      /\ UNCHANGED <<accountVars, clock, queued, redelivered, briefings, lost>>
  BY DEF NextUser, HeartInv, HeartTypes
<1>2. CASE Step(w, IdleRun)
  BY <1>1, <1>2, IdleRunType, RunGoesOn DEF Phase, RefreshPhases
<1>3. ASSUME NEW u \in run[w].rest,
             Step(w, [run[w] EXCEPT !.phase = "check", !.user = u, !.rest = @ \ {u},
                                    !.local = FALSE, !.broken = FALSE])
      PROVE  HeartInv'
  <2> DEFINE x == [run[w] EXCEPT !.phase = "check", !.user = u, !.rest = run[w].rest \ {u},
                                 !.local = FALSE, !.broken = FALSE]
  <2>1. x \in RunType /\ x.phase = "check" /\ x.user \in Users
    BY <1>1 DEF RunType, RunPhases
  <2>2. Step(w, x)
    BY <1>3
  <2> HIDE DEF x
  <2>3. RunKnows(x)
    BY <2>1 DEF RunKnows, RefreshPhases
  <2> QED
    BY <1>1, <2>1, <2>2, <2>3, RunGoesOn DEF Phase, RefreshPhases
<1> QED
  BY <1>2, <1>3 DEF NextUser

LEMMA GetForDateStep ==
    ASSUME HeartInv, NEW w \in Runners, get_for_date(w)
    PROVE  HeartInv'
<1> DEFINE x == [run[w] EXCEPT !.phase = IF Exists(w) THEN "next" ELSE "calendar"]
<1>1. /\ Phase(w, "check") /\ run[w] \in RunType /\ run[w].user \in Users /\ Step(w, x)
      /\ UNCHANGED <<accountVars, clock, queued, redelivered, briefings, lost>>
  BY DEF get_for_date, HeartInv, HeartTypes, RunKnows, Phase
<1>2. x \in RunType /\ x.phase \in {"next", "calendar"} /\ x.user \in Users
  BY <1>1 DEF RunType, RunPhases
<1> HIDE DEF x
<1>3. RunKnows(x)
  BY <1>2 DEF RunKnows, RefreshPhases
<1> QED
  BY <1>1, <1>2, <1>3, RunGoesOn DEF Phase, RefreshPhases

LEMMA SectionEndsType ==
    ASSUME NEW r \in RunType, NEW broken \in BOOLEAN
    PROVE  LET x == [r EXCEPT !.phase = AfterSection(@), !.row = None, !.broken = broken]
           IN x \in RunType /\ x.phase \in {"mail", "local"} /\ x.user = r.user
<1>1. AfterSection(r.phase) \in {"mail", "local"}
  BY DEF AfterSection
<1> QED
  BY <1>1 DEF RunType, RunPhases

LEMMA GoogleSectionStep ==
    ASSUME HeartInv, NEW w \in Runners, GoogleSection(w)
    PROVE  HeartInv'
<1> DEFINE row == google_tokens[run[w].user]
           x == [run[w] EXCEPT !.phase = RefreshOf(@), !.row = row]
           y == [run[w] EXCEPT !.phase = AfterSection(@), !.row = None, !.broken = run[w].broken]
<1>1. /\ run[w].phase \in {"calendar", "mail"} /\ run[w] \in RunType /\ run[w].user \in Users
      /\ run[w].broken \in BOOLEAN
      /\ UNCHANGED <<accountVars, clock, queued, redelivered, briefings, lost>>
  BY DEF GoogleSection, HeartInv, HeartTypes, RunKnows, RunType
<1>2. (Stale(row) /\ Step(w, x)) \/ Step(w, y)
  BY DEF GoogleSection, SectionEnds
<1>3. CASE Stale(row) /\ Step(w, x)
  <2>1. row \in GoogleToken /\ Held(run[w].user, row)
    BY <1>1, <1>3, ReadIsHeld DEF HeartInv, AccountInv
  <2> HIDE DEF row
  <2>2. RefreshOf(run[w].phase) \in RefreshPhases
    BY DEF RefreshOf, RefreshPhases
  <2>3. /\ x \in RunType /\ x.phase \in RefreshPhases
        /\ x.user = run[w].user /\ x.row = row
    BY <1>1, <2>1, <2>2 DEF RunType, RunPhases, RefreshPhases
  <2> HIDE DEF x
  <2>4. RunKnows(x)
    BY <1>1, <2>1, <2>3 DEF RunKnows, RefreshPhases
  <2> QED
    BY <1>1, <1>3, <2>1, <2>3, <2>4, RunGoesOn DEF Phase, RefreshPhases
<1>4. CASE Step(w, y)
  <2>1. y \in RunType /\ y.phase \in {"mail", "local"} /\ y.user \in Users
    BY <1>1, SectionEndsType
  <2> HIDE DEF y
  <2>2. RunKnows(y)
    BY <2>1 DEF RunKnows, RefreshPhases
  <2> QED
    BY <1>1, <1>4, <2>1, <2>2, RunGoesOn DEF Phase, RefreshPhases
<1> QED
  BY <1>2, <1>3, <1>4

LEMMA RefreshSectionStep ==
    ASSUME HeartInv, NEW w \in Runners, RefreshSection(w)
    PROVE  HeartInv'
<1> DEFINE y(broken) == [run[w] EXCEPT !.phase = AfterSection(@), !.row = None, !.broken = broken]
<1>1. /\ run[w].phase \in RefreshPhases /\ run[w] \in RunType
      /\ run[w].user \in Users /\ run[w].row \in GoogleToken /\ Held(run[w].user, run[w].row)
      /\ UNCHANGED <<latest, connects, user_settings, OAuth, client, requests, Log,
                     clock, queued, redelivered, briefings, lost>>
  BY DEF RefreshSection, HeartInv, HeartTypes, RunKnows, RowHeld, RefreshPhases
<1>2. /\ Refreshed(run[w].user, run[w].row) \/ UNCHANGED <<google_tokens, overtaken>>
      /\ \E broken \in BOOLEAN : Step(w, y(broken))
  BY DEF RefreshSection, SectionEnds
<1>3. AccountInv' /\ TablesGoOn
  <2>1. TablesGoOn
    BY <1>1, <1>2, RefreshedIsCurrent DEF HeartInv, AccountInv
  <2>2. OAuthOK' /\ DeadStates' /\ HoldersOverlap' /\ StateServesOnce'
    BY <1>1, SameFlow DEF HeartInv
  <2>3. ClientsOK' /\ \A c \in Clients : ClientKnows(c)'
    BY <1>1, <2>1, ClientStays DEF HeartInv, AccountInv, ClientsOK
  <2> QED
    BY <2>1, <2>2, <2>3 DEF AccountInv, TablesGoOn
<1>4. PICK broken \in BOOLEAN : Step(w, y(broken))
  BY <1>2
<1> DEFINE x == y(broken)
<1>5. x \in RunType /\ x.phase \in {"mail", "local"} /\ x.user \in Users
  BY <1>1, SectionEndsType
<1>6. Step(w, x)
  BY <1>4
<1> HIDE DEF x
<1>7. RunKnows(x) /\ ~Phase(w, "audit") /\ x.phase # "audit" /\ x.phase \notin RefreshPhases
  BY <1>1, <1>5 DEF RunKnows, Phase, RefreshPhases
<1>8. /\ clock' \in 0..MaxClock /\ queued' \in 0..(clock' + 1)
      /\ lost' \subseteq {"source", "beaten", "outrun", "died"}
  BY <1>1 DEF HeartInv, HeartTypes
<1> QED
  BY <1>1, <1>3, <1>5, <1>6, <1>7, <1>8, QuietRun

LEMMA LocalSectionsStep ==
    ASSUME HeartInv, NEW w \in Runners, LocalSections(w)
    PROVE  HeartInv'
<1> DEFINE x == [run[w] EXCEPT !.phase = "save",
                               !.local = run[w].user \in Facts /\ ~run[w].broken]
<1>1. /\ Phase(w, "local") /\ run[w] \in RunType /\ run[w].user \in Users /\ Step(w, x)
      /\ UNCHANGED <<accountVars, clock, queued, redelivered, briefings, lost>>
  BY DEF LocalSections, HeartInv, HeartTypes, RunKnows, Phase
<1> DEFINE local == run[w].user \in Facts /\ ~run[w].broken
<1>2. local \in BOOLEAN /\ run[w].broken \in BOOLEAN
  BY <1>1 DEF RunType
<1>3. local <=> (run[w].user \in Facts /\ ~run[w].broken)
  OBVIOUS
<1> HIDE DEF local
<1>4. [run[w] EXCEPT !.phase = "save", !.local = local] \in RunType
  BY <1>1, <1>2 DEF RunType, RunPhases
<1>5. x \in RunType
  BY <1>4 DEF local
<1>6. x.phase = "save" /\ x.user = run[w].user /\ x.broken = run[w].broken /\ x.local = local
  BY <1>1 DEF RunType, local
<1> HIDE DEF x
<1>7. RunKnows(x)
  BY <1>1, <1>3, <1>6 DEF RunKnows, RefreshPhases
<1> QED
  BY <1>1, <1>5, <1>6, <1>7, RunGoesOn DEF Phase, RefreshPhases

\* What becomes of the entries due when one run writes a briefing or an entry.
LEMMA DueStep ==
    ASSUME HeartInv, AccountInv', TablesGoOn, UNCHANGED client,
           clock' = clock, queued' = queued,
           lost' \subseteq {"source", "beaten", "outrun", "died"},
           briefings' \subseteq Briefing, RestIsWritten',
           NEW w \in Runners, NEW x \in RunType, Step(w, x), RunKnows(x),
           x.phase \notin RefreshPhases,
           effects \subseteq effects', audits \subseteq audits', excused \subseteq excused',
           audits' \subseteq effects',
           \A e \in effects' \ effects : e = Entry(w)',
           effects' # effects => x.phase = "audit",
           x.phase = "audit" => Entry(w)' \in effects',
           Phase(w, "audit") => Entry(w) \in audits' \union excused'
    PROVE  HeartInv'
<1>1. /\ run' \in [Runners -> RunType] /\ run'[w] = x
      /\ \A v \in Runners : v # w => run'[v] = run[v]
  BY RunMoves DEF HeartInv
<1>2. HeartTypes' /\ \A v \in Runners : RunKnows(run'[v])
  BY <1>1 DEF HeartInv, HeartTypes
<1>3. EntriesDue' \subseteq effects'
  <2> SUFFICES ASSUME NEW v \in Runners, v # w, Phase(v, "audit")'
               PROVE  Entry(v)' \in effects'
    BY <1>1 DEF EntriesDue, Phase
  <2>1. Phase(v, "audit") /\ Entry(v)' = Entry(v)
    BY <1>1 DEF Phase, Entry
  <2> QED
    BY <2>1 DEF HeartInv, EntriesDue
<1>4. AuditedAreDone'
  BY DEF HeartInv, AuditedAreDone, In, Effect
<1>5. BeingAudited' = BeingAudited
  BY DEF BeingAudited, In, Effect
<1>6. Unaccounted' \subseteq EntriesDue'
  <2> SUFFICES ASSUME NEW e \in Unaccounted'
               PROVE  e \in EntriesDue'
    OBVIOUS
  <2>1. CASE e \in effects
    <3>1. e \in Unaccounted
      BY <1>5, <2>1 DEF Unaccounted
    <3>2. PICK v \in Runners : Phase(v, "audit") /\ e = Entry(v)
      BY <3>1 DEF HeartInv, EntriesDue
    <3>3. v # w
      BY <3>2 DEF Unaccounted
    <3>4. Phase(v, "audit")' /\ Entry(v)' = e
      BY <1>1, <3>2, <3>3 DEF Phase, Entry
    <3> QED
      BY <3>4 DEF EntriesDue
  <2>2. CASE e \notin effects
    <3>1. e \in effects' \ effects /\ e = Entry(w)'
      BY <2>2 DEF Unaccounted
    <3>2. Phase(w, "audit")'
      BY <1>1, <3>1 DEF Phase
    <3> QED
      BY <3>1, <3>2 DEF EntriesDue
  <2> QED
    BY <2>1, <2>2
<1>7. \A v \in Runners : RowHeld(v)'
  BY <1>1, RowsStay, SameRowsStay
<1> QED
  BY <1>2, <1>3, <1>4, <1>6, <1>7 DEF HeartInv, RunKnows

LEMMA CreateForUserStep ==
    ASSUME HeartInv, NEW w \in Runners, create_for_user(w)
    PROVE  HeartInv'
<1>1. /\ Phase(w, "save") /\ run[w] \in RunType /\ run[w].user \in Users
      /\ UNCHANGED <<Tokens, user_settings, OAuth, client, requests, clock, queued, redelivered>>
  BY DEF create_for_user, HeartInv, HeartTypes, RunKnows, Phase
<1>2. AccountInv' /\ TablesGoOn
  BY <1>1, UnchangedAccount DEF HeartInv
<1>3. CASE run[w].broken \/ Exists(w)
  <2>1. /\ Step(w, IdleRun) /\ lost' \subseteq lost \union {"source", "beaten", "outrun"}
        /\ UNCHANGED <<briefings, Log>>
    BY <1>3 DEF create_for_user
  <2>2. lost' \subseteq {"source", "beaten", "outrun", "died"}
    BY <2>1 DEF HeartInv, HeartTypes
  <2>3. clock' \in 0..MaxClock /\ queued' \in 0..(clock' + 1)
    BY <1>1 DEF HeartInv, HeartTypes
  <2> QED
    BY <1>1, <1>2, <2>1, <2>2, <2>3, IdleRunType, QuietRun DEF Phase, RefreshPhases
<1>4. CASE ~(run[w].broken \/ Exists(w))
  <2> DEFINE b == [user |-> run[w].user, date |-> run[w].date, local |-> run[w].local]
             x == [run[w] EXCEPT !.phase = "audit"]
  <2>1. /\ briefings' = briefings \union {b}
        /\ effects' = effects \union {Entry(w)}
        /\ Step(w, x)
        /\ UNCHANGED <<lost, audits, excused>>
    BY <1>4 DEF create_for_user
  <2>2. b \in Briefing /\ (b.local <=> b.user \in Facts)
    BY <1>1, <1>4 DEF Briefing, RunType, HeartInv, RunKnows, Phase
  <2>3. x \in RunType /\ x.phase = "audit" /\ x.user = run[w].user /\ x.date = run[w].date
    BY <1>1 DEF RunType, RunPhases
  <2> HIDE DEF b, x
  <2>4. RunKnows(x) /\ x.phase \notin RefreshPhases
    BY <1>1, <2>3 DEF RunKnows, RefreshPhases
  <2>5. Entry(w)' = Entry(w)
    BY <2>1, <2>3, RunMoves DEF HeartInv, Entry
  <2>6. briefings' \subseteq Briefing /\ RestIsWritten'
    BY <2>1, <2>2 DEF HeartInv, HeartTypes, RestIsWritten
  <2>7. audits' \subseteq effects' /\ lost' \subseteq {"source", "beaten", "outrun", "died"}
    BY <2>1 DEF HeartInv, HeartTypes, AuditedAreDone
  <2>8. ~Phase(w, "audit")
    BY <1>1 DEF Phase
  <2> QED
    BY <1>1, <1>2, <2>1, <2>3, <2>4, <2>5, <2>6, <2>7, <2>8, DueStep
<1> QED
  BY <1>3, <1>4

LEMMA AuditBriefingStep ==
    ASSUME HeartInv, NEW w \in Runners, AuditBriefing(w)
    PROVE  HeartInv'
<1> DEFINE x == [run[w] EXCEPT !.phase = "next"]
<1>1. /\ Phase(w, "audit") /\ run[w] \in RunType /\ Step(w, x)
      /\ audits' = audits \union {Entry(w)}
      /\ UNCHANGED <<Tokens, user_settings, OAuth, client, requests, effects, excused,
                     clock, queued, redelivered, briefings, lost>>
  BY DEF AuditBriefing, HeartInv, HeartTypes
<1>2. x \in RunType /\ x.phase = "next"
  BY <1>1 DEF RunType, RunPhases
<1> HIDE DEF x
<1>3. AccountInv' /\ TablesGoOn
  BY <1>1, UnchangedAccount DEF HeartInv
<1>4. RunKnows(x) /\ x.phase \notin RefreshPhases
  BY <1>2 DEF RunKnows, RefreshPhases
<1>5. audits' \subseteq effects'
  BY <1>1 DEF HeartInv, AuditedAreDone, EntriesDue
<1>6. /\ briefings' \subseteq Briefing /\ RestIsWritten'
      /\ lost' \subseteq {"source", "beaten", "outrun", "died"}
  BY <1>1 DEF HeartInv, HeartTypes, RestIsWritten
<1> QED
  BY <1>1, <1>2, <1>3, <1>4, <1>5, <1>6, DueStep

LEMMA WorkerDiesStep ==
    ASSUME HeartInv, NEW w \in Runners, WorkerDies(w)
    PROVE  HeartInv'
<1>1. /\ Step(w, IdleRun) /\ lost' = lost \union {"died"}
      /\ excused' = excused \union {e \in effects : e = Entry(w)}
      /\ UNCHANGED <<Tokens, user_settings, OAuth, client, requests, effects, audits,
                     clock, queued, redelivered, briefings>>
  BY DEF WorkerDies
<1>2. AccountInv' /\ TablesGoOn
  BY <1>1, UnchangedAccount DEF HeartInv
<1>3. Phase(w, "audit") => Entry(w) \in excused'
  BY <1>1 DEF HeartInv, EntriesDue
<1>4. /\ briefings' \subseteq Briefing /\ RestIsWritten' /\ audits' \subseteq effects'
      /\ lost' \subseteq {"source", "beaten", "outrun", "died"}
  BY <1>1 DEF HeartInv, HeartTypes, RestIsWritten, AuditedAreDone
<1> QED
  BY <1>1, <1>2, <1>3, <1>4, IdleRunType, DueStep DEF RefreshPhases

-----------------------------------------------------------------------------
(* The theorem about the briefings                                         *)

LEMMA EffectsStay ==
    ASSUME [AccountNext]_accountVars
    PROVE  effects \subseteq effects'
<1>1. ASSUME NEW c \in Clients, \E r \in Requests : Begin(c, r)
      PROVE  effects \subseteq effects'
  BY <1>1 DEF Begin, google_callback, disconnect, Log
<1>2. ASSUME NEW c \in Clients, Serve(c) \/ ClientDies(c)
      PROVE  effects \subseteq effects'
  BY <1>2 DEF Serve, ForgetState, Exchange, SelectToken, handle_callback, LoadCredentials,
     RefreshCredentials, CallGoogle, AuditEffect, get_or_create, CreateDefaults, ReadDefaults,
     update, ClientDies, Log
<1> QED
  BY <1>1, <1>2
     DEF AccountNext, accountVars, Log, google_auth_url, TokenExpires, StateExpires

LEMMA AccountStepKeepsRuns ==
    ASSUME HeartInv, [AccountNext]_accountVars, UNCHANGED heartVars
    PROVE  HeartInv'
<1>1. AccountInv' /\ TablesGoOn /\ AuditedAreDone' /\ Unaccounted' \subseteq Unaccounted
  BY AccountStep, AccountLog DEF HeartInv
<1>2. /\ HeartTypes' /\ RestIsWritten'
      /\ \A w \in Runners : RunKnows(run'[w]) /\ RowHeld(w)'
  BY <1>1, SameRowsStay DEF HeartInv, HeartTypes, RestIsWritten, heartVars
<1>3. EntriesDue' = EntriesDue
  BY DEF EntriesDue, Entry, Phase, heartVars
<1> QED
  BY <1>1, <1>2, <1>3, EffectsStay DEF HeartInv, RunKnows

LEMMA HeartStep ==
    ASSUME HeartInv, [Next]_vars
    PROVE  HeartInv'
<1>1. CASE AccountNext /\ UNCHANGED heartVars
  BY <1>1, AccountStepKeepsRuns
<1>2. CASE UNCHANGED vars
  BY <1>2, AccountStepKeepsRuns DEF vars
<1>3. CASE Beat
  <2>1. /\ AccountInv' /\ TablesGoOn /\ AuditedAreDone' /\ Unaccounted' \subseteq Unaccounted
        /\ UNCHANGED effects
    BY <1>3, AccountStep, AccountLog DEF HeartInv, Beat, accountVars, Log
  <2>2. HeartTypes' /\ RestIsWritten' /\ \A w \in Runners : RunKnows(run'[w])
    BY <1>3, HeartbeatAssumption DEF HeartInv, HeartTypes, RestIsWritten, Beat
  <2>3. EntriesDue' = EntriesDue
    BY <1>3 DEF EntriesDue, Entry, Phase, Beat
  <2>4. \A w \in Runners : RowHeld(w)'
    BY <1>3, <2>1, SameRowsStay DEF Beat
  <2> QED
    BY <2>1, <2>2, <2>3, <2>4 DEF HeartInv, RunKnows
<1>4. ASSUME NEW w \in Runners, run_all(w) \/ Work(w) \/ WorkerDies(w)
      PROVE  HeartInv'
  BY <1>4, RunAllStep, NextUserStep, GetForDateStep, GoogleSectionStep, RefreshSectionStep,
     LocalSectionsStep, CreateForUserStep, AuditBriefingStep, WorkerDiesStep DEF Work
<1> QED
  BY <1>1, <1>2, <1>3, <1>4 DEF Next

LEMMA HeartStart ==
    ASSUME Init
    PROVE  HeartInv
<1>1. AccountInv
  BY AccountStart DEF Init
<1>2. \A w \in Runners : run[w] = IdleRun /\ ~Phase(w, "audit")
  BY IdleRunType DEF Init, Phase
<1>3. HeartTypes /\ \A w \in Runners : RunKnows(run[w]) /\ RowHeld(w)
  BY <1>2, IdleRunType, HeartbeatAssumption DEF Init, HeartTypes, RowHeld, RefreshPhases
<1>4. AuditedAreDone /\ Unaccounted = {} /\ RestIsWritten
  <2>1. \A c \in Clients : ~In(c, "audit")
    BY IdleIsRequest DEF Init, AccountInit, In
  <2> QED
    BY <2>1 DEF Init, AccountInit, AuditedAreDone, Unaccounted, RestIsWritten
<1>5. EntriesDue = {}
  BY <1>2 DEF EntriesDue
<1> QED
  BY <1>1, <1>3, <1>4, <1>5 DEF HeartInv

LEMMA HeartInvComplete ==
    ASSUME HeartInv
    PROVE  BriefingsComplete
<1>1. ASSUME NEW w \in Runners
      PROVE  /\ DOMAIN run[w] = DOMAIN IdleRun /\ run[w].rest \subseteq Users
             /\ run[w].phase \in RunPhases
  <2>1. run[w] \in RunType
    BY DEF HeartInv, HeartTypes
  <2>2. DOMAIN run[w] = {"phase", "rest", "date", "user", "row", "local", "broken"}
    BY <2>1 DEF RunType
  <2> QED
    BY <2>1, <2>2 DEF RunType, IdleRun
<1>2. AccountTypeOK
  BY AccountInvTypes DEF HeartInv, AccountIsCurrent
<1>3. queued \in 0..(MaxClock + 1)
  BY HeartbeatAssumption DEF HeartInv, HeartTypes
<1>4. TypeOK
  BY <1>1, <1>2, <1>3 DEF HeartInv, HeartTypes, TypeOK, RunPhases
<1>5. BriefingsAudited
  BY DEF HeartInv, AuditedAreDone, Unaccounted, EntriesDue, BriefingsAudited
<1> QED
  BY <1>4, <1>5 DEF HeartInv, BriefingsComplete

\* Whatever becomes of the Google sections, of other runs and of the settings
\* meanwhile, a briefing that is written tells what the user's own data has to
\* tell, and it has its audit entry, is about to get it, or its run died
\* (heartbeat_service.py).
THEOREM BriefingsAreComplete == Spec => []BriefingsComplete
<1>1. Init => HeartInv
  BY HeartStart
<1>2. HeartInv /\ [Next]_vars => HeartInv'
  BY HeartStep
<1>3. HeartInv => BriefingsComplete
  BY HeartInvComplete
<1> QED
  BY <1>1, <1>2, <1>3, PTL DEF Spec
=============================================================================
