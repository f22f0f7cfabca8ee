---------------------------- MODULE TurnServing ----------------------------
(***************************************************************************)
(* The front half of a turn: kill switch, circuit breaker, live web        *)
(* search, routing to the LLM providers with fallback, token limits, claim *)
(* extraction, and the count the breaker keeps of processed turns.  What   *)
(* _finalize_turn writes in between is the subject of TurnPipeline.        *)
(*                                                                         *)
(* A slot handles one turn after the other; the turns of several slots     *)
(* interleave at each await: Redis commands, provider calls.  Redis and    *)
(* the token tracker are shared.  Tokens are counted in calls.             *)
(***************************************************************************)
EXTENDS Integers, FiniteSets

CONSTANTS
    Slots,        \* concurrent requests
    Inputs,       \* what a turn may be about; see TurnInput
    Registered,   \* the providers that have a key; ollama needs none
    MaxActions,   \* cb_max_actions
    TokenLimit,   \* daily limit of each cloud provider, in calls
    MaxTurns,     \* bound: turns
    MayVanish     \* slots whose turn may be cancelled at any await

Cloud == {"mistral", "deepseek", "openai", "anthropic", "gemini", "openrouter"}
Local == {"ollama", "lmstudio"}

\* private_project: the workspace is S3 or S4, so it forces local routing.
\* question: no claims are extracted.  override: the client sends the claims.
\* live_web: the mode of a search the request or the settings ask for.
TurnInput == [sensitivity : {"S0", "S1", "S2", "S3", "S4"},
              allow_s3_cloud_fallback : BOOLEAN,
              preferred : Cloud \union Local \union {"none"},
              private_project : BOOLEAN, stream : BOOLEAN, question : BOOLEAN,
              override : BOOLEAN, allow_s3_live_web : BOOLEAN,
              live_web : {"off", "connector_only", "provider_native_first"}]

ASSUME ServingAssumption ==
    /\ Inputs \subseteq TurnInput
    /\ Registered \subseteq Cloud \union Local /\ "ollama" \in Registered
    /\ MaxActions \in Nat \ {0} /\ TokenLimit \in Nat \ {0} /\ MaxTurns \in Nat
    /\ MayVanish \subseteq Slots /\ IsFiniteSet(Slots)

VARIABLES
    slot,      \* slot[s]: the turn handled there
    breaker,   \* Redis: the counter, whether it has a TTL, the trip key
    used,      \* token tracker: calls per cloud provider today
    killed,    \* user_settings.kill_switch
    toggling,  \* a kill-switch request is about to force the trip
    turns,     \* number of turns so far
    orphaned   \* history: a turn vanished between INCR and EXPIRE

vars == <<slot, breaker, used, killed, toggling, turns, orphaned>>

-----------------------------------------------------------------------------
(* Routing                                                                 *)

LocalOnly(sensitivity) == sensitivity \in {"S3", "S4"}

\* Mutant: the consent for S3 counts for S4 as well.
EnforceUnlessConsent(input) ==
    \/ LocalOnly(input.sensitivity) /\ ~input.allow_s3_cloud_fallback
    \/ input.private_project

enforce_local(input) ==
    \/ input.sensitivity = "S4"
    \/ input.sensitivity = "S3" /\ ~input.allow_s3_cloud_fallback
    \/ input.private_project

\* An enforced turn forgets a preferred cloud provider.
preferred_provider(input) ==
    IF enforce_local(input) /\ input.preferred \notin Local THEN "none"
    ELSE input.preferred

intent_primary(intent) ==
    CASE intent = "claim_extraction" -> {"deepseek"}
      [] intent = "tool_call"        -> {"openai"}
      [] OTHER                       -> {}

\* Whom the router may turn to, without a preferred local provider; the order is
\* that of place.  The intent's own provider is listed even when it has no key;
\* route skips it.
_build_fallback_chain(intent, sensitivity, enforced) ==
    IF enforced /\ LocalOnly(sensitivity) THEN {"ollama"}
    ELSE intent_primary(intent) \union Registered

\* The cloud by cost and quality, then the local providers.
priority == [mistral |-> 1, deepseek |-> 2, openai |-> 3, anthropic |-> 4, gemini |-> 5,
             openrouter |-> 6, ollama |-> 7, lmstudio |-> 8]

\* The search providers that are models, the preferred one first.
_select_native_provider(input) ==
    LET native == {"openai", "deepseek"} \intersect Registered
    IN IF preferred_provider(input) \in native \/ native = {}
       THEN {preferred_provider(input)} \intersect native
       ELSE {IF "openai" \in native THEN "openai" ELSE "deepseek"}

\* What a turn asks the router for in its phase, and whom it wishes for.
Intent(turn) == CASE turn.phase = "search"  -> "tool_call"
                  [] turn.phase = "extract" -> "claim_extraction"
                  [] OTHER                  -> "general_turn"

Wished(turn) == CASE turn.phase = "search"  -> _select_native_provider(turn.input)
                  [] turn.phase = "extract" -> {}
                  [] OTHER                  -> {preferred_provider(turn.input)}

\* The one wished for, the one for the intent, the others.
place(turn, p) == IF p \in Wished(turn) THEN -1
                  ELSE IF p \in intent_primary(Intent(turn)) THEN 0
                  ELSE priority[p]

is_limit_exceeded(p, tokens) == p \in Cloud /\ tokens[p] >= TokenLimit

\* Context and history are assembled once, before the first attempt: with what
\* is S3 or S4 if the answer is expected from a local provider.
provider_is_local(input) ==
    \/ enforce_local(input) /\ LocalOnly(input.sensitivity)
    \/ preferred_provider(input) \in Local

\* The messages hold what must not leave the machine: such claims and history,
\* or the content of a workspace that is S3 or S4.
Private(input) == provider_is_local(input) \/ input.private_project

-----------------------------------------------------------------------------
(* State                                                                   *)

Phases == {"idle", "trip_key", "count", "trip", "web", "search", "connector",
           "prepare", "chat", "extract", "finalize", "incr", "expire"}

NoInput == [sensitivity |-> "none"]

\* chain: providers still to be tried; provider: the one being called;
\* shown: providers whose text the user has seen; answer: whose answer counts.
Idle == [phase |-> "idle", input |-> NoInput, chain |-> {}, provider |-> "none",
         enforced |-> FALSE, shown |-> {}, answer |-> "none"]

At(s, phase) == slot[s].phase = phase
Calling(s) == slot[s].phase \in {"search", "chat", "extract"}
Streaming(s) == At(s, "chat") /\ slot[s].input.stream

Go(s, phase) == slot' = [slot EXCEPT ![s] = [@ EXCEPT !.phase = phase]]

\* The turn is over; a failure is reported and audited.
End(s) == slot' = [slot EXCEPT ![s] = Idle]

Init ==
    /\ slot = [s \in Slots |-> Idle]
    /\ breaker = [count |-> 0, ttl |-> FALSE, tripped |-> FALSE]
    /\ used = [p \in Cloud |-> 0]
    /\ killed = FALSE
    /\ toggling = FALSE
    /\ turns = 0
    /\ orphaned = FALSE

-----------------------------------------------------------------------------
(* Admission                                                               *)

\* SELECT the settings.  A killed turn fails.
process_turn(s) ==
    /\ At(s, "idle")
    /\ turns < MaxTurns
    /\ turns' = turns + 1
    /\ \/ killed /\ UNCHANGED slot
       \/ /\ ~killed
          /\ \E input \in Inputs :
               slot' = [slot EXCEPT ![s] = [Idle EXCEPT !.phase = "trip_key",
                                                        !.input = input]]
    /\ UNCHANGED <<breaker, used, killed, toggling, orphaned>>

GetTripKey(s) ==
    /\ At(s, "trip_key")
    /\ IF breaker.tripped THEN End(s) ELSE Go(s, "count")
    /\ UNCHANGED <<breaker, used, killed, toggling, turns, orphaned>>

\* What is S4 is not searched for.
searches(input) == input.live_web # "off" /\ input.sensitivity # "S4"

\* GET the counter; check_circuit_breaker judges what was read.
GetCount(s) ==
    /\ At(s, "count")
    /\ Go(s, IF breaker.count >= MaxActions THEN "trip"
             ELSE IF searches(slot[s].input) THEN "web" ELSE "prepare")
    /\ UNCHANGED <<breaker, used, killed, toggling, turns, orphaned>>

Trip(s) ==
    /\ At(s, "trip")
    /\ breaker' = [breaker EXCEPT !.tripped = TRUE]
    /\ End(s)
    /\ UNCHANGED <<used, killed, toggling, turns, orphaned>>

-----------------------------------------------------------------------------
(* Provider calls                                                          *)

\* Nobody is left to ask: the turn fails, a search goes on to the connector.
GiveUp(turn) ==
    IF turn.phase = "search"
    THEN [turn EXCEPT !.phase = "connector", !.provider = "none", !.chain = {}]
    ELSE Idle

\* Call the first provider of turn.chain that is registered and within its
\* limit.
Attempt(s, turn, tokens) ==
    LET usable == {p \in turn.chain \intersect Registered : ~is_limit_exceeded(p, tokens)}
    IN \/ /\ usable = {}
          /\ slot' = [slot EXCEPT ![s] = GiveUp(turn)]
       \/ \E p \in usable :
            /\ \A q \in usable : place(turn, p) <= place(turn, q)
            /\ slot' = [slot EXCEPT ![s] =
                 [turn EXCEPT !.provider = p,
                              !.chain = {q \in turn.chain : place(turn, q) > place(turn, p)}]]

route(s, turn, tokens) ==
    Attempt(s, [turn EXCEPT !.phase = "chat", !.enforced = enforce_local(turn.input),
                  !.chain = _build_fallback_chain("general_turn", turn.input.sensitivity,
                                                  enforce_local(turn.input))],
            tokens)

\* ClaimExtractor leaves enforce_local at its default, and prefers nobody.
extract(s, turn, tokens) ==
    Attempt(s, [turn EXCEPT !.phase = "extract", !.enforced = TRUE,
                  !.chain = _build_fallback_chain("claim_extraction",
                              turn.input.sensitivity, TRUE)],
            tokens)

\* tracker.record; a response may not report its tokens.
Record(p) ==
    \/ UNCHANGED used
    \/ /\ p \in Cloud
       /\ used' = [used EXCEPT ![p] = @ + 1]

\* The query is sent as if it were S1, whatever the message is.
_search_with_provider_native(s, turn) ==
    Attempt(s, [turn EXCEPT !.phase = "search",
                  !.chain = _build_fallback_chain("tool_call", "S1", FALSE)],
            used)

\* S3 without consent ends the turn, asking for it.
search(s) ==
    /\ At(s, "web")
    /\ LET input == slot[s].input
       IN \/ /\ input.sensitivity = "S3" /\ ~input.allow_s3_live_web
             /\ End(s)
          \/ /\ input.sensitivity = "S3" => input.allow_s3_live_web
             /\ IF input.live_web = "connector_only" \/ _select_native_provider(input) = {}
                THEN Go(s, "connector")
                ELSE _search_with_provider_native(s, slot[s])
    /\ UNCHANGED <<breaker, used, killed, toggling, turns, orphaned>>

\* The answer names sources, or the connector is asked as well.
AnswerSearch(s) ==
    /\ At(s, "search")
    /\ Record(slot[s].provider)
    /\ \E sources \in BOOLEAN :
         slot' = [slot EXCEPT ![s] =
                    IF sources THEN [GiveUp(@) EXCEPT !.phase = "prepare"] ELSE GiveUp(@)]
    /\ UNCHANGED <<breaker, killed, toggling, turns, orphaned>>

\* Whatever the connector answers, the turn goes on.
_search_with_connector(s) ==
    /\ At(s, "connector")
    /\ Go(s, "prepare")
    /\ UNCHANGED <<breaker, used, killed, toggling, turns, orphaned>>

\* The messages are assembled; an override has no provider to ask.
Call(s) ==
    /\ At(s, "prepare")
    /\ IF slot[s].input.override THEN Go(s, "finalize")
       ELSE route(s, slot[s], used)
    /\ UNCHANGED <<breaker, used, killed, toggling, turns, orphaned>>

\* The first delta of a stream reaches the user.
Delta(s) ==
    /\ Streaming(s)
    /\ slot[s].provider \notin slot[s].shown
    /\ slot' = [slot EXCEPT ![s] = [@ EXCEPT !.shown = slot[s].shown \union {slot[s].provider}]]
    /\ UNCHANGED <<breaker, used, killed, toggling, turns, orphaned>>

\* The answer is complete: extract its claims, unless the user asked something.
AnswerChat(s) ==
    /\ At(s, "chat")
    /\ Record(slot[s].provider)
    /\ LET turn == [slot[s] EXCEPT !.answer = slot[s].provider]
       IN IF turn.input.question
          THEN slot' = [slot EXCEPT ![s] = [turn EXCEPT !.phase = "finalize"]]
          ELSE extract(s, turn, used')
    /\ UNCHANGED <<breaker, killed, toggling, turns, orphaned>>

AnswerExtraction(s) ==
    /\ At(s, "extract")
    /\ Record(slot[s].provider)
    /\ Go(s, "finalize")
    /\ UNCHANGED <<breaker, killed, toggling, turns, orphaned>>

_is_local_only_attempt(turn) ==
    turn.provider \in Local /\ turn.enforced /\ LocalOnly(turn.input.sensitivity)

emitted(s) == At(s, "chat") /\ slot[s].provider \in slot[s].shown

\* Mutant: after a failure all others are tried, also those that failed before.
FailRetries(s) ==
    /\ Calling(s)
    /\ \/ slot' = [slot EXCEPT ![s] = GiveUp(@)]
       \/ /\ ~_is_local_only_attempt(slot[s])
          /\ ~emitted(s)
          /\ Attempt(s, [slot[s] EXCEPT !.chain = Registered \ {slot[s].provider}], used)
    /\ UNCHANGED <<breaker, used, killed, toggling, turns, orphaned>>

\* The call raises: an authentication error ends the turn, or the search, and
\* anything else only if there is no other provider to go to.
Fail(s) ==
    /\ Calling(s)
    /\ \/ slot' = [slot EXCEPT ![s] = GiveUp(@)]
       \/ /\ ~_is_local_only_attempt(slot[s])
          /\ ~emitted(s)
          /\ Attempt(s, slot[s], used)
    /\ UNCHANGED <<breaker, used, killed, toggling, turns, orphaned>>

-----------------------------------------------------------------------------
(* The end of a turn                                                       *)

\* What TurnPipeline has in detail; it may raise.
_finalize_turn(s) ==
    /\ At(s, "finalize")
    /\ End(s) \/ Go(s, "incr")
    /\ UNCHANGED <<breaker, used, killed, toggling, turns, orphaned>>

\* Mutant: only the second turn of a window sets the deadline.
IncrementLate(s) ==
    /\ At(s, "incr")
    /\ breaker' = [breaker EXCEPT !.count = @ + 1]
    /\ IF breaker.count = 1 THEN Go(s, "expire") ELSE End(s)
    /\ UNCHANGED <<used, killed, toggling, turns, orphaned>>

Increment(s) ==
    /\ At(s, "incr")
    /\ breaker' = [breaker EXCEPT !.count = @ + 1]
    /\ IF breaker.count = 0 THEN Go(s, "expire") ELSE End(s)
    /\ UNCHANGED <<used, killed, toggling, turns, orphaned>>

Expire(s) ==
    /\ At(s, "expire")
    /\ breaker' = [breaker EXCEPT !.ttl = TRUE]
    /\ End(s)
    /\ UNCHANGED <<used, killed, toggling, turns, orphaned>>

\* The client of a stream is gone, or the process dies.
Vanish(s) ==
    /\ s \in MayVanish
    /\ ~At(s, "idle")
    /\ orphaned' = (orphaned \/ At(s, "expire"))
    /\ End(s)
    /\ UNCHANGED <<breaker, used, killed, toggling, turns>>

-----------------------------------------------------------------------------
(* The world around: Redis expiry, the calendar, the user                  *)

WindowEnds ==
    /\ breaker.ttl
    /\ breaker' = [breaker EXCEPT !.count = 0, !.ttl = FALSE]
    /\ UNCHANGED <<slot, used, killed, toggling, turns, orphaned>>

CooldownEnds ==
    /\ breaker.tripped
    /\ breaker' = [breaker EXCEPT !.tripped = FALSE]
    /\ UNCHANGED <<slot, used, killed, toggling, turns, orphaned>>

\* The tracker notices a new date, or the service restarts.
Midnight ==
    /\ used' = [p \in Cloud |-> 0]
    /\ UNCHANGED <<slot, breaker, killed, toggling, turns, orphaned>>

toggle_kill_switch(active) ==
    /\ ~toggling
    /\ killed' = active
    /\ toggling' = active
    /\ UNCHANGED <<slot, breaker, used, turns, orphaned>>

force_trip ==
    /\ toggling
    /\ toggling' = FALSE
    /\ breaker' = [breaker EXCEPT !.tripped = TRUE]
    /\ UNCHANGED <<slot, used, killed, turns, orphaned>>

-----------------------------------------------------------------------------

Serve(s) ==
    \/ GetTripKey(s) \/ GetCount(s) \/ Trip(s)
    \/ search(s) \/ AnswerSearch(s) \/ _search_with_connector(s)
    \/ Call(s) \/ Delta(s) \/ AnswerChat(s) \/ AnswerExtraction(s) \/ Fail(s)
    \/ _finalize_turn(s) \/ Increment(s) \/ Expire(s)

Next ==
    \/ \E s \in Slots : process_turn(s) \/ Serve(s) \/ Vanish(s)
    \/ WindowEnds \/ CooldownEnds \/ Midnight
    \/ \E active \in BOOLEAN : toggle_kill_switch(active)
    \/ force_trip

Spec == Init /\ [][Next]_vars

\* Redis answers or raises, and each provider client has a timeout.
FairSpec == Spec /\ \A s \in Slots : WF_vars(Serve(s))

-----------------------------------------------------------------------------
(* Properties                                                              *)

SlotType == [phase : Phases, input : Inputs \union {NoInput}, chain : SUBSET (Cloud \union Local),
             provider : Cloud \union Local \union {"none"}, enforced : BOOLEAN,
             shown : SUBSET (Cloud \union Local),
             answer : Cloud \union Local \union {"none"}]

\* The types, and: exactly the calling phases have a registered provider.
TypeOK ==
    /\ slot \in [Slots -> SlotType]
    /\ \A s \in Slots : Calling(s) => slot[s].provider \in Registered
    /\ breaker \in [count : Nat, ttl : BOOLEAN, tripped : BOOLEAN]
    /\ used \in [Cloud -> Nat]
    /\ killed \in BOOLEAN /\ toggling \in BOOLEAN /\ orphaned \in BOOLEAN
    /\ turns \in 0 .. MaxTurns

\* The breaker checks a counter it raises only at the end of a turn: requests
\* that overlap pass together, but no more than there are beyond the limit.
VelocityBound == breaker.count <= MaxActions - 1 + Cardinality(Slots)

\* A counter of processed turns runs out: whoever started it sets the TTL, in a
\* second command.  Without one the user is tripped again after each cooldown.
CounterHasDeadline ==
    breaker.count > 0 /\ ~breaker.ttl => orphaned \/ \E s \in Slots : At(s, "expire")

\* What a step lets out: to a cloud provider, or to the connector.
Leaves(s) ==
    \/ Calling(s) /\ slot[s].provider \in Cloud
    \/ At(s, "connector")

\* S4 never leaves the machine and S3 only with consent, that for searching or
\* that for answering, over every fallback and in the extraction of claims too.
ConsentedOnly ==
    \A s \in Slots : Leaves(s) =>
      LET input == slot[s].input
      IN /\ input.sensitivity # "S4"
         /\ input.sensitivity = "S3" =>
              IF At(s, "chat") THEN input.allow_s3_cloud_fallback
              ELSE ~At(s, "extract") /\ input.allow_s3_live_web

\* A streamed answer comes from one provider: what the user has read is part of
\* the answer that is kept.
OneVoice ==
    \A s \in Slots :
      slot[s].shown \subseteq {IF At(s, "chat") THEN slot[s].provider
                               ELSE slot[s].answer}

\* Calls check the limit and record their tokens when they return: the overlap
\* is all a provider can be asked for beyond its daily limit.
DailyLimit == \A p \in Cloud : used[p] <= TokenLimit - 1 + Cardinality(Slots)

\* Neither the breaker nor a daily limit lets more pass than overlap explains,
\* and what it counts is forgotten in the end.
SpendingBounded == VelocityBound /\ CounterHasDeadline /\ DailyLimit

\* Whom the router turns to, and with whose words, over every fallback.
RoutingIsSound == TypeOK /\ ConsentedOnly /\ OneVoice

\* Every turn ends, whatever fails: no provider is tried for ever.
TurnsEnd == \A s \in Slots : ~At(s, "idle") ~> At(s, "idle")

-----------------------------------------------------------------------------
(* A statement of the sources the code does not keep                       *)

\* "A cloud provider must not survive a local-only workspace"
\* (test_turn_service.py): messages with private content go to local providers.
PrivateStaysLocal ==
    \A s \in Slots :
      At(s, "chat") /\ Private(slot[s].input) => slot[s].provider \in Local
=============================================================================
