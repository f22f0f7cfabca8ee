--------------------------- MODULE PromptAssembly ---------------------------
(***************************************************************************)
(* What a turn shows to the language model: the workspace block            *)
(* (ProjectContextService), the user context (ContextAssembler) with the   *)
(* contacts a message names and the episodes it recalls, and the separate  *)
(* recall block (MemoryRecallService).  Rows are read SELECT by SELECT     *)
(* while other requests delete; then everything has to fit.                *)
(*                                                                         *)
(* Rows are given in the order their SELECT returns them and known by      *)
(* their position, so that a list of rows is a set of positions.  Texts    *)
(* have lines and a set of terms; lengths are numbers of lines.            *)
(***************************************************************************)
EXTENDS Integers, Sequences, FiniteSets, FiniteSetsExt

CONSTANTS
    Terms,      \* the words that messages and texts consist of
    Claims,     \* sequence of [sensitivity, confirmed, locked, confidence, lane, subject, terms, size]
    Contacts,   \* sequence of [sensitivity, first, last, company, role, tags]
    Projects,   \* sequence of [sensitivity]
    Files,      \* sequence of [project, ok, paragraphs : Seq([size, terms])]
    Relations,  \* sequence of [subject, object]: edges between entity names
    Queries,    \* the messages, each a set of terms
    Deletable,  \* the projects that other requests may delete
    CharLimit, MaxClaims, MaxContacts, MaxMatches, MaxEpisodes,
    TokenBudget, TokensPerClaim, KnowledgeBudget, ChunkChars, LaneBudget, MaxRelations

Sensitivities == {"S0", "S1", "S2", "S3", "S4"}
_LOCAL_ONLY_SENSITIVITIES == {"S3", "S4"}

ASSUME PromptAssumption ==
    /\ IsFiniteSet(Terms) /\ Queries \subseteq SUBSET Terms
    /\ Claims \in Seq([sensitivity : Sensitivities, confirmed : BOOLEAN, locked : BOOLEAN,
                       confidence : Nat, lane : {"identity", "preference", "evidence",
                       "authorization", "procedural"}, subject : Terms, terms : SUBSET Terms,
                       size : Nat])
    /\ Contacts \in Seq([sensitivity : Sensitivities, first : Terms, last : Terms,
                         company : Terms, role : Terms, tags : SUBSET Terms])
    /\ Projects \in Seq([sensitivity : Sensitivities])
    /\ Files \in Seq([project : DOMAIN Projects, ok : BOOLEAN,
                      paragraphs : Seq([size : Nat, terms : SUBSET Terms])])
    /\ Relations \in Seq([subject : Terms, object : Terms])
    /\ Deletable \subseteq DOMAIN Projects
    /\ {CharLimit, MaxClaims, MaxContacts, MaxMatches, MaxEpisodes, TokenBudget,
        TokensPerClaim, KnowledgeBudget, ChunkChars, LaneBudget, MaxRelations} \subseteq Nat
    /\ TokenBudget >= TokensPerClaim /\ TokensPerClaim > 0

Listed(i, j) == i < j

\* The first n of a set of positions, in the order Before.
First(n, S, Before(_, _)) ==
    {x \in S : Cardinality({y \in S : Before(y, x)}) < n}

\* What may be shown: everything on this machine, S0 to S2 elsewhere.
Allowed(S, rows, local) ==
    {i \in S : local \/ rows[i].sensitivity \notin _LOCAL_ONLY_SENSITIVITIES}

-----------------------------------------------------------------------------
(* contact_match: whom is the message about?                               *)

_first_name_is_unambiguous(c, contacts) ==
    {d \in contacts : Contacts[d].first = Contacts[c].first} = {c}

\* Rank of the reason: name, company, role, tag; 4 is no reason.
_reason_for(c, terms, contacts) ==
    LET row == Contacts[c]
    IN IF \/ row.last \in terms
          \/ row.first \in terms /\ _first_name_is_unambiguous(c, contacts) THEN 0
       ELSE IF row.company \in terms THEN 1
       ELSE IF row.role \in terms THEN 2
       ELSE IF row.tags \intersect terms # {} THEN 3 ELSE 4

\* Contacts are in alphabetical order, as the tie break of the sort wants them.
match_contacts(terms, contacts) ==
    LET reason(c) == _reason_for(c, terms, contacts)
        Stronger(c, d) == reason(c) < reason(d) \/ (reason(c) = reason(d) /\ c < d)
    IN First(MaxMatches, {c \in contacts : reason(c) < 4}, Stronger)

-----------------------------------------------------------------------------
(* project_context_service: which excerpts of the files?                   *)

Text(f) == Files[f].paragraphs

\* An excerpt consists of consecutive paragraphs of one file.
Excerpt(f, i, j) == [file |-> f, first |-> i, last |-> j]
Within(e) == {i \in DOMAIN Text(e.file) : e.first <= i /\ i <= e.last}
Lines(e) == UNION {{<<e.file, i, n>> : n \in 1..Text(e.file)[i].size} : i \in Within(e)}

\* Length of excerpts that do not overlap.
Length(excerpts) == Cardinality(UNION {Lines(e) : e \in excerpts})

Readable(p) == {f \in DOMAIN Files : Files[f].project = p /\ Files[f].ok}
Whole == [p \in DOMAIN Projects |-> {Excerpt(f, 1, Len(Text(f))) : f \in Readable(p)}]

\* Paragraphs are joined until the next one would exceed ChunkChars: does the
\* i-th open a chunk, if opening are those that do?
Opens(f, i, opening) ==
    \/ i = 1
    \/ \E j \in opening :
          /\ j < i /\ \A k \in opening : k < i => k <= j
          /\ Length({Excerpt(f, j, i - 1)}) > 0
          /\ Length({Excerpt(f, j, i - 1)}) + Text(f)[i].size > ChunkChars

\* The paragraphs that open a chunk.
_chunk_text ==
    [f \in DOMAIN Files |->
        CHOOSE opening \in SUBSET DOMAIN Text(f) :
           \A i \in DOMAIN Text(f) : i \in opening <=> Opens(f, i, opening)]

\* From the paragraph that opens a chunk to the one before the next.
Excerpts(f) == [file : {f}, first : DOMAIN Text(f), last : DOMAIN Text(f)]

Chunks ==
    [p \in DOMAIN Projects |->
        {e \in UNION {Excerpts(f) : f \in Readable(p)} :
            /\ Within(e) \intersect _chunk_text[e.file] = {e.first}
            /\ e.last + 1 \in _chunk_text[e.file] \union {Len(Text(e.file)) + 1}}]

TermsOf(e) == UNION {Text(e.file)[i].terms : i \in Within(e)}

\* overlap / sqrt(number of terms), squared and without the fraction.
_relevance ==
    [e \in UNION {Chunks[p] : p \in DOMAIN Projects} |-> [terms \in Queries |->
        LET overlap == Cardinality(TermsOf(e) \intersect terms)
        IN [num |-> overlap * overlap,
            den |-> IF TermsOf(e) = {} THEN 1 ELSE Cardinality(TermsOf(e))]]]

MoreRelevant(e, g, terms) ==
    _relevance[e][terms].num * _relevance[g][terms].den
        > _relevance[g][terms].num * _relevance[e][terms].den

\* Relevance first, then document order.
Ranked(e, g, terms) ==
    \/ MoreRelevant(e, g, terms)
    \/ /\ ~MoreRelevant(g, e, terms)
       /\ e.file < g.file \/ (e.file = g.file /\ e.first < g.first)

\* The excerpts before e in a selection.
Ahead(e, selected, terms) == {x \in selected : Ranked(x, e, terms)}

Fits(e, selected, terms) ==
    Length(Ahead(e, selected, terms)) + Length({e}) <= KnowledgeBudget

\* Mutant: the first excerpt that does not fit ends the selection.
SelectUntilFull ==
    [p \in DOMAIN Projects |-> [terms \in Queries |->
        IF Length(Whole[p]) <= KnowledgeBudget THEN {Whole[p]}
        ELSE {selected \in SUBSET Chunks[p] : \A e \in Chunks[p] :
                 e \in selected <=> /\ Fits(e, selected, terms)
                                    /\ Ahead(e, Chunks[p], terms) \subseteq selected}]]

\* The selection, as a set of one: whole files if they fit, otherwise each chunk
\* that still fits when its turn comes; a later, shorter one may although it
\* does not.
_select_knowledge ==
    [p \in DOMAIN Projects |-> [terms \in Queries |->
        IF Length(Whole[p]) <= KnowledgeBudget THEN {Whole[p]}
        ELSE {selected \in SUBSET Chunks[p] :
                 \A e \in Chunks[p] : e \in selected <=> Fits(e, selected, terms)}]]

-----------------------------------------------------------------------------
(* retrieval and memory_recall_service: the recall block                   *)

\* Four times the number of query terms times the score, to stay in the integers.
score_candidate ==
    [terms \in Queries |-> [c \in DOMAIN Claims |->
        LET n == Cardinality(terms)
            overlap == Cardinality(terms \intersect Claims[c].terms)
            bonus == IF Claims[c].subject \in terms THEN 1 ELSE 0
        IN IF overlap = 0 /\ bonus = 0 THEN 0
           ELSE 4 * n * overlap + 2 * overlap + n * Claims[c].confidence + 2 * n * bonus]]

MoreConfident(c, d) ==
    \/ Claims[c].confidence > Claims[d].confidence
    \/ Claims[c].confidence = Claims[d].confidence /\ c < d

\* Best score first, then confidence, then id.
rank(terms, c, d) ==
    \/ score_candidate[terms][c] > score_candidate[terms][d]
    \/ score_candidate[terms][c] = score_candidate[terms][d] /\ MoreConfident(c, d)

\* What a lane spends on a set of claims.
Spent(claims, lane) ==
    Cardinality(UNION {{c} \X (1..Claims[c].size) : c \in {d \in claims : Claims[d].lane = lane}})

Injectable(lane) == lane # "authorization"

\* The floor: identity claims until the first that does not fit.
IdentityFloor(candidates) ==
    LET identity == {c \in candidates : Claims[c].lane = "identity"}
    IN {c \in identity :
           Spent({d \in identity : MoreConfident(d, c)} \union {c}, "identity") <= LaneBudget}

\* Relevant claims, best first; one that does not fit its lane is skipped.  A
\* set of one.
Relevant ==
    [terms \in Queries |-> [candidates \in SUBSET DOMAIN Claims |->
        LET others == {c \in candidates : /\ Claims[c].lane # "identity"
                                          /\ Injectable(Claims[c].lane)
                                          /\ score_candidate[terms][c] > 0}
            FitsLane(c, selected) ==
                Spent({d \in selected : rank(terms, d, c)}, Claims[c].lane) + Claims[c].size
                    <= LaneBudget
        IN {selected \in SUBSET others :
               \A c \in others : c \in selected <=> FitsLane(c, selected)}]]

_load_related_edges(terms) ==
    First(MaxRelations, {r \in DOMAIN Relations : \/ Relations[r].subject \in terms
                                                  \/ Relations[r].object \in terms}, Listed)

-----------------------------------------------------------------------------
(* context_assembler: the user context                                     *)

\* full: projects with their tasks; otherwise the compact rendering.
NoContext == [claims |-> {}, projects |-> {}, contacts |-> {}, matches |-> {},
              episodes |-> 0, full |-> TRUE]

\* Length of the rendered block: a details entry takes two lines, a project in
\* full one for itself and one for its tasks.
_render_context(c) ==
    Cardinality(c.claims) + Cardinality(c.projects) * (IF c.full THEN 2 ELSE 1)
        + Cardinality(c.contacts) + 2 * Cardinality(c.matches) + c.episodes

\* The engine's share for the intent of a turn.
allocate_token_budget(claims) == Min({Cardinality(claims), TokenBudget \div TokensPerClaim})

\* Confirmed before unconfirmed, locked before unlocked, then by confidence.
Importance(c) == (IF Claims[c].confirmed THEN 2 ELSE 0) + (IF Claims[c].locked THEN 1 ELSE 0)
MoreImportant(c, d) ==
    \/ Importance(c) > Importance(d)
    \/ Importance(c) = Importance(d) /\ MoreConfident(c, d)

_prioritize_claims(claims, dropped) ==
    First(Min({MaxClaims, Cardinality(claims)}) - dropped, claims, MoreImportant)

\* The compact rendering less n items: contacts go first, then claims, then
\* projects.  Recalled episodes and tasks are gone already.
render_compact(c, n) ==
    LET contacts == Cardinality(c.contacts)
        claims == Cardinality(c.claims)
        projects == Cardinality(c.projects)
    IN [claims |-> _prioritize_claims(c.claims, Max({0, n - contacts})),
        projects |-> First(projects - Max({0, n - contacts - claims}), c.projects, Listed),
        contacts |-> First(contacts - n, c.contacts, Listed),
        matches |-> c.matches, episodes |-> 0, full |-> FALSE]

\* How many items have to be dropped at least.
Enough(c) ==
    {n \in 0..(Cardinality(c.contacts) + Cardinality(c.claims) + Cardinality(c.projects)) :
        _render_context(render_compact(c, n)) <= CharLimit}

\* Mutant: the people the message is about are dropped like everybody else.
CompactedWithoutDetails(c) ==
    LET others == [c EXCEPT !.matches = {}]
    IN IF Enough(others) = {} THEN NoContext ELSE render_compact(others, Min(Enough(others)))

\* As little as possible is dropped; what still does not fit becomes empty.
Compacted(c) == IF Enough(c) = {} THEN NoContext ELSE render_compact(c, Min(Enough(c)))

\* Mutant: the limit is compared before the episodes are added.
FittedWithoutRecall(c) ==
    IF _render_context([c EXCEPT !.episodes = 0]) <= CharLimit THEN c ELSE Compacted(c)

Fitted(c) == IF _render_context(c) <= CharLimit THEN c ELSE Compacted(c)

-----------------------------------------------------------------------------
(* State                                                                   *)

VARIABLES
    store,  \* the rows there are, by their positions
    prompt  \* the prompt being prepared

promptVars == <<store, prompt>>

Stored == [claims : SUBSET DOMAIN Claims, contacts : SUBSET DOMAIN Contacts,
           projects : SUBSET DOMAIN Projects]

Messages == [workspace : DOMAIN Projects \union {0}, local : BOOLEAN, terms : Queries]

\* pending: the calls of get_project still to come; knowledge: the excerpts of
\* the workspace; claims, projects, contacts: as read.
NoPrompt == [phase |-> "idle", input |-> [workspace |-> 0, local |-> FALSE, terms |-> {}],
             pending |-> {}, knowledge |-> {}, claims |-> {}, projects |-> {}, contacts |-> {},
             context |-> NoContext, identity |-> {}, relevant |-> {}, related |-> {}]

PromptInit == store \in Stored /\ prompt = NoPrompt

Reached(phase) == prompt.phase = phase

-----------------------------------------------------------------------------
(* The turn                                                                *)

\* In a workspace, build loads the project and four lists of its children; each
\* of the five looks the project up again.
_build_llm_messages(input) ==
    /\ Reached("idle")
    /\ prompt' = IF input.workspace = 0
                 THEN [NoPrompt EXCEPT !.phase = "claims", !.input = input]
                 ELSE [NoPrompt EXCEPT !.phase = "workspace", !.input = input,
                                       !.pending = {input.workspace} \X (1..5)]
    /\ UNCHANGED store

\* In the order of the list.  NotFoundError ends the turn.
get_project ==
    /\ prompt.phase \in {"workspace", "tasks"}
    /\ \E call \in prompt.pending :
          /\ \A other \in prompt.pending \ {call} :
                call[1] < other[1] \/ (call[1] = other[1] /\ call[2] < other[2])
          /\ prompt' = IF call[1] \in store.projects
                       THEN [prompt EXCEPT !.pending = @ \ {call}]
                       ELSE [prompt EXCEPT !.phase = "failed"]
    /\ UNCHANGED store

build ==
    /\ Reached("workspace") /\ prompt.pending = {}
    /\ \E selected \in _select_knowledge[prompt.input.workspace][prompt.input.terms] :
          prompt' = [prompt EXCEPT !.phase = "claims", !.knowledge = selected]
    /\ UNCHANGED store

\* The share of the budget is taken from the front, before any priority.
list_claims ==
    /\ Reached("claims")
    /\ LET allowed == Allowed(store.claims, Claims, prompt.input.local)
           limit == Min({MaxClaims, allocate_token_budget(allowed)})
       IN prompt' = [prompt EXCEPT
                        !.phase = IF prompt.input.workspace = 0 THEN "projects" ELSE "contacts",
                        !.claims = First(limit, allowed, Listed)]
    /\ UNCHANGED store

\* Projects are not filtered by sensitivity.  list_tasks asks for each again.
list_projects ==
    /\ Reached("projects")
    /\ prompt' = [prompt EXCEPT !.phase = "tasks", !.projects = store.projects,
                                !.pending = store.projects \X {1}]
    /\ UNCHANGED store

list_tasks ==
    /\ Reached("tasks") /\ prompt.pending = {}
    /\ prompt' = [prompt EXCEPT !.phase = "contacts"]
    /\ UNCHANGED store

\* Mutant: private contacts are counted as withheld, and matched all the same.
ListAllContacts ==
    /\ Reached("contacts")
    /\ prompt' = [prompt EXCEPT !.phase = "recall", !.contacts = store.contacts]
    /\ UNCHANGED store

list_contacts ==
    /\ Reached("contacts")
    /\ prompt' = [prompt EXCEPT !.phase = "recall",
                     !.contacts = Allowed(store.contacts, Contacts, prompt.input.local)]
    /\ UNCHANGED store

\* Details are looked up among all allowed contacts, the roster is cut.
Gathered(n) ==
    [claims |-> prompt.claims, projects |-> prompt.projects,
     contacts |-> First(MaxContacts, prompt.contacts, Listed),
     matches |-> match_contacts(prompt.input.terms, prompt.contacts),
     episodes |-> n, full |-> TRUE]

\* No episode is recalled when none is close or the embedding model is away.
assemble_with_report ==
    /\ Reached("recall")
    /\ \E read \in {Gathered(n) : n \in 0..MaxEpisodes} :
          prompt' = [prompt EXCEPT !.phase = "done", !.context = Fitted(read)]
    /\ UNCHANGED store

\* GET /recall
recall(input) ==
    /\ Reached("idle") /\ input.workspace = 0
    /\ LET candidates == Allowed(store.claims, Claims, input.local)
       IN \E relevant \in Relevant[input.terms][candidates] :
             prompt' = [NoPrompt EXCEPT !.phase = "recalled", !.input = input,
                           !.identity = IdentityFloor(candidates), !.relevant = relevant,
                           !.related = _load_related_edges(input.terms)]
    /\ UNCHANGED store

Sent ==
    /\ prompt.phase \in {"done", "failed", "recalled"}
    /\ prompt' = NoPrompt
    /\ UNCHANGED store

\* Another request.
delete_project(p) ==
    /\ p \in store.projects \intersect Deletable
    /\ store' = [store EXCEPT !.projects = @ \ {p}]
    /\ UNCHANGED prompt

PromptNext ==
    \/ \E input \in Messages : _build_llm_messages(input) \/ recall(input)
    \/ get_project \/ build \/ list_claims \/ list_projects \/ list_tasks \/ list_contacts
    \/ assemble_with_report \/ Sent
    \/ \E p \in Deletable : delete_project(p)

PromptSpec == PromptInit /\ [][PromptNext]_promptVars

-----------------------------------------------------------------------------
(* Properties                                                              *)

Contexts == [claims : SUBSET DOMAIN Claims, projects : SUBSET DOMAIN Projects,
             contacts : SUBSET DOMAIN Contacts, matches : SUBSET DOMAIN Contacts,
             episodes : Nat, full : BOOLEAN]

\* What was read are rows of its table.
PromptTypeOK ==
    /\ store \in Stored
    /\ prompt \in [phase : {"idle", "workspace", "claims", "projects", "tasks", "contacts",
                            "recall", "done", "failed", "recalled"},
                   input : Messages \union {NoPrompt.input},
                   pending : SUBSET ((DOMAIN Projects) \X (1..5)),
                   knowledge : SUBSET [file : DOMAIN Files, first : Nat, last : Nat],
                   claims : SUBSET DOMAIN Claims, projects : SUBSET DOMAIN Projects,
                   contacts : SUBSET DOMAIN Contacts, context : Contexts,
                   identity : SUBSET DOMAIN Claims, relevant : SUBSET DOMAIN Claims,
                   related : SUBSET DOMAIN Relations]

Context == prompt.context
Shown == prompt.identity \union prompt.relevant

\* The user context never exceeds its limit, however much is stored, named and
\* recalled (_CHAR_LIMIT and the three loops of assemble_with_report).
ContextFits == _render_context(Context) <= CharLimit

\* Episodes are shown only next to everything else that was read, in full:
\* "Recall is the first thing to go" (assemble_with_report).
RecallGivesWay ==
    Reached("done") /\ Context.episodes > 0 =>
        /\ Context.full
        /\ Context.claims = prompt.claims /\ Context.projects = prompt.projects
        /\ Context.contacts = First(MaxContacts, prompt.contacts, Listed)

\* As long as the block says anything, it holds the entries of the people the
\* message names: the roster of everybody else goes first.
NamedPeopleSurvive ==
    Reached("done") /\ Context # NoContext =>
        Context.matches = match_contacts(prompt.input.terms, prompt.contacts)

\* No claim or contact that is S3 or S4 is in a block for a provider that is not
\* local: neither listed, nor matched by name, nor recalled, nor kept by compaction.
WithheldStaysOut ==
    ~prompt.input.local =>
        /\ \A c \in Context.claims \union Shown :
              Claims[c].sensitivity \notin _LOCAL_ONLY_SENSITIVITIES
        /\ \A c \in Context.contacts \union Context.matches :
              Contacts[c].sensitivity \notin _LOCAL_ONLY_SENSITIVITIES

\* The message names somebody by nothing but a first name that rows share.
Guessed(c, rows) ==
    /\ Contacts[c].first \in prompt.input.terms
    /\ {Contacts[c].last, Contacts[c].company, Contacts[c].role}
          \intersect prompt.input.terms = {}
    /\ Contacts[c].tags \intersect prompt.input.terms = {}
    /\ \E d \in rows \ {c} : Contacts[d].first = Contacts[c].first

\* "Two Lisas in the address book mean a bare Lisa identifies nobody": no entry
\* is shown because of a first name that several of the contacts read carry.
GuessesNobody ==
    Reached("done") => \A c \in Context.matches : ~Guessed(c, prompt.contacts)

\* File knowledge keeps its budget and loses nothing that would fit: whole files
\* if they fit, otherwise no excerpt left out fits next to those chosen.
KnowledgeIsMaximal ==
    prompt.input.workspace # 0 /\ prompt.phase \notin {"workspace", "failed"} =>
        LET p == prompt.input.workspace
        IN /\ Length(prompt.knowledge) <= KnowledgeBudget
           /\ Length(Whole[p]) <= KnowledgeBudget => prompt.knowledge = Whole[p]
           /\ Length(Whole[p]) > KnowledgeBudget =>
                 \A e \in Chunks[p] \ prompt.knowledge :
                    Length(prompt.knowledge) + Length({e}) > KnowledgeBudget

\* No lane gets more than its budget in the recall block, the authorization lane
\* nothing, and what is left out of a lane is either irrelevant or does not fit.
LanesKeepBudget ==
    Reached("recalled") =>
        LET candidates == Allowed(store.claims, Claims, prompt.input.local)
        IN /\ \A c \in Shown : Spent(Shown, Claims[c].lane) <= LaneBudget
           /\ \A c \in Shown : Claims[c].lane # "authorization"
           /\ \A c \in candidates \ Shown :
                 \/ Claims[c].lane = "authorization"
                 \/ Claims[c].lane # "identity" /\ score_candidate[prompt.input.terms][c] = 0
                 \/ Spent(Shown, Claims[c].lane) + Claims[c].size > LaneBudget
                 \/ /\ Claims[c].lane = "identity"
                    /\ \E d \in candidates \ Shown :
                          /\ Claims[d].lane = "identity"
                          /\ Spent(Shown, "identity") + Claims[d].size > LaneBudget

\* The block fits, and what had to give way for that gave way in the right order.
BlockFits == PromptTypeOK /\ ContextFits /\ RecallGivesWay

\* Exactly the people the message names are described in full: nobody is guessed
\* and nobody who is named is lost to the limit.
MentionedPeople == NamedPeopleSurvive /\ GuessesNobody

\* Budgets are kept and what is left of them could not have been used.
BudgetsWellUsed == KnowledgeIsMaximal /\ LanesKeepBudget
=============================================================================
