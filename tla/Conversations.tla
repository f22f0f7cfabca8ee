---------------------------- MODULE Conversations ----------------------------
(***************************************************************************)
(* Chats and what is remembered of them: a turn recalls episodes of        *)
(* earlier chats and reads the recent history, asks the model, and appends *)
(* its question and its answer; the index job turns messages into episodes *)
(* every half hour; the user deletes chats and workspaces at any time.     *)
(*                                                                         *)
(* A desk handles one turn after the other, a worker one index run after   *)
(* the other; both stop at every await and every commit.  Each operation   *)
(* commits by itself, and nothing is locked.                               *)
(***************************************************************************)
EXTENDS Integers, Sequences, FiniteSets, FiniteSetsExt

CONSTANTS
    Chats,         \* conversation ids
    Workspaces,    \* the projects chats may belong to
    Desks,         \* concurrent turn requests
    Workers,       \* Celery workers that run the index job at every beat
    LateWorkers,   \* workers that get a slow run's task a second time
    Inputs,        \* what a turn may be about; see TurnInput
    MaxTurns,      \* bound: turns
    MaxRedeliveries,  \* bound: runs of the late workers
    MaxMessagesPerRun, HistoryLimit, HistoryChars, MaxEpisodes,
    Deletable,     \* chats and workspaces the user may delete
    MayVanish,     \* desks and workers that may die at any await
    None

Sensitivities == {"S0", "S1", "S2", "S3", "S4"}

\* chat None: a new chat.  local: the context is assembled for a provider on this
\* machine.  long: question and answer are long enough to be embedded.
TurnInput == [chat : Chats \union {None}, workspace : Workspaces \union {None},
              sensitivity : Sensitivities, local : BOOLEAN, long : BOOLEAN]

Runners == Workers \union LateWorkers

ASSUME ConversationAssumption ==
    /\ Inputs \subseteq TurnInput
    /\ None \notin Chats \union Workspaces
    /\ {MaxTurns, MaxRedeliveries, MaxMessagesPerRun, HistoryLimit, HistoryChars,
        MaxEpisodes} \subseteq Nat
    /\ MaxMessagesPerRun > 0
    /\ IsFiniteSet(Runners)
    /\ MayVanish \subseteq Desks \union Runners /\ Deletable \subseteq Chats \union Workspaces

VARIABLES
    chats,       \* conversations: each id with its workspace or None
    workspaces,  \* projects that are not deleted
    messages,    \* conversation_messages
    episodes,    \* episodes
    desk,        \* desk[d]: the turn handled there
    worker,      \* worker[w]: the index run handled there
    asked,       \* history: the inputs of all turns so far, in order
    redelivered, \* number of runs of the late workers so far
    used,        \* history: ids given to chats so far
    collided,    \* history: pairs of turns that held the next number together
    shared       \* history: messages that were in two batches at a time

vars == <<chats, workspaces, messages, episodes, desk, worker, redelivered, asked, used, collided,
          shared>>
Tables == <<chats, workspaces, messages, episodes>>
History == <<redelivered, asked, used, collided, shared>>

CLOUD_SAFE_SENSITIVITIES == {"S0", "S1", "S2"}
Roles == {"user", "assistant"}

\* A message is known by its turn and its role.
ConversationMessage == [turn : 1..MaxTurns, role : Roles, chat : Chats,
                        seq : 1..(2 * MaxTurns), sensitivity : Sensitivities, long : BOOLEAN]

\* There is no foreign key: an episode outlives its chat.  And no unique key:
\* copy numbers the episodes of one message.
Episode == [turn : 1..MaxTurns, role : Roles, chat : Chats, seq : 1..(2 * MaxTurns),
            sensitivity : Sensitivities, embedded : BOOLEAN, copy : 1..Cardinality(Runners)]

Id(row) == [turn |-> row.turn, role |-> row.role]
Ids == [turn : 1..MaxTurns, role : Roles]

NoInput == [chat |-> None, workspace |-> None, sensitivity |-> "S0", local |-> TRUE, long |-> FALSE]

\* workspace: the one the turn runs in; history, recalled: what the prompt holds
\* while the model is asked; saving: the roles still to be appended; seq: the number read for the next one.
IdleDesk == [phase |-> "idle", turn |-> 0, input |-> NoInput, chat |-> None, workspace |-> None,
             history |-> {}, recalled |-> {}, saving |-> << >>, seq |-> 0]
IdleWorker == [phase |-> "idle", batch |-> {}]

At(d, phase) == desk[d].phase = phase
Set(d, rec) == desk' = [desk EXCEPT ![d] = rec]
End(d) == Set(d, IdleDesk)

Init ==
    /\ chats = [c \in {} |-> None]
    /\ workspaces = Workspaces
    /\ messages = {} /\ episodes = {}
    /\ desk = [d \in Desks |-> IdleDesk]
    /\ worker = [w \in Runners |-> IdleWorker]
    /\ redelivered = 0 /\ asked = << >> /\ used = {} /\ collided = {} /\ shared = {}

-----------------------------------------------------------------------------
(* The prompt of a turn                                                    *)

\* The workspace asked for, or else the one of the chat.
_resolve_project_context(input) ==
    IF input.workspace # None \/ input.chat = None THEN input.workspace ELSE chats[input.chat]

\* An unknown chat or workspace ends the turn before it has done anything.
_prepare_turn(d, input) ==
    /\ At(d, "idle") /\ Len(asked) < MaxTurns
    /\ input.chat # None => input.chat \in DOMAIN chats
    /\ _resolve_project_context(input) \in workspaces \union {None}
    /\ Set(d, [IdleDesk EXCEPT !.phase = "recall", !.turn = Len(asked) + 1, !.input = input,
                               !.chat = input.chat,
                               !.workspace = _resolve_project_context(input)])
    /\ asked' = Append(asked, input)
    /\ UNCHANGED <<Tables, worker, redelivered, used, collided, shared>>

Recallable(d) ==
    {e \in episodes : /\ e.embedded
                      /\ desk[d].input.local \/ e.sensitivity \in CLOUD_SAFE_SENSITIVITIES
                      /\ e.chat # desk[d].chat}

\* The closest ones; which are close is left open, down to none.  A model that
\* does not answer gives none as well.
recall(d) ==
    /\ At(d, "recall")
    /\ \E close \in SUBSET Recallable(d) :
          /\ Cardinality(close) <= MaxEpisodes
          /\ Set(d, [desk[d] EXCEPT !.phase = "history", !.recalled = {Id(e) : e \in close}])
    /\ UNCHANGED <<Tables, worker, History>>

\* The first ones of rows, newest first; equal numbers, which only overlapping
\* turns give, in any order.
NewestFirst(first, rows) ==
    first \subseteq rows /\ \A m \in first, n \in rows \ first : m.seq >= n.seq

\* Two lines of history for a long message, one for a short one.
Chars(rows) == Cardinality(rows) + Cardinality({m \in rows : m.long})

\* The last messages, of these the ones that may be shown, of these as many as
\* fit up to the first that does not.
recent_history(chat, local) ==
    LET all == {m \in messages : m.chat = chat}
        limit == Min({HistoryLimit, Cardinality(all)})
        allowed(last) == {m \in last : local \/ m.sensitivity \in CLOUD_SAFE_SENSITIVITIES}
        ends(selected, rows) ==
            /\ NewestFirst(selected, rows) /\ Chars(selected) <= HistoryChars
            /\ \/ selected = rows
               \/ \E m \in rows \ selected : /\ NewestFirst(selected \union {m}, rows)
                                             /\ Chars(selected \union {m}) > HistoryChars
    IN {selected \in SUBSET all :
          \E last \in kSubset(limit, all) :
            NewestFirst(last, all) /\ ends(selected, allowed(last))}

_build_llm_messages(d) ==
    /\ At(d, "history")
    /\ \E selected \in recent_history(desk[d].chat, desk[d].input.local) :
          Set(d, [desk[d] EXCEPT !.phase = "chat", !.history = {Id(m) : m \in selected}])
    /\ UNCHANGED <<Tables, worker, History>>

-----------------------------------------------------------------------------
(* Saving the turn                                                         *)

\* The model answers, with text or without, or fails.
Answer(d) ==
    /\ At(d, "chat")
    /\ \/ \E roles \in {<<"user", "assistant">>, <<"user">>} :
             Set(d, [desk[d] EXCEPT !.phase = IF desk[d].chat = None THEN "create" ELSE "seq",
                                    !.saving = roles, !.history = {}, !.recalled = {}])
       \/ End(d)
    /\ UNCHANGED <<Tables, worker, History>>

\* The workspace may be gone by now; then the foreign key ends the turn.
create_conversation(d) ==
    /\ At(d, "create")
    /\ \/ /\ desk[d].workspace \in workspaces \union {None}
          /\ \E c \in Chats \ used :
                /\ chats' = [x \in DOMAIN chats \union {c} |->
                                IF x = c THEN desk[d].workspace ELSE chats[x]]
                /\ used' = used \union {c}
                /\ Set(d, [desk[d] EXCEPT !.phase = "seq", !.chat = c])
       \/ desk[d].workspace \notin workspaces \union {None} /\ End(d) /\ UNCHANGED <<chats, used>>
    /\ UNCHANGED <<workspaces, messages, episodes, worker, redelivered, asked, collided, shared>>

\* Mutant: only questions are looked at.
next_seq_after_question(chat) ==
    1 + Max({0} \union {m.seq : m \in {n \in messages : n.chat = chat /\ n.role = "user"}})

next_seq(chat) == 1 + Max({0} \union {m.seq : m \in {n \in messages : n.chat = chat}})

Holding(chat) == {e \in Desks : At(e, "insert") /\ desk[e].chat = chat}

\* append_message: SELECT max(seq).
ReadSeq(d) ==
    /\ At(d, "seq")
    /\ Set(d, [desk[d] EXCEPT !.phase = "insert",
                              !.seq = next_seq(desk[d].chat)])
    /\ collided' = collided \union {{desk[d].turn, desk[e].turn} : e \in Holding(desk[d].chat)}
    /\ UNCHANGED <<Tables, worker, redelivered, asked, used, shared>>

\* Mutant: the answer gets the default of the column.
MessageUnlabelled(d) ==
    [turn |-> desk[d].turn, role |-> Head(desk[d].saving), chat |-> desk[d].chat,
     seq |-> desk[d].seq, long |-> desk[d].input.long,
     sensitivity |-> IF Head(desk[d].saving) = "user" THEN desk[d].input.sensitivity ELSE "S0"]

Message(d) ==
    [turn |-> desk[d].turn, role |-> Head(desk[d].saving), chat |-> desk[d].chat,
     seq |-> desk[d].seq, sensitivity |-> desk[d].input.sensitivity, long |-> desk[d].input.long]

\* append_message: INSERT and UPDATE of the chat in one commit, which fails for a
\* deleted chat.  Then the answer, if there is one.
append_message(d) ==
    /\ At(d, "insert")
    /\ IF desk[d].chat \in DOMAIN chats
       THEN /\ messages' = messages \union {Message(d)}
            /\ IF Len(desk[d].saving) = 1 THEN End(d)
               ELSE Set(d, [desk[d] EXCEPT !.phase = "seq", !.saving = Tail(desk[d].saving)])
       ELSE End(d) /\ UNCHANGED messages
    /\ UNCHANGED <<chats, workspaces, episodes, worker, History>>

\* The client is gone, or the process is.
Vanish(d) ==
    /\ d \in MayVanish /\ ~At(d, "idle")
    /\ End(d)
    /\ UNCHANGED <<Tables, worker, History>>

-----------------------------------------------------------------------------
(* The index job                                                           *)

\* Mutant: an episode of the chat will do.
HasEpisodeInChat(m) == \E e \in episodes : e.chat = m.chat

has_episode(m) == \E e \in episodes : e.chat = m.chat /\ e.seq = m.seq

\* The limit takes the oldest by created_at, the start of the transaction that
\* wrote it; the order of those is not kept here, so any choice is possible.
_unindexed_messages ==
    LET unindexed == {m \in messages : ~has_episode(m)}
    IN kSubset(Min({MaxMessagesPerRun, Cardinality(unindexed)}), unindexed)

\* Without anything to do the run ends.  A late worker gets the task of a run that
\* has not finished (task_acks_late).
index_user(w) ==
    /\ worker[w].phase = "idle"
    /\ IF w \in Workers THEN UNCHANGED redelivered
       ELSE /\ redelivered < MaxRedeliveries /\ redelivered' = redelivered + 1
            /\ \E v \in Workers : worker[v].phase # "idle"
    /\ \E batch \in _unindexed_messages \ {{}} :
          /\ worker' = [worker EXCEPT ![w] = [phase |-> "embed", batch |-> batch]]
          /\ shared' = shared \union
                 {Id(m) : m \in batch \intersect UNION {worker[v].batch : v \in Runners \ {w}}}
    /\ UNCHANGED <<Tables, desk, asked, used, collided>>

Rows(batch, embedded) ==
    {[turn |-> m.turn, role |-> m.role, chat |-> m.chat, seq |-> m.seq,
      sensitivity |-> m.sensitivity, embedded |-> m.long /\ embedded,
      copy |-> 1 + Cardinality({e \in episodes : Id(e) = Id(m)})] : m \in batch}

\* Mutant: the messages are marked as done.
EmbedFailsWithoutVectors(w) ==
    /\ worker[w].phase = "embed"
    /\ \E m \in worker[w].batch : m.long
    /\ worker' = [worker EXCEPT ![w] = IdleWorker]
    /\ episodes' = episodes \union Rows(worker[w].batch, FALSE)
    /\ UNCHANGED <<chats, workspaces, messages, desk, History>>

\* One batch that cannot be trusted ends the run with nothing written.
EmbedFails(w) ==
    /\ worker[w].phase = "embed"
    /\ \E m \in worker[w].batch : m.long
    /\ worker' = [worker EXCEPT ![w] = IdleWorker]
    /\ UNCHANGED <<Tables, desk, History>>

\* The vectors have come; a batch without long messages needs none.  One commit
\* for all; the messages may be deleted or indexed by now.
WriteEpisodes(w) ==
    /\ worker[w].phase = "embed"
    /\ episodes' = episodes \union Rows(worker[w].batch, TRUE)
    /\ worker' = [worker EXCEPT ![w] = IdleWorker]
    /\ UNCHANGED <<chats, workspaces, messages, desk, History>>

\* The worker dies; the task is delivered again, or comes with the next beat.
Die(w) ==
    /\ w \in MayVanish /\ worker[w].phase # "idle"
    /\ worker' = [worker EXCEPT ![w] = IdleWorker]
    /\ UNCHANGED <<Tables, desk, History>>

-----------------------------------------------------------------------------
(* The user deletes                                                        *)

\* The messages go with the chat (ON DELETE CASCADE).
delete_conversation(c) ==
    /\ c \in DOMAIN chats \intersect Deletable
    /\ chats' = [x \in DOMAIN chats \ {c} |-> chats[x]]
    /\ messages' = {m \in messages : m.chat # c}
    /\ UNCHANGED <<workspaces, episodes, desk, worker, History>>

\* Its chats stay, outside any workspace (ON DELETE SET NULL).
delete_project(p) ==
    /\ p \in workspaces \intersect Deletable
    /\ workspaces' = workspaces \ {p}
    /\ chats' = [c \in DOMAIN chats |-> IF chats[c] = p THEN None ELSE chats[c]]
    /\ UNCHANGED <<messages, episodes, desk, worker, History>>

-----------------------------------------------------------------------------

Turn(d) == recall(d) \/ _build_llm_messages(d) \/ Answer(d) \/ create_conversation(d)
           \/ ReadSeq(d) \/ append_message(d)

Next ==
    \/ \E d \in Desks : (\E input \in Inputs : _prepare_turn(d, input)) \/ Turn(d) \/ Vanish(d)
    \/ \E w \in Runners : index_user(w) \/ EmbedFails(w) \/ WriteEpisodes(w) \/ Die(w)
    \/ \E c \in Chats : delete_conversation(c)
    \/ \E p \in Workspaces : delete_project(p)

Spec == Init /\ [][Next]_vars

\* The beat starts the job for ever, the embedding model answers again and again
\* when it is asked, and no worker dies in every run.
FairSpec ==
    /\ Spec
    /\ \A w \in Workers : WF_vars(index_user(w)) /\ SF_vars(WriteEpisodes(w))

-----------------------------------------------------------------------------
(* Properties                                                              *)

\* Every row refers to a row that exists: messages to their chat, chats to their
\* workspace (the foreign keys of models/conversation.py).
TypeOK ==
    /\ DOMAIN chats \subseteq used /\ used \subseteq Chats
    /\ \A c \in DOMAIN chats : chats[c] \in workspaces \union {None}
    /\ workspaces \subseteq Workspaces
    /\ messages \subseteq ConversationMessage
    /\ \A m \in messages : m.chat \in DOMAIN chats
    /\ episodes \subseteq Episode
    /\ asked \in Seq(Inputs) /\ Len(asked) <= MaxTurns
    /\ \A d \in Desks :
          /\ DOMAIN desk[d] = DOMAIN IdleDesk
          /\ desk[d].phase \in {"idle", "recall", "history", "chat", "create", "seq", "insert"}
          /\ desk[d].history \union desk[d].recalled \subseteq Ids
    /\ \A w \in Runners : /\ worker[w].phase \in {"idle", "embed"}
                          /\ worker[w].batch \subseteq ConversationMessage

\* A prompt for a provider that is not local holds no word of a turn that was
\* classified S3 or S4: neither question nor answer, neither as history nor by
\* way of the index and the recall ("prior sensitive turns never leave the local
\* boundary", recent_history).
CloudSeesLow ==
    \A d \in Desks : ~desk[d].input.local =>
        \A i \in desk[d].history \union desk[d].recalled :
            asked[i.turn].sensitivity \in CLOUD_SAFE_SENSITIVITIES

\* Two messages of a chat have the same number only if their turns held the next
\* number at the same time (append_message reads the maximum, then inserts).
NumberSharedByOverlap ==
    \A m, n \in messages : m # n /\ m.chat = n.chat /\ m.seq = n.seq => {m.turn, n.turn} \in collided

\* An answer comes after its question, whatever other turns append in between.
AnswerAfterQuestion ==
    \A m, n \in messages :
        m.turn = n.turn /\ m.role = "user" /\ n.role = "assistant" => m.seq < n.seq

\* What is long enough to be found has a vector: no failed embedding marks a
\* message as done ("unsearchable forever", index_user).
LongIsSearchable == \A e \in episodes : asked[e.turn].long => e.embedded

\* No message is in the prompt twice, as history and as a recalled episode.
NoEcho == \A d \in Desks : desk[d].history \intersect desk[d].recalled = {}

\* A message has a second episode only if two runs had it in their batches at the
\* same time; a run that starts after the other has written finds it done.
CopiesByOverlap == \A e \in episodes : e.copy > 1 => Id(e) \in shared

NumberShared(i) ==
    \E m \in messages : /\ Id(m) = i
                        /\ \E row \in messages \union episodes :
                              row.chat = m.chat /\ row.seq = m.seq /\ Id(row) # i

\* Every message becomes an episode, unless its chat is deleted or it shares its
\* number with another one.
EverythingIndexed ==
    \A i \in Ids :
        (\E m \in messages : Id(m) = i) ~>
            \/ \E e \in episodes : Id(e) = i
            \/ ~\E m \in messages : Id(m) = i
            \/ NumberShared(i)

\* Nothing reaches a prompt that may not be in it or already is.
PromptIsClean == CloudSeesLow /\ NoEcho

\* A chat can be read in the order of its numbers, as far as turns did not overlap.
ChatsStayOrdered == TypeOK /\ NumberSharedByOverlap /\ AnswerAfterQuestion

\* The index holds what can be found, once, as far as runs did not overlap.
IndexIsUsable == LongIsSearchable /\ CopiesByOverlap
=============================================================================
