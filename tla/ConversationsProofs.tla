------------------------ MODULE ConversationsProofs ------------------------
(***************************************************************************)
(* What holds of every number of chats, turns, desks and index runs.       *)
(*                                                                         *)
(* A line is what its rows have in common: the message, its copies in the  *)
(* batches of index runs and its episodes.  Messages disappear with their  *)
(* chat while the other rows stay; so most of what has to be known of rows *)
(* is said of lines.                                                       *)
(***************************************************************************)
EXTENDS Conversations, FiniteSetTheorems, WellFoundedInduction, TLAPS

Line(row) == [turn |-> row.turn, role |-> row.role, chat |-> row.chat, seq |-> row.seq,
              sensitivity |-> row.sensitivity]

Held == UNION {worker[w].batch : w \in Runners}
Lines == {Line(row) : row \in messages \union Held \union episodes}

-----------------------------------------------------------------------------
(* Types                                                                   *)

Phases == {"idle", "recall", "history", "chat", "create", "seq", "insert"}
Savings == {<< >>, <<"user", "assistant">>, <<"user">>, <<"assistant">>}

DeskType == [phase : Phases, turn : 0..MaxTurns, input : Inputs \union {NoInput},
             chat : Chats \union {None}, workspace : Workspaces \union {None},
             history : SUBSET Ids, recalled : SUBSET Ids, saving : Savings, seq : Nat]

WorkerType == [phase : {"idle", "embed"}, batch : SUBSET ConversationMessage]

TableTypes ==
    /\ DOMAIN chats \subseteq used /\ used \subseteq Chats
    /\ \A c \in DOMAIN chats : chats[c] \in workspaces \union {None}
    /\ workspaces \subseteq Workspaces
    /\ messages \subseteq ConversationMessage /\ IsFiniteSet(messages)
    /\ \A m \in messages : m.chat \in DOMAIN chats
    /\ episodes \subseteq Episode

ActorTypes ==
    /\ asked \in Seq(Inputs) /\ Len(asked) <= MaxTurns
    /\ desk \in [Desks -> DeskType]
    /\ worker \in [Runners -> WorkerType]

Types == TableTypes /\ ActorTypes

-----------------------------------------------------------------------------
(* What is known of lines                                                  *)

\* Every line is of a turn that was asked, and labelled as it was.
Labelled ==
    /\ \A x \in Lines : x.turn \in 1..Len(asked) /\ x.sensitivity = asked[x.turn].sensitivity
    /\ \A m \in messages \union Held : m.long = asked[m.turn].long
    /\ LongIsSearchable

\* A turn writes at most one line in each role.
OneLine == \A x, y \in Lines : x.turn = y.turn /\ x.role = y.role => x = y

-----------------------------------------------------------------------------
(* What is known of desks                                                  *)

DeskKnows(d) ==
    /\ At(d, "idle") => desk[d] = IdleDesk
    /\ ~At(d, "idle") => desk[d].turn \in 1..Len(asked) /\ desk[d].input = asked[desk[d].turn]
    /\ desk[d].phase \in {"seq", "insert"} => desk[d].chat \in Chats /\ desk[d].saving # << >>
    /\ At(d, "create") => /\ desk[d].chat = None
                          /\ desk[d].saving \in {<<"user", "assistant">>, <<"user">>}
    /\ desk[d].chat \in used \union {None}

OneDeskEach ==
    \A d, e \in Desks : d # e /\ ~At(d, "idle") /\ ~At(e, "idle") => desk[d].turn # desk[e].turn

\* What a desk has still to write is not there; what is there of its turn is in
\* its chat.
Fresh ==
    \A d \in Desks, x \in Lines :
        x.turn = desk[d].turn =>
            /\ desk[d].phase \in {"seq", "insert"} /\ desk[d].saving = <<"assistant">>
            /\ x.role = "user" /\ x.chat = desk[d].chat

Desked == (\A d \in Desks : DeskKnows(d)) /\ OneDeskEach /\ Fresh

-----------------------------------------------------------------------------
(* The numbers                                                             *)

\* Whatever has been appended since the desk read the maximum is of a turn that
\* held the next number as well.
Overlapped ==
    /\ \A d, e \in Desks :
          d # e /\ At(d, "insert") /\ At(e, "insert") /\ desk[d].chat = desk[e].chat =>
              {desk[d].turn, desk[e].turn} \in collided
    /\ \A d \in Desks, n \in messages :
          At(d, "insert") /\ n.chat = desk[d].chat /\ n.seq >= desk[d].seq =>
              n.turn # desk[d].turn /\ {desk[d].turn, n.turn} \in collided

InChat(c) == {m \in messages : m.chat = c}

\* No number is larger than the number of messages.
Counted ==
    /\ \A m \in messages : m.seq <= Cardinality(InChat(m.chat))
    /\ \A d \in Desks : At(d, "insert") =>
          /\ desk[d].seq >= 1
          /\ desk[d].chat \in DOMAIN chats => desk[d].seq <= 1 + Cardinality(InChat(desk[d].chat))

Ordered == Overlapped /\ Counted /\ NumberSharedByOverlap /\ AnswerAfterQuestion

-----------------------------------------------------------------------------
(* The prompts                                                             *)

\* What is recalled comes from episodes of other chats, and nothing in the prompt
\* of a provider that is not local is too sensitive.
PromptKnows(d) ==
    /\ desk[d].phase \notin {"history", "chat"} => desk[d].recalled = {}
    /\ ~At(d, "chat") => desk[d].history = {}
    /\ \A i \in desk[d].recalled : \E e \in episodes : Id(e) = i /\ e.chat # desk[d].chat
    /\ \A i \in desk[d].history \union desk[d].recalled :
          /\ i.turn \in 1..Len(asked)
          /\ ~desk[d].input.local => asked[i.turn].sensitivity \in CLOUD_SAFE_SENSITIVITIES
    /\ desk[d].history \intersect desk[d].recalled = {}

Prompts == \A d \in Desks : PromptKnows(d)

-----------------------------------------------------------------------------
(* The index                                                               *)

Copies(i) == {e \in episodes : Id(e) = i}
Holders(i) == {w \in Runners : \E m \in worker[w].batch : Id(m) = i}

Indexed ==
    /\ \A i \in Ids : IsFiniteSet(Copies(i))
    /\ \A i \in Ids : Cardinality(Copies(i)) + Cardinality(Holders(i)) <= Cardinality(Runners)
    /\ \A i \in Ids, v, w \in Runners : v # w /\ {v, w} \subseteq Holders(i) => i \in shared
    /\ \A i \in Ids : Copies(i) # {} /\ Holders(i) # {} => i \in shared
    /\ CopiesByOverlap

ConversationInv == Types /\ Labelled /\ OneLine /\ Desked /\ Ordered /\ Prompts /\ Indexed

-----------------------------------------------------------------------------
(* Lemmas about the operators                                              *)

\* A set of numbers up to n has a largest one, and Max returns it.
LEMMA MaxIsLargest ==
    ASSUME NEW S \in SUBSET Nat, S # {}, NEW n \in Nat, \A x \in S : x <= n
    PROVE  Max(S) \in S /\ \A y \in S : Max(S) >= y
<1> DEFINE B == {n - x : x \in S}
<1>1. B \subseteq Nat /\ B # {}
  <2>1. \A x \in S : n - x \in Nat
    OBVIOUS
  <2>2. PICK x \in S : TRUE
    OBVIOUS
  <2> QED
    BY <2>1, <2>2
<1>2. PICK least \in B : \A y \in B : ~(<<y, least>> \in OpToRel(<, Nat))
  <2> HIDE DEF B
  <2> QED
    BY <1>1, WFMin, NatLessThanWellFounded
<1>3. \A y \in B : least <= y
  <2> SUFFICES ASSUME NEW y \in B PROVE least <= y
    OBVIOUS
  <2>1. ~(y < least)
    BY <1>1, <1>2 DEF OpToRel
  <2> QED
    BY <1>1, <2>1
<1>4. PICK top \in S : least = n - top
  OBVIOUS
<1>5. \A y \in S : top >= y
  BY <1>3, <1>4
<1> QED
  BY <1>5 DEF Max

\* Rows with different ids are at most two for each turn.
LEMMA TwoPerTurn ==
    ASSUME NEW M, \A m \in M : m.turn \in 1..MaxTurns /\ m.role \in Roles,
           \A m, n \in M : Id(m) = Id(n) => m = n
    PROVE  IsFiniteSet(M) /\ Cardinality(M) <= 2 * MaxTurns
<1>1. MaxTurns \in Nat
  BY ConversationAssumption
<1>2. IsFiniteSet(1..MaxTurns) /\ Cardinality(1..MaxTurns) = MaxTurns
  BY <1>1, FS_Interval
<1>3. IsFiniteSet(Roles) /\ Cardinality(Roles) = 2
  <2>1. IsFiniteSet({"user"}) /\ Cardinality({"user"}) = 1
    BY FS_Singleton
  <2>2. IsFiniteSet({"user"} \union {"assistant"})
        /\ Cardinality({"user"} \union {"assistant"}) = 2
    BY <2>1, FS_AddElement
  <2>3. Roles = {"user"} \union {"assistant"}
    BY DEF Roles
  <2> QED
    BY <2>2, <2>3
<1> DEFINE P == (1..MaxTurns) \X Roles
           f == [m \in M |-> <<m.turn, m.role>>]
<1>4. IsFiniteSet(P) /\ Cardinality(P) = Cardinality(1..MaxTurns) * Cardinality(Roles)
  BY <1>2, <1>3, FS_Product
<1>5. f \in [M -> P] /\ \A m, n \in M : f[m] = f[n] => m = n
  BY DEF Id
<1> HIDE DEF f, P
<1>6. f \in Injection(M, P)
  BY <1>5 DEF Injection, IsInjective
<1>7. IsFiniteSet(M) /\ Cardinality(M) <= Cardinality(P)
  BY <1>4, <1>6, FS_Injection
<1> QED
  BY <1>1, <1>2, <1>3, <1>4, <1>7

-----------------------------------------------------------------------------
(* Steps that leave one part of the invariant                              *)

\* What was asked stays; a new turn comes last.
AskedGrows == asked' = asked \/ \E input \in Inputs : asked' = Append(asked, input)

LEMMA AskedStays ==
    ASSUME ActorTypes, AskedGrows
    PROVE  /\ 1..Len(asked) \subseteq 1..Len(asked')
           /\ \A t \in 1..Len(asked) : asked'[t] = asked[t] /\ asked'[t] \in TurnInput
<1>1. asked \in Seq(TurnInput) /\ asked \in Seq(Inputs)
  BY ConversationAssumption DEF ActorTypes
<1> QED
  BY <1>1 DEF AskedGrows

\* No line and no message is new.
LinesShrink ==
    /\ Lines' \subseteq Lines
    /\ (messages \union Held)' \subseteq messages \union Held
    /\ \A e \in episodes' \ episodes :
          \E m \in messages \union Held : e.turn = m.turn /\ e.embedded = m.long

LEMMA LabelsStay ==
    ASSUME Types, Labelled, OneLine, AskedGrows, LinesShrink
    PROVE  Labelled' /\ OneLine'
<1>1. /\ 1..Len(asked) \subseteq 1..Len(asked')
      /\ \A t \in 1..Len(asked) : asked'[t] = asked[t]
  BY AskedStays DEF Types
<1>2. \A x \in Lines' : x.turn \in 1..Len(asked') /\ x.sensitivity = asked'[x.turn].sensitivity
  BY <1>1 DEF Labelled, LinesShrink
<1>3. \A row \in messages \union Held \union episodes : row.turn \in 1..Len(asked)
  <2> SUFFICES ASSUME NEW row \in messages \union Held \union episodes
               PROVE  row.turn \in 1..Len(asked)
    OBVIOUS
  <2>1. Line(row) \in Lines
    BY DEF Lines
  <2>2. Line(row).turn = row.turn
    BY DEF Line
  <2> QED
    BY <2>1, <2>2 DEF Labelled
<1>4. \A m \in (messages \union Held)' : m.long = asked'[m.turn].long
  BY <1>1, <1>3 DEF Labelled, LinesShrink
<1>5. \A e \in episodes' : asked'[e.turn].long => e.embedded
  <2> SUFFICES ASSUME NEW e \in episodes', asked'[e.turn].long PROVE e.embedded
    OBVIOUS
  <2>1. CASE e \in episodes
    BY <2>1, <1>1, <1>3 DEF Labelled, LongIsSearchable
  <2>2. CASE e \notin episodes
    <3>1. PICK m \in messages \union Held : e.turn = m.turn /\ e.embedded = m.long
      BY <2>2 DEF LinesShrink
    <3> QED
      BY <3>1, <1>1, <1>3 DEF Labelled
  <2> QED
    BY <2>1, <2>2
<1>6. OneLine'
  BY DEF OneLine, LinesShrink
<1> QED
  BY <1>2, <1>4, <1>5, <1>6 DEF Labelled, LongIsSearchable

\* A desk whose turn is new, or goes on, or is over.
LEMMA DesksGoOn ==
    ASSUME Types, Labelled, Desked, AskedGrows, used \subseteq used', NEW d \in Desks,
           \A y \in Lines' \ Lines : y.turn = desk[d].turn /\ ~At(d, "idle"),
           NEW x \in DeskType, desk' = [desk EXCEPT ![d] = x],
           DeskKnows(d)',
           \/ x.phase = "idle"
           \/ x.turn = desk[d].turn /\ ~At(d, "idle")
           \/ x.turn = Len(asked) + 1,
           \A y \in Lines' : y.turn = x.turn =>
               /\ x.phase \in {"seq", "insert"} /\ x.saving = <<"assistant">>
               /\ y.role = "user" /\ y.chat = x.chat
    PROVE  Desked'
<1>1. desk'[d] = x /\ \A e \in Desks : e # d => desk'[e] = desk[e]
  BY DEF Types, ActorTypes
<1>2. /\ 1..Len(asked) \subseteq 1..Len(asked')
      /\ \A t \in 1..Len(asked) : asked'[t] = asked[t]
  BY AskedStays DEF Types
<1>3. \A e \in Desks : DeskKnows(e)
  BY DEF Desked
<1>4. \A e \in Desks : e # d => DeskKnows(e)'
  <2> SUFFICES ASSUME NEW e \in Desks, e # d PROVE DeskKnows(e)'
    OBVIOUS
  <2>1. desk'[e] = desk[e] /\ DeskKnows(e)
    BY <1>1, <1>3
  <2> QED
    BY <2>1, <1>2 DEF DeskKnows, At
<1>5. \A e \in Desks : DeskKnows(e)'
  BY <1>1, <1>4
<1>6. Len(asked) \in Nat
  BY DEF Types, ActorTypes
<1>7. \A e \in Desks : ~At(e, "idle") => desk[e].turn \in 1..Len(asked)
  BY <1>3 DEF DeskKnows, At
<1>8. OneDeskEach'
  <2> SUFFICES ASSUME NEW e \in Desks, NEW f \in Desks, e # f,
                      desk'[e].phase # "idle", desk'[f].phase # "idle"
               PROVE  desk'[e].turn # desk'[f].turn
    BY DEF OneDeskEach, At
  <2>1. \A g \in Desks : g # d /\ desk[g].phase # "idle" /\ x.phase # "idle" => desk[g].turn # x.turn
    BY <1>6, <1>7 DEF Desked, OneDeskEach, At
  <2> QED
    BY <1>1, <2>1 DEF Desked, OneDeskEach, At
<1>9. Fresh'
  <2> SUFFICES ASSUME NEW e \in Desks, NEW y \in Lines', y.turn = desk'[e].turn
               PROVE  /\ desk'[e].phase \in {"seq", "insert"} /\ desk'[e].saving = <<"assistant">>
                      /\ y.role = "user" /\ y.chat = desk'[e].chat
    BY DEF Fresh
  <2>1. CASE e = d
    BY <1>1, <2>1
  <2>2. CASE e # d /\ y \in Lines
    BY <1>1, <2>2 DEF Desked, Fresh
  <2>3. CASE e # d /\ y \notin Lines
    <3>1. desk[e].turn = desk[d].turn /\ ~At(d, "idle")
      BY <1>1, <2>3
    <3>2. At(e, "idle")
      BY <2>3, <3>1 DEF Desked, OneDeskEach
    <3>3. desk[e].turn = 0
      BY <1>3, <3>2 DEF DeskKnows, IdleDesk
    <3>4. desk[d].turn \in 1..Len(asked)
      BY <1>7, <3>1
    <3> QED
      BY <1>6, <3>1, <3>3, <3>4
  <2> QED
    BY <2>1, <2>2, <2>3
<1> QED
  BY <1>5, <1>8, <1>9 DEF Desked

LEMMA DesksStay ==
    ASSUME Desked, desk' = desk, asked' = asked, used' = used, Lines' \subseteq Lines
    PROVE  Desked'
  BY DEF Desked, DeskKnows, OneDeskEach, Fresh, At

\* The chats that are left have the messages they had, and whoever holds a number
\* has held it before.
LEMMA NumbersStay ==
    ASSUME Types, Desked, Ordered, messages' \subseteq messages, collided \subseteq collided',
           \A m \in messages' : InChat(m.chat)' = InChat(m.chat),
           \A c \in used : c \in DOMAIN chats' => c \in DOMAIN chats /\ InChat(c)' = InChat(c),
           \A d \in Desks : desk'[d].phase = "insert" => desk'[d] = desk[d]
    PROVE  Ordered'
<1>1. Overlapped'
  <2>1. \A d \in Desks : At(d, "insert")' => At(d, "insert") /\ desk'[d] = desk[d]
    BY DEF At
  <2> QED
    BY <2>1 DEF Ordered, Overlapped
<1>2. Counted'
  <2>1. \A m \in messages' : m.seq <= Cardinality(InChat(m.chat)')
    <3> SUFFICES ASSUME NEW m \in messages' PROVE m.seq <= Cardinality(InChat(m.chat)')
      OBVIOUS
    <3>1. m.seq <= Cardinality(InChat(m.chat))
      BY DEF Ordered, Counted
    <3>2. InChat(m.chat)' = InChat(m.chat)
      OBVIOUS
    <3> QED
      BY <3>1, <3>2
  <2>2. ASSUME NEW d \in Desks, desk'[d].phase = "insert"
        PROVE  /\ desk'[d].seq >= 1
               /\ desk'[d].chat \in DOMAIN chats' =>
                    desk'[d].seq <= 1 + Cardinality({m \in messages' : m.chat = desk[d].chat})
               /\ desk'[d] = desk[d]
    <3>1. desk'[d] = desk[d] /\ At(d, "insert")
      BY <2>2 DEF At
    <3>2. /\ desk[d].seq >= 1
          /\ desk[d].chat \in DOMAIN chats => desk[d].seq <= 1 + Cardinality(InChat(desk[d].chat))
      BY <3>1 DEF Ordered, Counted
    <3>3. PICK c \in used : c = desk[d].chat
      BY <3>1, ConversationAssumption DEF Desked, DeskKnows, At, Types, TableTypes
    <3>4. c \in DOMAIN chats' => c \in DOMAIN chats /\ InChat(c)' = InChat(c)
      BY <3>3
    <3> QED
      BY <3>1, <3>2, <3>3, <3>4 DEF InChat
  <2> QED
    BY <2>1, <2>2 DEF Counted, At, InChat
<1>3. NumberSharedByOverlap' /\ AnswerAfterQuestion'
  BY DEF Ordered, NumberSharedByOverlap, AnswerAfterQuestion
<1> QED
  BY <1>1, <1>2, <1>3 DEF Ordered

\* Episodes stay, so what a desk has recalled stays what it was.
LEMMA PromptsStay ==
    ASSUME Types, Labelled, Prompts, AskedGrows, episodes \subseteq episodes',
           \A d \in Desks : desk'[d] = desk[d] \/ PromptKnows(d)'
    PROVE  Prompts'
<1>1. /\ 1..Len(asked) \subseteq 1..Len(asked')
      /\ \A t \in 1..Len(asked) : asked'[t] = asked[t]
  BY AskedStays DEF Types
<1> SUFFICES ASSUME NEW d \in Desks PROVE PromptKnows(d)'
  BY DEF Prompts
<1>2. CASE desk'[d] = desk[d]
  <2>1. PromptKnows(d)
    BY DEF Prompts
  <2> QED
    BY <1>1, <1>2, <2>1 DEF PromptKnows, At
<1> QED
  BY <1>2

LEMMA IndexStays ==
    ASSUME Indexed, episodes' = episodes, worker' = worker, shared' = shared
    PROVE  Indexed'
<1>1. \A i : Copies(i)' = Copies(i) /\ Holders(i)' = Holders(i)
  BY DEF Copies, Holders
<1> QED
  BY <1>1 DEF Indexed, CopiesByOverlap

-----------------------------------------------------------------------------
(* Steps of desks                                                          *)

\* A desk asks, recalls, answers or stops, and holds no number thereafter.
LEMMA DeskStep ==
    ASSUME ConversationInv, AskedGrows, NEW d \in Desks, NEW x \in DeskType,
           desk' = [desk EXCEPT ![d] = x], x.phase # "insert",
           TableTypes', Len(asked') <= MaxTurns, used \subseteq used',
           \A c \in used : c \in DOMAIN chats' => c \in DOMAIN chats,
           UNCHANGED <<messages, episodes, worker, collided, shared>>,
           DeskKnows(d)', PromptKnows(d)',
           \/ x.phase = "idle"
           \/ x.turn = desk[d].turn /\ ~At(d, "idle")
           \/ x.turn = Len(asked) + 1,
           \A y \in Lines : y.turn = x.turn =>
               /\ x.phase \in {"seq", "insert"} /\ x.saving = <<"assistant">>
               /\ y.role = "user" /\ y.chat = x.chat
    PROVE  ConversationInv'
<1>1. /\ Types /\ Labelled /\ OneLine /\ Desked /\ Ordered /\ Prompts /\ Indexed
  BY DEF ConversationInv
<1>2. desk'[d] = x /\ \A e \in Desks : e # d => desk'[e] = desk[e]
  BY <1>1 DEF Types, ActorTypes
<1>3. Held' = Held /\ Lines' = Lines
  BY DEF Held, Lines
<1>4. ActorTypes'
  <2>1. asked' \in Seq(Inputs)
    BY <1>1 DEF AskedGrows, Types, ActorTypes
  <2>2. desk' \in [Desks -> DeskType]
    BY <1>1 DEF Types, ActorTypes
  <2> QED
    BY <1>1, <2>1, <2>2 DEF Types, ActorTypes
<1>5. Labelled' /\ OneLine'
  BY <1>1, <1>3, LabelsStay DEF LinesShrink
<1>6. Desked'
  BY <1>1, <1>3, DesksGoOn
<1>7. Ordered'
  <2>1. \A c : InChat(c)' = InChat(c)
    BY DEF InChat
  <2>2. \A e \in Desks : desk'[e].phase = "insert" => desk'[e] = desk[e]
    BY <1>2
  <2> QED
    BY <1>1, <2>1, <2>2, NumbersStay
<1>8. Prompts'
  BY <1>1, <1>2, PromptsStay
<1>9. Indexed'
  BY <1>1, IndexStays
<1> QED
  BY <1>4, <1>5, <1>6, <1>7, <1>8, <1>9 DEF ConversationInv, Types

LEMMA IdleIsDesk == IdleDesk \in DeskType /\ IdleDesk.phase = "idle"
<1>1. MaxTurns \in Nat
  BY ConversationAssumption
<1> QED
  BY <1>1 DEF IdleDesk, DeskType, Phases, Savings

LEMMA TablesStay ==
    ASSUME Types, UNCHANGED <<chats, workspaces, messages, episodes, used>>
    PROVE  TableTypes'
  BY DEF Types, TableTypes

\* A line of the turn of a desk is its question, and only once it is stored.
LEMMA TurnUnwritten ==
    ASSUME Desked, NEW d \in Desks, NEW y \in Lines, y.turn = desk[d].turn
    PROVE  /\ desk[d].phase \in {"seq", "insert"} /\ desk[d].saving = <<"assistant">>
           /\ y.role = "user" /\ y.chat = desk[d].chat
  BY DEF Desked, Fresh

LEMMA PrepareStep ==
    ASSUME ConversationInv, NEW d \in Desks, NEW input \in Inputs, _prepare_turn(d, input)
    PROVE  ConversationInv'
<1> DEFINE x == [IdleDesk EXCEPT !.phase = "recall", !.turn = Len(asked) + 1, !.input = input,
                                 !.chat = input.chat,
                                 !.workspace = _resolve_project_context(input)]
<1>1. /\ Types /\ Labelled /\ Desked
      /\ desk' = [desk EXCEPT ![d] = x] /\ asked' = Append(asked, input)
      /\ UNCHANGED <<chats, workspaces, messages, episodes, worker, used, collided, shared>>
      /\ Len(asked) \in Nat /\ Len(asked) < MaxTurns
  BY DEF _prepare_turn, Set, Tables, ConversationInv, Types, ActorTypes
<1>2. input.chat \in used \union {None} /\ used \subseteq Chats
  BY <1>1, ConversationAssumption DEF _prepare_turn, Types, TableTypes, TurnInput
<1>3. _resolve_project_context(input) \in Workspaces \union {None}
  BY <1>1 DEF _prepare_turn, Types, TableTypes
<1>4. MaxTurns \in Nat
  BY ConversationAssumption
<1>5. /\ x \in DeskType /\ x.phase = "recall" /\ x.turn = Len(asked) + 1 /\ x.input = input
      /\ x.chat = input.chat /\ x.history = {} /\ x.recalled = {}
  <2>1. Len(asked) + 1 \in 0..MaxTurns
    BY <1>1, <1>4
  <2> HIDE <1>1
  <2> QED
    BY <2>1, <1>2, <1>3, IdleIsDesk DEF IdleDesk, DeskType, Phases
<1> HIDE DEF x
<1>6. desk'[d] = x
  BY <1>1 DEF Types, ActorTypes
<1>7. Len(asked') = Len(asked) + 1 /\ asked'[Len(asked) + 1] = input
  BY <1>1 DEF Types, ActorTypes
<1>8. DeskKnows(d)' /\ PromptKnows(d)'
  BY <1>1, <1>2, <1>5, <1>6, <1>7 DEF DeskKnows, PromptKnows, At
<1>9. \A y \in Lines : y.turn # x.turn
  BY <1>1, <1>5 DEF Labelled
<1>10. TableTypes' /\ AskedGrows /\ Len(asked') <= MaxTurns
  BY <1>1, <1>4, <1>7, TablesStay DEF AskedGrows
<1> QED
  BY <1>1, <1>5, <1>8, <1>9, <1>10, DeskStep

\* A desk that goes on with the same turn or stops, while the tables rest.
LEMMA TurnStep ==
    ASSUME ConversationInv, NEW d \in Desks, NEW x \in DeskType, Set(d, x),
           UNCHANGED <<Tables, worker, History>>,
           x.phase # "insert", x = IdleDesk \/ PromptKnows(d)',
           \/ x = IdleDesk
           \/ /\ ~At(d, "idle") /\ x.phase # "idle"
              /\ x.turn = desk[d].turn /\ x.input = desk[d].input /\ x.chat = desk[d].chat
              /\ desk[d].phase \notin {"seq", "insert"}
              /\ x.phase = "seq" => x.chat # None /\ x.saving # << >>
              /\ x.phase = "create" => /\ x.chat = None
                                       /\ x.saving \in {<<"user", "assistant">>, <<"user">>}
    PROVE  ConversationInv'
<1>1. /\ Types /\ Desked /\ Labelled /\ desk' = [desk EXCEPT ![d] = x]
      /\ UNCHANGED <<chats, workspaces, messages, episodes, worker, used, asked, collided, shared>>
  BY DEF ConversationInv, Set, Tables, History
<1>2. desk'[d] = x /\ desk[d] \in DeskType /\ DeskKnows(d)
  BY <1>1 DEF Types, ActorTypes, Desked
<1>3. DeskKnows(d)' /\ PromptKnows(d)'
  <2>1. CASE x = IdleDesk
    BY <1>2, <2>1 DEF DeskKnows, PromptKnows, IdleDesk, At
  <2>2. CASE x # IdleDesk
    <3>1. DeskKnows(d)'
      BY <1>1, <1>2, <2>2 DEF DeskKnows, At, DeskType
    <3> QED
      BY <3>1, <2>2
  <2> QED
    BY <2>1, <2>2
<1>4. \A y \in Lines : y.turn = x.turn => FALSE
  <2>1. CASE x = IdleDesk
    BY <1>1, <2>1 DEF Labelled, IdleDesk
  <2>2. CASE x # IdleDesk
    BY <1>1, <2>2, TurnUnwritten
  <2> QED
    BY <2>1, <2>2
<1>5. TableTypes' /\ AskedGrows /\ Len(asked') <= MaxTurns
  BY <1>1, TablesStay DEF AskedGrows, Types, ActorTypes
<1>6. x.phase = "idle" \/ (x.turn = desk[d].turn /\ ~At(d, "idle"))
  BY DEF IdleDesk
<1> QED
  BY <1>1, <1>3, <1>4, <1>5, <1>6, DeskStep

LEMMA RowIsLabelled ==
    ASSUME Labelled, NEW row \in messages \union Held \union episodes
    PROVE  /\ Line(row) \in Lines
           /\ Line(row).turn = row.turn /\ Line(row).role = row.role
           /\ Line(row).chat = row.chat /\ Line(row).seq = row.seq
           /\ row.turn \in 1..Len(asked) /\ row.sensitivity = asked[row.turn].sensitivity
<1>1. Line(row) \in Lines
  BY DEF Lines
<1>2. /\ Line(row).turn = row.turn /\ Line(row).role = row.role
      /\ Line(row).chat = row.chat /\ Line(row).seq = row.seq
      /\ Line(row).sensitivity = row.sensitivity
  BY DEF Line
<1> QED
  BY <1>1, <1>2 DEF Labelled

\* Rows of one id are of one chat and have one number.
LEMMA SameIdSameLine ==
    ASSUME Labelled, OneLine, NEW r \in messages \union Held \union episodes,
           NEW s \in messages \union Held \union episodes, Id(r) = Id(s)
    PROVE  Line(r) = Line(s) /\ r.chat = s.chat /\ r.seq = s.seq
<1>1. r.turn = s.turn /\ r.role = s.role
  BY DEF Id
<1> QED
  BY <1>1, RowIsLabelled DEF OneLine

LEMMA HistoryIsAllowed ==
    ASSUME NEW chat, NEW local \in BOOLEAN, NEW selected \in recent_history(chat, local)
    PROVE  \A m \in selected : /\ m \in messages /\ m.chat = chat
                               /\ local \/ m.sensitivity \in CLOUD_SAFE_SENSITIVITIES
  BY DEF recent_history, NewestFirst

LEMMA RecallStep ==
    ASSUME ConversationInv, NEW d \in Desks, recall(d)
    PROVE  ConversationInv'
<1>1. PICK close \in SUBSET Recallable(d) :
          Set(d, [desk[d] EXCEPT !.phase = "history", !.recalled = {Id(e) : e \in close}])
  BY DEF recall
<1> DEFINE ids == {Id(e) : e \in close}
           x == [desk[d] EXCEPT !.phase = "history", !.recalled = ids]
<1>2. /\ Types /\ Labelled /\ Prompts /\ desk[d].phase = "recall" /\ Set(d, x)
      /\ UNCHANGED <<Tables, worker, History>> /\ desk[d] \in DeskType
      /\ asked' = asked /\ episodes' = episodes
  BY <1>1 DEF recall, At, ConversationInv, Types, ActorTypes, Tables, History
<1>3. \A e \in close : /\ e \in episodes /\ e.chat # desk[d].chat /\ Id(e) \in Ids
                       /\ Id(e).turn \in 1..Len(asked)
                       /\ ~desk[d].input.local =>
                            asked[Id(e).turn].sensitivity \in CLOUD_SAFE_SENSITIVITIES
  <2> SUFFICES ASSUME NEW e \in close
               PROVE  /\ e \in episodes /\ e.chat # desk[d].chat /\ Id(e) \in Ids
                      /\ Id(e).turn \in 1..Len(asked)
                      /\ ~desk[d].input.local =>
                           asked[Id(e).turn].sensitivity \in CLOUD_SAFE_SENSITIVITIES
    OBVIOUS
  <2>1. /\ e \in episodes /\ e.chat # desk[d].chat
        /\ desk[d].input.local \/ e.sensitivity \in CLOUD_SAFE_SENSITIVITIES
    BY DEF Recallable
  <2>2. Id(e) \in Ids /\ Id(e).turn = e.turn
    BY <1>2, <2>1 DEF Types, TableTypes, Episode, Id, Ids
  <2> QED
    BY <1>2, <2>1, <2>2, RowIsLabelled
<1>4. ids \subseteq Ids
  BY <1>3
<1>5. \A i \in ids : /\ \E e \in episodes : Id(e) = i /\ e.chat # desk[d].chat
                     /\ i.turn \in 1..Len(asked)
                     /\ ~desk[d].input.local =>
                          asked[i.turn].sensitivity \in CLOUD_SAFE_SENSITIVITIES
  BY <1>3
<1> HIDE DEF ids
<1>6. /\ x \in DeskType /\ x.phase = "history" /\ x.turn = desk[d].turn /\ x.input = desk[d].input
      /\ x.chat = desk[d].chat /\ x.recalled = ids /\ x.history = {}
  BY <1>2, <1>4 DEF DeskType, Phases, Prompts, PromptKnows, At
<1> HIDE DEF x
<1>7. desk'[d] = x
  BY <1>2 DEF Types, ActorTypes, Set
<1>8. PromptKnows(d)'
  BY <1>2, <1>5, <1>6, <1>7 DEF PromptKnows, At
<1> QED
  BY <1>2, <1>6, <1>8, TurnStep DEF At

LEMMA HistoryStep ==
    ASSUME ConversationInv, NEW d \in Desks, _build_llm_messages(d)
    PROVE  ConversationInv'
<1>1. PICK selected \in recent_history(desk[d].chat, desk[d].input.local) :
          Set(d, [desk[d] EXCEPT !.phase = "chat", !.history = {Id(m) : m \in selected}])
  BY DEF _build_llm_messages
<1> DEFINE ids == {Id(m) : m \in selected}
           x == [desk[d] EXCEPT !.phase = "chat", !.history = ids]
<1>2. /\ Types /\ Labelled /\ OneLine /\ Prompts /\ desk[d].phase = "history" /\ Set(d, x)
      /\ UNCHANGED <<Tables, worker, History>> /\ desk[d] \in DeskType
      /\ asked' = asked /\ episodes' = episodes
  BY <1>1 DEF _build_llm_messages, At, ConversationInv, Types, ActorTypes, Tables, History
<1>3. desk[d].input.local \in BOOLEAN
  <2>1. desk[d].input \in TurnInput \union {NoInput}
    BY <1>2, ConversationAssumption DEF DeskType
  <2>2. NoInput.local \in BOOLEAN
    BY DEF NoInput
  <2>3. \A input \in TurnInput : input.local \in BOOLEAN
    BY Zenon DEF TurnInput
  <2> QED
    BY <2>1, <2>2, <2>3
<1>4. \A m \in selected : /\ m \in messages /\ m.chat = desk[d].chat /\ Id(m) \in Ids
                          /\ Id(m).turn \in 1..Len(asked)
                          /\ ~desk[d].input.local =>
                               asked[Id(m).turn].sensitivity \in CLOUD_SAFE_SENSITIVITIES
  <2> SUFFICES ASSUME NEW m \in selected
               PROVE  /\ m \in messages /\ m.chat = desk[d].chat /\ Id(m) \in Ids
                      /\ Id(m).turn \in 1..Len(asked)
                      /\ ~desk[d].input.local =>
                           asked[Id(m).turn].sensitivity \in CLOUD_SAFE_SENSITIVITIES
    OBVIOUS
  <2>1. /\ m \in messages /\ m.chat = desk[d].chat
        /\ desk[d].input.local \/ m.sensitivity \in CLOUD_SAFE_SENSITIVITIES
    BY <1>3, HistoryIsAllowed
  <2>2. Id(m) \in Ids /\ Id(m).turn = m.turn
    BY <1>2, <2>1 DEF Types, TableTypes, ConversationMessage, Id, Ids
  <2> QED
    BY <1>2, <2>1, <2>2, RowIsLabelled
<1>5. ids \subseteq Ids
  BY <1>4
<1>6. \A i \in ids : /\ \E m \in messages : Id(m) = i /\ m.chat = desk[d].chat
                     /\ i.turn \in 1..Len(asked)
                     /\ ~desk[d].input.local =>
                          asked[i.turn].sensitivity \in CLOUD_SAFE_SENSITIVITIES
  BY <1>4
<1> HIDE DEF ids
<1>7. /\ x \in DeskType /\ x.phase = "chat" /\ x.turn = desk[d].turn /\ x.input = desk[d].input
      /\ x.chat = desk[d].chat /\ x.recalled = desk[d].recalled /\ x.history = ids
  BY <1>2, <1>5 DEF DeskType, Phases
<1> HIDE DEF x
<1>8. desk'[d] = x /\ PromptKnows(d)
  BY <1>2 DEF Types, ActorTypes, Set, Prompts
<1>9. ids \intersect desk[d].recalled = {}
  <2> SUFFICES ASSUME NEW i \in ids, i \in desk[d].recalled PROVE FALSE
    OBVIOUS
  <2>1. PICK m \in messages : Id(m) = i /\ m.chat = desk[d].chat
    BY <1>6
  <2>2. PICK e \in episodes : Id(e) = i /\ e.chat # desk[d].chat
    BY <1>8 DEF PromptKnows
  <2> QED
    BY <1>2, <2>1, <2>2, SameIdSameLine
<1>10. PromptKnows(d)'
  BY <1>2, <1>6, <1>7, <1>8, <1>9 DEF PromptKnows, At
<1> QED
  BY <1>2, <1>7, <1>10, TurnStep DEF At

LEMMA AnswerStep ==
    ASSUME ConversationInv, NEW d \in Desks, Answer(d)
    PROVE  ConversationInv'
<1>1. /\ Types /\ desk[d].phase = "chat" /\ desk[d] \in DeskType
      /\ UNCHANGED <<Tables, worker, History>>
  BY DEF Answer, At, ConversationInv, Types, ActorTypes
<1>2. CASE End(d)
  BY <1>1, <1>2, IdleIsDesk, TurnStep DEF End
<1>3. CASE ~End(d)
  <2>1. PICK roles \in {<<"user", "assistant">>, <<"user">>} :
           Set(d, [desk[d] EXCEPT !.phase = IF desk[d].chat = None THEN "create" ELSE "seq",
                                  !.saving = roles, !.history = {}, !.recalled = {}])
    BY <1>3 DEF Answer
  <2> DEFINE x == [desk[d] EXCEPT !.phase = IF desk[d].chat = None THEN "create" ELSE "seq",
                                  !.saving = roles, !.history = {}, !.recalled = {}]
  <2>2. /\ x \in DeskType /\ x.phase = IF desk[d].chat = None THEN "create" ELSE "seq"
        /\ x.turn = desk[d].turn /\ x.input = desk[d].input
        /\ x.chat = desk[d].chat /\ x.recalled = {} /\ x.history = {} /\ x.saving = roles
    BY <1>1 DEF DeskType, Phases, Savings
  <2>3. Set(d, x)
    BY <2>1
  <2> HIDE DEF x
  <2>4. desk'[d] = x
    BY <1>1, <2>3 DEF Types, ActorTypes, Set
  <2>a. roles # << >>
    BY <2>1
  <2>5. PromptKnows(d)'
    BY <2>2, <2>4 DEF PromptKnows, At
  <2> QED
    BY <1>1, <2>2, <2>3, <2>a, <2>5, TurnStep DEF At
<1> QED
  BY <1>2, <1>3

LEMMA VanishStep ==
    ASSUME ConversationInv, NEW d \in Desks, Vanish(d)
    PROVE  ConversationInv'
  BY IdleIsDesk, TurnStep DEF Vanish, End, IdleDesk

LEMMA CreateStep ==
    ASSUME ConversationInv, NEW d \in Desks, create_conversation(d)
    PROVE  ConversationInv'
<1>1. /\ Types /\ Desked /\ Labelled /\ desk[d].phase = "create" /\ desk[d] \in DeskType
      /\ DeskKnows(d) /\ PromptKnows(d)
      /\ UNCHANGED <<workspaces, messages, episodes, worker, asked, collided, shared>>
  BY DEF create_conversation, At, ConversationInv, Types, ActorTypes, Desked, Prompts
<1>2. CASE End(d) /\ UNCHANGED <<chats, used>>
  <2>1. desk' = [desk EXCEPT ![d] = IdleDesk] /\ desk'[d] = IdleDesk
    BY <1>1, <1>2 DEF End, Set, Types, ActorTypes
  <2>2. DeskKnows(d)' /\ PromptKnows(d)'
    BY <2>1 DEF DeskKnows, PromptKnows, IdleDesk, At
  <2>3. \A y \in Lines : y.turn # IdleDesk.turn
    BY <1>1 DEF Labelled, IdleDesk
  <2>4. TableTypes' /\ AskedGrows /\ Len(asked') <= MaxTurns
    BY <1>1, <1>2, TablesStay DEF AskedGrows, Types, ActorTypes
  <2> QED
    BY <1>1, <1>2, <2>1, <2>2, <2>3, <2>4, IdleIsDesk, DeskStep
<1>3. CASE ~(End(d) /\ UNCHANGED <<chats, used>>)
  <2>1. PICK c \in Chats \ used :
          /\ desk[d].workspace \in workspaces \union {None}
          /\ chats' = [y \in DOMAIN chats \union {c} |-> IF y = c THEN desk[d].workspace ELSE chats[y]]
          /\ used' = used \union {c}
          /\ Set(d, [desk[d] EXCEPT !.phase = "seq", !.chat = c])
    BY <1>3 DEF create_conversation
  <2> DEFINE x == [desk[d] EXCEPT !.phase = "seq", !.chat = c]
  <2>2. /\ x \in DeskType /\ x.phase = "seq" /\ x.turn = desk[d].turn /\ x.input = desk[d].input
        /\ x.chat = c /\ x.saving = desk[d].saving /\ x.history = {} /\ x.recalled = {}
    BY <1>1 DEF DeskType, Phases, PromptKnows, At
  <2>3. desk' = [desk EXCEPT ![d] = x] /\ desk'[d] = x
    BY <1>1, <2>1 DEF Set, Types, ActorTypes
  <2> HIDE DEF x
  <2>4. x.saving # << >>
    <3>1. x.saving \in {<<"user", "assistant">>, <<"user">>}
      BY <1>1, <2>2 DEF DeskKnows, At
    <3> QED
      BY <3>1
  <2>5. DeskKnows(d)' /\ PromptKnows(d)'
    BY <1>1, <2>1, <2>2, <2>3, <2>4 DEF DeskKnows, PromptKnows, At
  <2>6. \A y \in Lines : y.turn # x.turn
    BY <1>1, <2>2, TurnUnwritten
  <2>7. TableTypes'
    BY <1>1, <2>1 DEF Types, TableTypes
  <2>8. \A b \in used : b \in DOMAIN chats' => b \in DOMAIN chats
    BY <2>1
  <2>9. AskedGrows /\ Len(asked') <= MaxTurns /\ used \subseteq used'
    BY <1>1, <2>1 DEF AskedGrows, Types, ActorTypes
  <2> QED
    BY <1>1, <2>2, <2>3, <2>5, <2>6, <2>7, <2>8, <2>9, DeskStep DEF At
<1> QED
  BY <1>2, <1>3

\* The next number is beyond every number of the chat and within their count.
LEMMA NextSeq ==
    ASSUME Types, Counted, NEW c \in Chats
    PROVE  /\ next_seq(c) \in Nat /\ next_seq(c) >= 1
           /\ \A m \in messages : m.chat = c => next_seq(c) > m.seq
           /\ next_seq(c) <= 1 + Cardinality(InChat(c))
<1> DEFINE S == {0} \union {m.seq : m \in {n \in messages : n.chat = c}}
<1>1. IsFiniteSet(InChat(c)) /\ Cardinality(InChat(c)) \in Nat
  <2>1. IsFiniteSet(messages) /\ InChat(c) \subseteq messages
    BY DEF Types, TableTypes, InChat
  <2>2. IsFiniteSet(InChat(c))
    BY <2>1, FS_Subset
  <2> QED
    BY <2>2, FS_CardinalityType
<1>2. \A m \in messages : m.seq \in Nat
  BY DEF Types, TableTypes, ConversationMessage
<1>3. S \in SUBSET Nat /\ S # {}
  BY <1>2
<1>4. \A y \in S : y <= Cardinality(InChat(c))
  BY <1>1 DEF Counted
<1>5. \A m \in messages : m.chat = c => m.seq \in S
  OBVIOUS
<1>6. next_seq(c) = 1 + Max(S)
  BY DEF next_seq
<1> HIDE DEF S
<1>7. Max(S) \in S /\ \A y \in S : Max(S) >= y
  BY <1>1, <1>3, <1>4, MaxIsLargest
<1>8. Max(S) \in Nat /\ Max(S) <= Cardinality(InChat(c))
  BY <1>3, <1>4, <1>7
<1>9. \A m \in messages : m.chat = c => Max(S) >= m.seq
  BY <1>5, <1>7
<1> QED
  BY <1>1, <1>2, <1>6, <1>8, <1>9

LEMMA ReadSeqStep ==
    ASSUME ConversationInv, NEW d \in Desks, ReadSeq(d)
    PROVE  ConversationInv'
<1> DEFINE c == desk[d].chat
           x == [desk[d] EXCEPT !.phase = "insert", !.seq = next_seq(c)]
<1>1. /\ Types /\ Labelled /\ OneLine /\ Desked /\ Ordered /\ Prompts /\ Indexed
      /\ desk[d].phase = "seq" /\ desk[d] \in DeskType /\ desk' = [desk EXCEPT ![d] = x]
      /\ UNCHANGED <<chats, workspaces, messages, episodes, worker, used, asked, shared>>
      /\ collided' = collided \union {{desk[d].turn, desk[e].turn} : e \in Holding(c)}
  BY DEF ReadSeq, At, Set, ConversationInv, Types, ActorTypes, Tables
<1>2. DeskKnows(d) /\ PromptKnows(d) /\ c \in Chats
  BY <1>1 DEF Desked, DeskKnows, Prompts, At
<1>3. /\ next_seq(c) \in Nat /\ next_seq(c) >= 1
      /\ \A m \in messages : m.chat = c => next_seq(c) > m.seq
      /\ next_seq(c) <= 1 + Cardinality(InChat(c))
  BY <1>1, <1>2, NextSeq DEF Ordered
<1>4. /\ x \in DeskType /\ x.phase = "insert" /\ x.turn = desk[d].turn /\ x.input = desk[d].input
      /\ x.chat = c /\ x.saving = desk[d].saving /\ x.history = desk[d].history
      /\ x.recalled = desk[d].recalled /\ x.seq = next_seq(c)
  <2>1. PICK n \in Nat : n = next_seq(c)
    BY <1>3
  <2>2. x = [desk[d] EXCEPT !.phase = "insert", !.seq = n]
    BY <2>1
  <2>3. desk[d] \in DeskType
    BY <1>1
  <2> HIDE DEF x
  <2> QED
    BY <2>1, <2>2, <2>3 DEF DeskType, Phases
<1> HIDE DEF x
<1>5. desk'[d] = x /\ \A e \in Desks : e # d => desk'[e] = desk[e]
  BY <1>1 DEF Types, ActorTypes
<1>6. DeskKnows(d)' /\ PromptKnows(d)'
  BY <1>1, <1>2, <1>4, <1>5 DEF DeskKnows, PromptKnows, At
<1>7. Held' = Held /\ Lines' = Lines /\ AskedGrows
  BY <1>1 DEF Held, Lines, AskedGrows
<1>8. Types'
  <2>1. TableTypes'
    BY <1>1, TablesStay
  <2>2. desk' \in [Desks -> DeskType]
    BY <1>1, <1>4 DEF Types, ActorTypes
  <2> QED
    BY <1>1, <2>1, <2>2 DEF Types, ActorTypes
<1>9. Labelled' /\ OneLine'
  BY <1>1, <1>7, LabelsStay DEF LinesShrink
<1>10. Desked'
  <2>1. \A y \in Lines' : y.turn = x.turn =>
            /\ x.phase \in {"seq", "insert"} /\ x.saving = <<"assistant">>
            /\ y.role = "user" /\ y.chat = x.chat
    BY <1>1, <1>4, <1>7, TurnUnwritten
  <2> QED
    BY <1>1, <1>4, <1>6, <1>7, <2>1, DesksGoOn DEF At
<1>11. Overlapped'
  <2>1. ASSUME NEW e \in Desks, NEW f \in Desks, e # f, desk'[e].phase = "insert",
               desk'[f].phase = "insert", desk'[e].chat = desk'[f].chat
        PROVE  {desk'[e].turn, desk'[f].turn} \in collided'
    <3>1. CASE e # d /\ f # d
      BY <1>1, <1>5, <2>1, <3>1 DEF Ordered, Overlapped, At
    <3>2. CASE e = d
      <4>1. f \in Holding(c)
        BY <1>4, <1>5, <2>1, <3>2 DEF Holding, At
      <4> QED
        BY <1>1, <1>4, <1>5, <2>1, <3>2, <4>1
    <3>3. CASE f = d
      <4>1. e \in Holding(c)
        BY <1>4, <1>5, <2>1, <3>3 DEF Holding, At
      <4>2. {desk[d].turn, desk[e].turn} \in collided'
        BY <1>1, <4>1
      <4>3. {desk[d].turn, desk[e].turn} = {desk'[e].turn, desk'[f].turn}
        BY <1>4, <1>5, <2>1, <3>3
      <4> QED
        BY <4>2, <4>3
    <3> QED
      BY <3>1, <3>2, <3>3
  <2>2. ASSUME NEW e \in Desks, NEW n \in messages', desk'[e].phase = "insert",
               n.chat = desk'[e].chat, n.seq >= desk'[e].seq
        PROVE  n.turn # desk'[e].turn /\ {desk'[e].turn, n.turn} \in collided'
    <3>1. CASE e = d
      <4>1. next_seq(c) > n.seq /\ n.seq \in Nat
        BY <1>1, <1>3, <1>4, <1>5, <2>2, <3>1 DEF Types, TableTypes, ConversationMessage
      <4> QED
        BY <1>3, <1>4, <1>5, <2>2, <3>1, <4>1
    <3>2. CASE e # d
      BY <1>1, <1>5, <2>2, <3>2 DEF Ordered, Overlapped, At
    <3> QED
      BY <3>1, <3>2
  <2> QED
    BY <2>1, <2>2 DEF Overlapped, At
<1>12. Counted'
  <2>1. ASSUME NEW e \in Desks, desk'[e].phase = "insert"
        PROVE  /\ desk'[e].seq >= 1
               /\ desk'[e].chat \in DOMAIN chats =>
                    desk'[e].seq <= 1 + Cardinality({m \in messages : m.chat = desk'[e].chat})
    <3>1. CASE e = d
      BY <1>3, <1>4, <1>5, <3>1 DEF InChat
    <3>2. CASE e # d
      BY <1>1, <1>5, <2>1, <3>2 DEF Ordered, Counted, InChat, At
    <3> QED
      BY <3>1, <3>2
  <2> QED
    BY <1>1, <2>1 DEF Ordered, Counted, InChat, At
<1>13. NumberSharedByOverlap' /\ AnswerAfterQuestion'
  BY <1>1 DEF Ordered, NumberSharedByOverlap, AnswerAfterQuestion
<1>14. Prompts'
  BY <1>1, <1>5, <1>6, <1>7, PromptsStay
<1>15. Indexed'
  BY <1>1, IndexStays
<1> QED
  BY <1>8, <1>9, <1>10, <1>11, <1>12, <1>13, <1>14, <1>15 DEF ConversationInv, Ordered

\* Messages of one id are one message.
LEMMA SameIdSameMessage ==
    ASSUME Labelled, OneLine, NEW m \in messages \union Held, NEW n \in messages \union Held,
           m \in ConversationMessage, n \in ConversationMessage, Id(m) = Id(n)
    PROVE  m = n
<1>1. m.turn = n.turn /\ m.role = n.role
  BY DEF Id
<1>2. m.chat = n.chat /\ m.seq = n.seq
  BY SameIdSameLine
<1>3. m.sensitivity = n.sensitivity /\ m.long = n.long
  BY <1>1, RowIsLabelled DEF Labelled
<1> QED
  BY <1>1, <1>2, <1>3 DEF ConversationMessage

\* What a desk knows when it inserts.
LEMMA InsertFacts ==
    ASSUME ConversationInv, NEW d \in Desks, At(d, "insert"), desk[d].chat \in DOMAIN chats
    PROVE  LET new == Message(d)
           IN /\ new.turn = desk[d].turn /\ new.role = Head(desk[d].saving)
              /\ new.chat = desk[d].chat /\ new.seq = desk[d].seq
              /\ desk[d].saving = <<"user", "assistant">> => new.role = "user"
              /\ desk[d].saving = <<"user">> => new.role = "user"
              /\ desk[d].saving = <<"assistant">> => new.role = "assistant"
              /\ desk[d].saving \in {<<"user", "assistant">>, <<"user">>, <<"assistant">>}
              /\ new.turn \in 1..Len(asked)
              /\ new.sensitivity = asked[new.turn].sensitivity /\ new.long = asked[new.turn].long
              /\ \A y \in Lines : y.turn = new.turn =>
                    desk[d].saving = <<"assistant">> /\ y.role = "user" /\ y.chat = new.chat
              /\ new \in ConversationMessage /\ new \notin messages
<1>1. /\ Types /\ Labelled /\ OneLine /\ Desked /\ Ordered /\ desk[d] \in DeskType
      /\ desk[d].phase = "insert" /\ DeskKnows(d)
  BY DEF ConversationInv, Types, ActorTypes, Desked, At
<1>2. PICK new : new = Message(d)
  OBVIOUS
<1>3. /\ new.turn = desk[d].turn /\ new.role = Head(desk[d].saving)
      /\ new.chat = desk[d].chat /\ new.seq = desk[d].seq
      /\ new.sensitivity = desk[d].input.sensitivity /\ new.long = desk[d].input.long
  BY <1>2 DEF Message
<1>4. desk[d].saving \in {<<"user", "assistant">>, <<"user">>, <<"assistant">>}
  <2>1. desk[d].saving \in Savings /\ desk[d].saving # << >>
    BY <1>1 DEF DeskType, DeskKnows
  <2> QED
    BY <2>1 DEF Savings
<1>5. /\ desk[d].saving = <<"user", "assistant">> => new.role = "user"
      /\ desk[d].saving = <<"user">> => new.role = "user"
      /\ desk[d].saving = <<"assistant">> => new.role = "assistant"
  BY <1>3
<1>6. /\ new.turn \in 1..Len(asked)
      /\ new.sensitivity = asked[new.turn].sensitivity /\ new.long = asked[new.turn].long
  BY <1>1, <1>3 DEF DeskKnows, At
<1>7. \A y \in Lines : y.turn = new.turn =>
         desk[d].saving = <<"assistant">> /\ y.role = "user" /\ y.chat = new.chat
  BY <1>1, <1>3, TurnUnwritten
<1>8. \A m \in messages : Id(m) # Id(new)
  <2> SUFFICES ASSUME NEW m \in messages, Id(m) = Id(new) PROVE FALSE
    OBVIOUS
  <2>1. m.turn = new.turn /\ m.role = new.role
    BY DEF Id
  <2>2. Line(m) \in Lines /\ Line(m).turn = new.turn /\ Line(m).role = new.role
    BY <1>1, <2>1, RowIsLabelled
  <2> QED
    BY <1>5, <1>7, <2>2
<1>9. new \notin messages
  BY <1>8
<1>10. desk[d].seq \in 1..(2 * MaxTurns)
  <2> DEFINE old == InChat(desk[d].chat)
             M == old \union {new}
  <2>1. IsFiniteSet(old)
    <3>1. IsFiniteSet(messages) /\ old \subseteq messages
      BY <1>1 DEF Types, TableTypes, InChat
    <3> QED
      BY <3>1, FS_Subset
  <2>2. IsFiniteSet(M) /\ Cardinality(M) = Cardinality(old) + 1
    <3>1. new \notin old
      BY <1>9 DEF InChat
    <3> HIDE DEF old
    <3> QED
      BY <2>1, <3>1, FS_AddElement
  <2>3. \A m \in M : m.turn \in 1..MaxTurns /\ m.role \in Roles
    <3>1. \A m \in old : m.turn \in 1..MaxTurns /\ m.role \in Roles
      BY <1>1 DEF Types, TableTypes, ConversationMessage, InChat
    <3>2. new.turn \in 1..MaxTurns /\ new.role \in Roles
      BY <1>1, <1>4, <1>5, <1>6, ConversationAssumption DEF Types, ActorTypes, Roles
    <3> QED
      BY <3>1, <3>2
  <2>4. \A m, n \in M : Id(m) = Id(n) => m = n
    <3>1. \A m, n \in old : Id(m) = Id(n) => m = n
      BY <1>1, SameIdSameMessage DEF Types, TableTypes, InChat
    <3>2. \A m \in old : Id(m) # Id(new)
      BY <1>8 DEF InChat
    <3> HIDE DEF old
    <3> QED
      BY <3>1, <3>2
  <2>5. Cardinality(M) <= 2 * MaxTurns
    <3> HIDE DEF M
    <3> QED
      BY <2>3, <2>4, TwoPerTurn
  <2>6. /\ desk[d].seq \in Nat /\ desk[d].seq >= 1
        /\ desk[d].seq <= 1 + Cardinality(old)
    BY <1>1 DEF Ordered, Counted, At, DeskType
  <2>7. Cardinality(old) \in Nat /\ MaxTurns \in Nat
    BY <2>1, FS_CardinalityType, ConversationAssumption
  <2> HIDE DEF old, M
  <2> QED
    BY <2>2, <2>5, <2>6, <2>7
<1>11. new \in ConversationMessage
  <2>1. asked[new.turn] \in TurnInput
    BY <1>1, <1>6, ConversationAssumption DEF Types, ActorTypes
  <2>2. new.sensitivity \in Sensitivities /\ new.long \in BOOLEAN
    <3>1. \A input \in TurnInput : input.sensitivity \in Sensitivities /\ input.long \in BOOLEAN
      BY Zenon DEF TurnInput
    <3> QED
      BY <1>6, <2>1, <3>1
  <2>3. new.turn \in 1..MaxTurns /\ new.role \in Roles /\ new.chat \in Chats
    BY <1>1, <1>3, <1>4, <1>5, <1>6, ConversationAssumption
       DEF Types, ActorTypes, TableTypes, Roles
  <2>4. new = [turn |-> new.turn, role |-> new.role, chat |-> new.chat, seq |-> new.seq,
               sensitivity |-> new.sensitivity, long |-> new.long]
    BY <1>2 DEF Message
  <2> QED
    BY <1>3, <1>10, <2>2, <2>3, <2>4 DEF ConversationMessage
<1> QED
  BY <1>2, <1>3, <1>4, <1>5, <1>6, <1>7, <1>9, <1>11

LEMMA AppendStep ==
    ASSUME ConversationInv, NEW d \in Desks, append_message(d)
    PROVE  ConversationInv'
<1>1. /\ Types /\ Labelled /\ OneLine /\ Desked /\ Ordered /\ Prompts /\ Indexed
      /\ desk[d].phase = "insert" /\ desk[d] \in DeskType /\ DeskKnows(d) /\ PromptKnows(d)
      /\ UNCHANGED <<chats, workspaces, episodes, worker, used, asked, collided, shared>>
  BY DEF append_message, At, ConversationInv, Types, ActorTypes, Desked, Prompts, History
<1>2. CASE desk[d].chat \notin DOMAIN chats
  <2>1. Set(d, IdleDesk) /\ UNCHANGED <<Tables, worker, History>>
    BY <1>2 DEF append_message, End, Tables
  <2> QED
    BY <2>1, IdleIsDesk, TurnStep DEF IdleDesk
<1>3. CASE desk[d].chat \in DOMAIN chats
  <2>1. PICK new : new = Message(d)
    OBVIOUS
  <2>2. /\ new.turn = desk[d].turn /\ new.chat = desk[d].chat /\ new.seq = desk[d].seq
        /\ desk[d].saving = <<"user", "assistant">> => new.role = "user"
        /\ desk[d].saving = <<"user">> => new.role = "user"
        /\ desk[d].saving = <<"assistant">> => new.role = "assistant"
        /\ desk[d].saving \in {<<"user", "assistant">>, <<"user">>, <<"assistant">>}
        /\ new.turn \in 1..Len(asked)
        /\ new.sensitivity = asked[new.turn].sensitivity /\ new.long = asked[new.turn].long
        /\ \A y \in Lines : y.turn = new.turn =>
              desk[d].saving = <<"assistant">> /\ y.role = "user" /\ y.chat = new.chat
        /\ new \in ConversationMessage /\ new \notin messages
    BY <1>1, <1>3, <2>1, InsertFacts DEF At
  <2>3. messages' = messages \union {new}
    BY <1>3, <2>1 DEF append_message
  <2>4. PICK x \in DeskType :
          /\ desk' = [desk EXCEPT ![d] = x]
          /\ \/ x = IdleDesk
             \/ /\ desk[d].saving = <<"user", "assistant">> /\ x.saving = <<"assistant">>
                /\ x.phase = "seq" /\ x.turn = desk[d].turn /\ x.input = desk[d].input
                /\ x.chat = desk[d].chat /\ x.history = {} /\ x.recalled = {}
    <3>1. CASE Len(desk[d].saving) = 1
      BY <1>3, <3>1, IdleIsDesk DEF append_message, End, Set
    <3>2. CASE Len(desk[d].saving) # 1
      <4>1. desk[d].saving = <<"user", "assistant">>
        BY <2>2, <3>2
      <4> DEFINE y == [desk[d] EXCEPT !.phase = "seq", !.saving = Tail(desk[d].saving)]
      <4>2. Tail(desk[d].saving) = <<"assistant">>
        BY <4>1
      <4>3. /\ y \in DeskType /\ y.saving = <<"assistant">> /\ y.phase = "seq"
            /\ y.turn = desk[d].turn /\ y.input = desk[d].input /\ y.chat = desk[d].chat
            /\ y.history = desk[d].history /\ y.recalled = desk[d].recalled
        BY <1>1, <4>2 DEF DeskType, Phases, Savings
      <4>4. desk' = [desk EXCEPT ![d] = y]
        BY <1>3, <3>2 DEF append_message, Set
      <4>5. desk[d].history = {} /\ desk[d].recalled = {}
        BY <1>1 DEF PromptKnows, At
      <4> HIDE DEF y
      <4> QED
        BY <4>1, <4>3, <4>4, <4>5
    <3> QED
      BY <3>1, <3>2
  <2>5. desk'[d] = x /\ \A e \in Desks : e # d => desk'[e] = desk[e]
    BY <1>1, <2>4 DEF Types, ActorTypes
  <2>6. DeskKnows(d)' /\ PromptKnows(d)'
    <3>1. CASE x = IdleDesk
      BY <2>5, <3>1 DEF DeskKnows, PromptKnows, IdleDesk, At
    <3>2. CASE x # IdleDesk
      <4>1. x.saving # << >>
        BY <2>4, <3>2
      <4> QED
        BY <1>1, <2>4, <2>5, <3>2, <4>1 DEF DeskKnows, PromptKnows, At
    <3> QED
      BY <3>1, <3>2
  <2>7. AskedGrows /\ Held' = Held /\ Lines' = Lines \union {Line(new)}
    BY <1>1, <2>3 DEF AskedGrows, Held, Lines
  <2>8. /\ Line(new).turn = new.turn /\ Line(new).role = new.role /\ Line(new).chat = new.chat
        /\ Line(new).seq = new.seq /\ Line(new).sensitivity = new.sensitivity
    BY DEF Line
  <2>9. Types'
    <3>1. IsFiniteSet(messages')
      BY <1>1, <2>3, FS_AddElement DEF Types, TableTypes
    <3>2. TableTypes'
      BY <1>1, <1>3, <2>2, <2>3, <3>1 DEF Types, TableTypes
    <3>3. desk' \in [Desks -> DeskType]
      BY <1>1, <2>4 DEF Types, ActorTypes
    <3> QED
      BY <1>1, <3>2, <3>3 DEF Types, ActorTypes
  <2>10. Labelled'
    <3>1. \A y \in Lines' : y.turn \in 1..Len(asked) /\ y.sensitivity = asked[y.turn].sensitivity
      BY <1>1, <2>2, <2>7, <2>8 DEF Labelled
    <3>2. \A m \in (messages \union Held)' : m.long = asked[m.turn].long
      BY <1>1, <2>2, <2>3, <2>7 DEF Labelled
    <3> QED
      BY <1>1, <3>1, <3>2 DEF Labelled, LongIsSearchable
  <2>11. OneLine'
    BY <1>1, <2>2, <2>7, <2>8 DEF OneLine
  <2>12. Desked'
    <3>1. \A y \in Lines' \ Lines : y.turn = desk[d].turn /\ ~At(d, "idle")
      BY <1>1, <2>2, <2>7, <2>8 DEF At
    <3>2. \A y \in Lines' : y.turn = x.turn =>
            /\ x.phase \in {"seq", "insert"} /\ x.saving = <<"assistant">>
            /\ y.role = "user" /\ y.chat = x.chat
      <4>1. CASE x = IdleDesk
        <5>1. \A y \in Lines' : y.turn # 0
          BY <1>1, <2>2, <2>7, <2>8 DEF Labelled
        <5> QED
          BY <4>1, <5>1 DEF IdleDesk
      <4>2. CASE x # IdleDesk
        BY <2>2, <2>4, <2>7, <2>8, <4>2
      <4> QED
        BY <4>1, <4>2
    <3>3. \/ x.phase = "idle"
          \/ x.turn = desk[d].turn /\ ~At(d, "idle")
      BY <1>1, <2>4 DEF IdleDesk, At
    <3> QED
      BY <1>1, <2>4, <2>6, <2>7, <3>1, <3>2, <3>3, DesksGoOn
  <2>13. Ordered'
    <3> PICK c : c = desk[d].chat
      OBVIOUS
    <3>1. x.phase # "insert"
      BY <2>4 DEF IdleDesk
    <3>2. \A e \in Desks : desk'[e].phase = "insert" =>
            e # d /\ desk'[e] = desk[e] /\ desk[e].turn # new.turn
      BY <1>1, <2>2, <2>5, <3>1 DEF Desked, OneDeskEach, At
    <3>3. Overlapped'
      <4>1. ASSUME NEW e \in Desks, NEW n \in messages', desk'[e].phase = "insert",
                   n.chat = desk'[e].chat, n.seq >= desk'[e].seq
            PROVE  n.turn # desk'[e].turn /\ {desk'[e].turn, n.turn} \in collided'
        <5>1. e # d /\ desk'[e] = desk[e] /\ desk[e].turn # new.turn
          BY <3>2, <4>1
        <5>2. CASE n \in messages
          BY <1>1, <4>1, <5>1, <5>2 DEF Ordered, Overlapped, At
        <5>3. CASE n = new
          <6>1. {desk[e].turn, desk[d].turn} \in collided
            BY <1>1, <2>2, <4>1, <5>1, <5>3 DEF Ordered, Overlapped, At
          <6> QED
            BY <1>1, <2>2, <5>1, <5>3, <6>1
        <5> QED
          BY <2>3, <5>2, <5>3
      <4>2. ASSUME NEW e \in Desks, NEW f \in Desks, e # f, desk'[e].phase = "insert",
                   desk'[f].phase = "insert", desk'[e].chat = desk'[f].chat
            PROVE  {desk'[e].turn, desk'[f].turn} \in collided'
        BY <1>1, <3>2, <4>2 DEF Ordered, Overlapped, At
      <4> QED
        BY <4>1, <4>2 DEF Overlapped, At
    <3>4. \A b : /\ IsFiniteSet(InChat(b)') /\ InChat(b) \subseteq InChat(b)'
                 /\ Cardinality(InChat(b)) \in Nat /\ Cardinality(InChat(b)') \in Nat
                 /\ Cardinality(InChat(b)) <= Cardinality(InChat(b)')
      <4> SUFFICES ASSUME NEW b
                   PROVE  /\ IsFiniteSet(InChat(b)') /\ InChat(b) \subseteq InChat(b)'
                          /\ Cardinality(InChat(b)) \in Nat /\ Cardinality(InChat(b)') \in Nat
                          /\ Cardinality(InChat(b)) <= Cardinality(InChat(b)')
        OBVIOUS
      <4>1. IsFiniteSet(messages') /\ InChat(b)' \subseteq messages'
        BY <2>9 DEF Types, TableTypes, InChat
      <4>2. IsFiniteSet(InChat(b)')
        BY <4>1, FS_Subset
      <4>3. InChat(b) \subseteq InChat(b)'
        BY <2>3 DEF InChat
      <4>4. IsFiniteSet(InChat(b)) /\ Cardinality(InChat(b)) <= Cardinality(InChat(b)')
        BY <4>2, <4>3, FS_Subset
      <4> QED
        BY <4>2, <4>3, <4>4, FS_CardinalityType
    <3>5. Cardinality(InChat(c)') = Cardinality(InChat(c)) + 1
      <4>1. InChat(c)' = InChat(c) \union {new} /\ new \notin InChat(c)
        BY <2>2, <2>3 DEF InChat
      <4>2. IsFiniteSet(InChat(c))
        BY <1>1, FS_Subset DEF Types, TableTypes, InChat
      <4> QED
        BY <4>1, <4>2, FS_AddElement
    <3>6. Counted'
      <4>1. ASSUME NEW m \in messages' PROVE m.seq <= Cardinality(InChat(m.chat)')
        <5>1. CASE m \in messages
          <6>1. m.seq <= Cardinality(InChat(m.chat)) /\ m.seq \in Nat
            BY <1>1, <5>1 DEF Ordered, Counted, Types, TableTypes, ConversationMessage
          <6>2. PICK b : b = m.chat
            OBVIOUS
          <6>3. Cardinality(InChat(b)) <= Cardinality(InChat(b)')
            BY <3>4
          <6>4. Cardinality(InChat(b)) \in Nat /\ Cardinality(InChat(b)') \in Nat
            BY <3>4
          <6> QED
            BY <6>1, <6>2, <6>3, <6>4 DEF InChat
        <5>2. CASE m = new
          <6>1. desk[d].seq <= 1 + Cardinality(InChat(c))
            BY <1>1, <1>3 DEF Ordered, Counted, At
          <6>2. m.chat = c /\ m.seq = desk[d].seq
            BY <2>2, <5>2
          <6>3. m.seq <= Cardinality(InChat(c)')
            BY <3>4, <3>5, <6>1, <6>2
          <6> QED
            BY <6>2, <6>3
        <5> QED
          BY <2>3, <4>1, <5>1, <5>2
      <4>2. ASSUME NEW e \in Desks, desk'[e].phase = "insert"
            PROVE  /\ desk'[e].seq >= 1
                   /\ desk'[e].chat \in DOMAIN chats' =>
                        desk'[e].seq <= 1 + Cardinality({m \in messages' : m.chat = desk'[e].chat})
        <5>1. desk'[e] = desk[e] /\ desk[e].seq \in Nat
          BY <1>1, <3>2, <4>2 DEF Types, ActorTypes, DeskType
        <5>2. PICK b : b = desk[e].chat
          OBVIOUS
        <5>3. desk[e].seq >= 1 /\ (b \in DOMAIN chats => desk[e].seq <= 1 + Cardinality(InChat(b)))
          BY <1>1, <4>2, <5>1, <5>2 DEF Ordered, Counted, At
        <5>4. /\ Cardinality(InChat(b)) <= Cardinality(InChat(b)')
              /\ Cardinality(InChat(b)) \in Nat /\ Cardinality(InChat(b)') \in Nat
          BY <3>4
        <5>5. b \in DOMAIN chats' => desk[e].seq <= 1 + Cardinality(InChat(b)')
          BY <1>1, <5>1, <5>3, <5>4
        <5> QED
          BY <5>1, <5>2, <5>3, <5>5 DEF InChat
      <4> QED
        BY <4>1, <4>2 DEF Counted, InChat, At
    <3>7. NumberSharedByOverlap'
      <4>1. \A n \in messages : n.chat = new.chat /\ n.seq = new.seq =>
                {new.turn, n.turn} \in collided
        <5> SUFFICES ASSUME NEW n \in messages, n.chat = new.chat, n.seq = new.seq
                     PROVE  {new.turn, n.turn} \in collided
          OBVIOUS
        <5>1. n.seq >= desk[d].seq /\ n.chat = desk[d].chat
          BY <1>1, <2>2 DEF DeskType
        <5> QED
          BY <1>1, <2>2, <5>1 DEF Ordered, Overlapped, At
      <4> SUFFICES ASSUME NEW m \in messages', NEW n \in messages', m # n, m.chat = n.chat,
                          m.seq = n.seq
                   PROVE  {m.turn, n.turn} \in collided'
        BY DEF NumberSharedByOverlap
      <4>2. CASE m \in messages /\ n \in messages
        BY <1>1, <4>2 DEF Ordered, NumberSharedByOverlap
      <4>3. CASE m = new /\ n \in messages
        BY <1>1, <4>1, <4>3
      <4>4. CASE n = new /\ m \in messages
        <5>1. {new.turn, m.turn} \in collided
          BY <4>1, <4>4
        <5>2. {new.turn, m.turn} = {m.turn, n.turn}
          BY <4>4
        <5> QED
          BY <1>1, <5>1, <5>2
      <4> QED
        BY <2>3, <4>2, <4>3, <4>4
    <3>8. AnswerAfterQuestion'
      <4> SUFFICES ASSUME NEW m \in messages', NEW n \in messages', m.turn = n.turn,
                          m.role = "user", n.role = "assistant"
                   PROVE  m.seq < n.seq
        BY DEF AnswerAfterQuestion
      <4>1. CASE m \in messages /\ n \in messages
        BY <1>1, <4>1 DEF Ordered, AnswerAfterQuestion
      <4>2. CASE m = new /\ n \in messages
        <5>1. Line(n) \in Lines /\ Line(n).turn = new.turn /\ Line(n).role = "assistant"
          BY <1>1, <4>2, RowIsLabelled
        <5> QED
          BY <2>2, <5>1
      <4>3. CASE n = new /\ m \in messages
        <5>1. Line(m) \in Lines /\ Line(m).turn = new.turn /\ Line(m).chat = m.chat
          BY <1>1, <4>3, RowIsLabelled
        <5>2. m.chat = desk[d].chat /\ m.turn = desk[d].turn
          BY <2>2, <4>3, <5>1
        <5>3. ~(m.seq >= desk[d].seq)
          BY <1>1, <4>3, <5>2 DEF Ordered, Overlapped, At
        <5>4. m.seq \in Nat /\ desk[d].seq \in Nat
          BY <1>1, <4>3 DEF Types, TableTypes, ConversationMessage, DeskType
        <5> QED
          BY <2>2, <4>3, <5>3, <5>4
      <4> QED
        BY <2>3, <4>1, <4>2, <4>3
    <3> QED
      BY <3>3, <3>6, <3>7, <3>8 DEF Ordered
  <2>14. Prompts'
    BY <1>1, <2>5, <2>6, <2>7, PromptsStay
  <2>15. Indexed'
    BY <1>1, IndexStays
  <2> QED
    BY <2>9, <2>10, <2>11, <2>12, <2>13, <2>14, <2>15 DEF ConversationInv
<1> QED
  BY <1>2, <1>3

-----------------------------------------------------------------------------
(* Steps of the index job and deletions                                    *)

\* While no desk moves, no line is new and chats keep or lose all messages.
LEMMA DesksRest ==
    ASSUME ConversationInv, LinesShrink, UNCHANGED <<desk, asked, used, collided>>,
           episodes \subseteq episodes', messages' \subseteq messages,
           \A m \in messages' : InChat(m.chat)' = InChat(m.chat),
           \A c \in used : c \in DOMAIN chats' => c \in DOMAIN chats /\ InChat(c)' = InChat(c),
           Types', Indexed'
    PROVE  ConversationInv'
<1>1. /\ Types /\ Labelled /\ OneLine /\ Desked /\ Ordered /\ Prompts
      /\ AskedGrows /\ Lines' \subseteq Lines
  BY DEF ConversationInv, AskedGrows, LinesShrink
<1>2. Labelled' /\ OneLine'
  BY <1>1, LabelsStay
<1>3. Desked'
  BY <1>1, DesksStay
<1>4. Ordered'
  BY <1>1, NumbersStay
<1>5. Prompts'
  BY <1>1, PromptsStay
<1> QED
  BY <1>2, <1>3, <1>4, <1>5 DEF ConversationInv

LEMMA DeleteChatStep ==
    ASSUME ConversationInv, NEW c \in Chats, delete_conversation(c)
    PROVE  ConversationInv'
<1>1. /\ Types /\ Indexed
      /\ chats' = [x \in DOMAIN chats \ {c} |-> chats[x]]
      /\ messages' = {m \in messages : m.chat # c}
      /\ UNCHANGED <<workspaces, episodes, desk, worker, asked, used, collided, shared>>
  BY DEF delete_conversation, ConversationInv, History
<1>2. LinesShrink
  <2>1. Held' = Held /\ messages' \subseteq messages /\ episodes' = episodes
    BY <1>1 DEF Held
  <2>2. Lines' \subseteq Lines
    BY <2>1 DEF Lines
  <2> QED
    BY <2>1, <2>2 DEF LinesShrink
<1>3. Types'
  <2>1. IsFiniteSet(messages')
    BY <1>1, FS_Subset DEF Types, TableTypes
  <2> QED
    BY <1>1, <2>1 DEF Types, TableTypes, ActorTypes
<1>4. Indexed'
  BY <1>1, IndexStays
<1>5. \A b : b # c => InChat(b)' = InChat(b)
  BY <1>1 DEF InChat
<1> QED
  BY <1>1, <1>2, <1>3, <1>4, <1>5, DesksRest

LEMMA DeleteProjectStep ==
    ASSUME ConversationInv, NEW p \in Workspaces, delete_project(p)
    PROVE  ConversationInv'
<1>1. /\ Types /\ Indexed
      /\ workspaces' = workspaces \ {p}
      /\ chats' = [c \in DOMAIN chats |-> IF chats[c] = p THEN None ELSE chats[c]]
      /\ UNCHANGED <<messages, episodes, desk, worker, asked, used, collided, shared>>
  BY DEF delete_project, ConversationInv, History
<1>2. LinesShrink
  <2>1. Held' = Held /\ Lines' = Lines
    BY <1>1 DEF Held, Lines
  <2> QED
    BY <1>1, <2>1 DEF LinesShrink
<1>3. Types'
  BY <1>1 DEF Types, TableTypes, ActorTypes
<1>4. Indexed'
  BY <1>1, IndexStays
<1>5. \A b : InChat(b)' = InChat(b)
  BY <1>1 DEF InChat
<1> QED
  BY <1>1, <1>2, <1>3, <1>4, <1>5, DesksRest

\* The batch of a runner and who holds what.
LEMMA BatchSet ==
    ASSUME Types, NEW w \in Runners, NEW y \in WorkerType, worker' = [worker EXCEPT ![w] = y]
    PROVE  /\ worker' \in [Runners -> WorkerType]
           /\ Held' \subseteq Held \union y.batch
           /\ \A i : Holders(i)' \ {w} = Holders(i) \ {w}
           /\ \A i : w \in Holders(i)' <=> \E m \in y.batch : Id(m) = i
<1>1. worker'[w] = y /\ \A v \in Runners : v # w => worker'[v] = worker[v]
  BY DEF Types, ActorTypes
<1> QED
  BY <1>1 DEF Types, ActorTypes, Held, Holders

LEMMA HoldersAreFew ==
    ASSUME NEW i
    PROVE  /\ IsFiniteSet(Holders(i)) /\ Cardinality(Holders(i)) \in Nat
           /\ Cardinality(Runners) \in Nat /\ Cardinality(Holders(i)) <= Cardinality(Runners)
           /\ \A w \in Holders(i) : /\ Cardinality(Holders(i)) >= 1
                                    /\ IsFiniteSet(Holders(i) \ {w})
                                    /\ Cardinality(Holders(i) \ {w}) = Cardinality(Holders(i)) - 1
<1>1. IsFiniteSet(Runners) /\ Holders(i) \subseteq Runners
  BY ConversationAssumption DEF Holders
<1>2. IsFiniteSet(Holders(i)) /\ Cardinality(Holders(i)) <= Cardinality(Runners)
  BY <1>1, FS_Subset
<1>3. Cardinality(Holders(i)) \in Nat /\ Cardinality(Runners) \in Nat
  BY <1>1, <1>2, FS_CardinalityType
<1>4. ASSUME NEW w \in Holders(i)
      PROVE  /\ IsFiniteSet(Holders(i) \ {w})
             /\ Cardinality(Holders(i) \ {w}) = Cardinality(Holders(i)) - 1
             /\ Cardinality(Holders(i)) >= 1
  <2>1. /\ IsFiniteSet(Holders(i) \ {w})
        /\ Cardinality(Holders(i) \ {w}) = Cardinality(Holders(i)) - 1
    BY <1>2, <1>4, FS_RemoveElement
  <2>2. Cardinality(Holders(i) \ {w}) \in Nat
    BY <2>1, FS_CardinalityType
  <2> QED
    BY <1>3, <2>1, <2>2
<1> QED
  BY <1>2, <1>3, <1>4

\* A run that ends without having written, or dies.
LEMMA GiveUpStep ==
    ASSUME ConversationInv, NEW w \in Runners, EmbedFails(w) \/ Die(w)
    PROVE  ConversationInv'
<1>1. /\ Types /\ Indexed /\ worker' = [worker EXCEPT ![w] = IdleWorker]
      /\ UNCHANGED <<chats, workspaces, messages, episodes, desk, asked, used, collided, shared>>
  BY DEF EmbedFails, Die, ConversationInv, Tables, History
<1>2. IdleWorker \in WorkerType /\ IdleWorker.batch = {}
  BY DEF IdleWorker, WorkerType
<1>3. /\ worker' \in [Runners -> WorkerType] /\ Held' \subseteq Held
      /\ \A i : Holders(i)' = Holders(i) \ {w}
  <2> PICK y \in WorkerType : y = IdleWorker
    BY <1>2
  <2>1. /\ worker' \in [Runners -> WorkerType] /\ Held' \subseteq Held \union y.batch
        /\ \A i : Holders(i)' \ {w} = Holders(i) \ {w}
        /\ \A i : w \in Holders(i)' <=> \E m \in y.batch : Id(m) = i
    BY <1>1, BatchSet
  <2>2. \A i : w \notin Holders(i)'
    BY <1>2, <2>1
  <2> QED
    BY <1>2, <2>1, <2>2
<1>4. LinesShrink
  <2>1. Lines' \subseteq Lines
    BY <1>1, <1>3 DEF Lines
  <2> QED
    BY <1>1, <1>3, <2>1 DEF LinesShrink
<1>5. Types'
  <2>1. TableTypes'
    BY <1>1, TablesStay
  <2> QED
    BY <1>1, <1>3, <2>1 DEF Types, ActorTypes
<1>6. \A i : Copies(i)' = Copies(i)
  BY <1>1 DEF Copies
<1>7. \A i : Cardinality(Holders(i)') \in Nat /\ Cardinality(Holders(i)') <= Cardinality(Holders(i))
  BY <1>3, HoldersAreFew, FS_Subset, FS_CardinalityType
<1>8. Indexed'
  <2>1. ASSUME NEW i \in Ids
        PROVE  /\ IsFiniteSet(Copies(i)')
               /\ Cardinality(Copies(i)') + Cardinality(Holders(i)') <= Cardinality(Runners)
    <3>1. /\ IsFiniteSet(Copies(i)) /\ Cardinality(Copies(i)) \in Nat
          /\ Cardinality(Copies(i)) + Cardinality(Holders(i)) <= Cardinality(Runners)
      BY <1>1, <2>1, FS_CardinalityType DEF Indexed
    <3>2. /\ Cardinality(Holders(i)) \in Nat /\ Cardinality(Runners) \in Nat
          /\ Cardinality(Holders(i)') \in Nat /\ Cardinality(Holders(i)') <= Cardinality(Holders(i))
      BY <1>7, HoldersAreFew
    <3>3. Copies(i)' = Copies(i)
      BY <1>6
    <3> QED
      BY <3>1, <3>2, <3>3
  <2>2. /\ \A i \in Ids, v, u \in Runners : v # u /\ {v, u} \subseteq Holders(i)' => i \in shared'
        /\ \A i \in Ids : Copies(i)' # {} /\ Holders(i)' # {} => i \in shared'
    BY <1>1, <1>3, <1>6 DEF Indexed
  <2>3. CopiesByOverlap'
    BY <1>1 DEF Indexed, CopiesByOverlap
  <2> QED
    BY <2>1, <2>2, <2>3 DEF Indexed
<1>9. \A c : InChat(c)' = InChat(c)
  BY <1>1 DEF InChat
<1> QED
  BY <1>1, <1>4, <1>5, <1>8, <1>9, DesksRest

\* A message without an episode of its number has none of its own.
LEMMA UnindexedHasNone ==
    ASSUME Labelled, OneLine, NEW m \in messages, ~has_episode(m)
    PROVE  Copies(Id(m)) = {}
<1> SUFFICES ASSUME NEW e \in Copies(Id(m)) PROVE FALSE
  OBVIOUS
<1>1. e \in episodes /\ Id(e) = Id(m)
  BY DEF Copies
<1>2. e.chat = m.chat /\ e.seq = m.seq
  BY <1>1, SameIdSameLine
<1> QED
  BY <1>1, <1>2 DEF has_episode

LEMMA IndexStep ==
    ASSUME ConversationInv, NEW w \in Runners, index_user(w)
    PROVE  ConversationInv'
<1>1. PICK batch \in _unindexed_messages \ {{}} :
         /\ worker' = [worker EXCEPT ![w] = [phase |-> "embed", batch |-> batch]]
         /\ shared' = shared \union
                {Id(m) : m \in batch \intersect UNION {worker[v].batch : v \in Runners \ {w}}}
  BY DEF index_user
<1>2. /\ Types /\ Labelled /\ OneLine /\ Indexed
      /\ UNCHANGED <<chats, workspaces, messages, episodes, desk, asked, used, collided>>
  BY DEF index_user, ConversationInv, Tables
<1>3. \A m \in batch : m \in messages /\ ~has_episode(m)
  BY DEF _unindexed_messages, kSubset
<1>4. PICK y \in WorkerType : y = [phase |-> "embed", batch |-> batch]
  BY <1>2, <1>3 DEF WorkerType, Types, TableTypes
<1>5. y.batch = batch /\ worker' = [worker EXCEPT ![w] = y]
  BY <1>1, <1>4
<1>6. /\ worker' \in [Runners -> WorkerType] /\ Held' \subseteq Held \union batch
      /\ \A i : Holders(i)' \ {w} = Holders(i) \ {w}
      /\ \A i : w \in Holders(i)' <=> \E m \in batch : Id(m) = i
  BY <1>2, <1>5, BatchSet
<1>7. LinesShrink
  <2>1. Held' \subseteq messages \union Held
    BY <1>3, <1>6
  <2>2. Lines' \subseteq Lines
    BY <1>2, <2>1 DEF Lines
  <2> QED
    BY <1>2, <2>1, <2>2 DEF LinesShrink
<1>8. Types'
  <2>1. TableTypes'
    BY <1>2, TablesStay
  <2> QED
    BY <1>2, <1>6, <2>1 DEF Types, ActorTypes
<1>9. \A i : Copies(i)' = Copies(i)
  BY <1>2 DEF Copies
<1>10. \A i : w \in Holders(i)' => Copies(i) = {}
  BY <1>2, <1>3, <1>6, UnindexedHasNone
<1>11. Indexed'
  <2>1. ASSUME NEW i \in Ids
        PROVE  /\ IsFiniteSet(Copies(i)')
               /\ Cardinality(Copies(i)') + Cardinality(Holders(i)') <= Cardinality(Runners)
    <3>1. /\ IsFiniteSet(Copies(i)) /\ Cardinality(Copies(i)) \in Nat
          /\ Cardinality(Copies(i)) + Cardinality(Holders(i)) <= Cardinality(Runners)
      BY <1>2, <2>1, FS_CardinalityType DEF Indexed
    <3>2. /\ IsFiniteSet(Holders(i)) /\ Cardinality(Holders(i)) \in Nat
          /\ Cardinality(Runners) \in Nat
      BY HoldersAreFew
    <3>3. Holders(i)' \subseteq Runners /\ IsFiniteSet(Runners)
      BY ConversationAssumption DEF Holders
    <3>4. /\ Cardinality(Holders(i)') \in Nat
          /\ Cardinality(Holders(i)') <= Cardinality(Runners)
      BY <3>3, FS_Subset, FS_CardinalityType
    <3>5. CASE w \in Holders(i)'
      <4>1. Copies(i)' = {}
        BY <1>9, <1>10, <3>5
      <4>2. Cardinality(Copies(i)') = 0 /\ IsFiniteSet(Copies(i)')
        BY <4>1, FS_EmptySet
      <4> QED
        BY <3>4, <4>2
    <3>6. CASE w \notin Holders(i)'
      <4>1. Holders(i)' \subseteq Holders(i)
        BY <1>6, <3>6
      <4>2. Cardinality(Holders(i)') <= Cardinality(Holders(i))
        BY <3>2, <4>1, FS_Subset
      <4>3. Copies(i)' = Copies(i)
        BY <1>9
      <4> QED
        BY <3>1, <3>2, <3>4, <4>2, <4>3
    <3> QED
      BY <3>5, <3>6
  <2>2. ASSUME NEW i \in Ids, NEW v \in Runners, v # w, {v, w} \subseteq Holders(i)'
        PROVE  i \in shared'
    <3>1. v \in Holders(i)
      BY <1>6, <2>2
    <3>2. PICK m \in batch : Id(m) = i
      BY <1>6, <2>2
    <3>3. PICK n \in worker[v].batch : Id(n) = i
      BY <3>1 DEF Holders
    <3>4. m \in messages \union Held /\ n \in messages \union Held
      BY <1>3, <3>2, <3>3 DEF Held
    <3>5. m \in ConversationMessage /\ n \in ConversationMessage
      BY <1>2, <1>3, <3>2, <3>3 DEF Types, TableTypes, ActorTypes, WorkerType
    <3>6. m = n
      BY <1>2, <3>2, <3>3, <3>4, <3>5, SameIdSameMessage
    <3>7. m \in batch \intersect UNION {worker[u].batch : u \in Runners \ {w}}
      BY <2>2, <3>2, <3>3, <3>6
    <3> QED
      BY <1>1, <3>2, <3>7
  <2>3. ASSUME NEW i \in Ids, NEW v \in Runners, NEW u \in Runners, v # u,
               {v, u} \subseteq Holders(i)'
        PROVE  i \in shared'
    <3>1. CASE u = w
      BY <2>2, <2>3, <3>1
    <3>2. CASE v = w
      <4>1. {u, w} \subseteq Holders(i)' /\ u # w
        BY <2>3, <3>2
      <4> QED
        BY <2>2, <4>1
    <3>3. CASE u # w /\ v # w
      <4>1. {v, u} \subseteq Holders(i)
        BY <1>6, <2>3, <3>3
      <4>2. i \in shared
        BY <1>2, <2>3, <4>1 DEF Indexed
      <4> QED
        BY <1>1, <4>2
    <3> QED
      BY <3>1, <3>2, <3>3
  <2>4. ASSUME NEW i \in Ids, Copies(i)' # {}, Holders(i)' # {}
        PROVE  i \in shared'
    <3>1. w \notin Holders(i)' /\ Copies(i) # {}
      BY <1>9, <1>10, <2>4
    <3>2. Holders(i) # {}
      BY <1>6, <2>4, <3>1
    <3>3. i \in shared
      BY <1>2, <3>1, <3>2 DEF Indexed
    <3> QED
      BY <1>1, <3>3
  <2>5. CopiesByOverlap'
    BY <1>1, <1>2 DEF Indexed, CopiesByOverlap
  <2> QED
    BY <2>1, <2>3, <2>4, <2>5 DEF Indexed
<1>12. \A c : InChat(c)' = InChat(c)
  BY <1>2 DEF InChat
<1> QED
  BY <1>2, <1>7, <1>8, <1>11, <1>12, DesksRest

LEMMA RowsAreOfMessages ==
    ASSUME NEW batch, NEW r \in Rows(batch, TRUE)
    PROVE  \E m \in batch :
              /\ r = [turn |-> m.turn, role |-> m.role, chat |-> m.chat, seq |-> m.seq,
                      sensitivity |-> m.sensitivity, embedded |-> m.long /\ TRUE,
                      copy |-> 1 + Cardinality(Copies(Id(m)))]
              /\ Id(r) = Id(m) /\ Line(r) = Line(m)
              /\ r.turn = m.turn /\ r.copy = 1 + Cardinality(Copies(Id(m)))
              /\ m.long \in BOOLEAN => r.embedded = m.long
<1>1. PICK m \in batch :
         r = [turn |-> m.turn, role |-> m.role, chat |-> m.chat, seq |-> m.seq,
              sensitivity |-> m.sensitivity, embedded |-> m.long /\ TRUE,
              copy |-> 1 + Cardinality({e \in episodes : Id(e) = Id(m)})]
  BY DEF Rows
<1>2. /\ r.turn = m.turn /\ r.role = m.role /\ r.chat = m.chat /\ r.seq = m.seq
      /\ r.sensitivity = m.sensitivity
      /\ r.copy = 1 + Cardinality({e \in episodes : Id(e) = Id(m)})
  BY <1>1
<1>3. m.long \in BOOLEAN => r.embedded = m.long
  BY <1>1
<1>4. Id(r) = Id(m) /\ Line(r) = Line(m)
  BY <1>2 DEF Id, Line
<1> QED
  BY <1>1, <1>2, <1>3, <1>4 DEF Copies

LEMMA WriteStep ==
    ASSUME ConversationInv, NEW w \in Runners, WriteEpisodes(w)
    PROVE  ConversationInv'
<1> DEFINE batch == worker[w].batch
           rows == Rows(batch, TRUE)
<1>1. /\ Types /\ Labelled /\ OneLine /\ Indexed /\ worker' = [worker EXCEPT ![w] = IdleWorker]
      /\ episodes' = episodes \union rows
      /\ UNCHANGED <<chats, workspaces, messages, desk, asked, used, collided, shared>>
  BY DEF WriteEpisodes, ConversationInv, History
<1>2. \A m \in batch : /\ m \in ConversationMessage /\ m \in Held /\ Id(m) \in Ids
                       /\ m.long \in BOOLEAN /\ w \in Holders(Id(m))
  <2> SUFFICES ASSUME NEW m \in batch
               PROVE  /\ m \in ConversationMessage /\ m \in Held /\ Id(m) \in Ids
                      /\ m.long \in BOOLEAN /\ w \in Holders(Id(m))
    OBVIOUS
  <2>1. m \in ConversationMessage /\ m \in Held /\ w \in Holders(Id(m))
    BY <1>1 DEF Types, ActorTypes, WorkerType, Held, Holders
  <2>2. Id(m) \in Ids
    BY <2>1 DEF ConversationMessage, Id, Ids
  <2>3. m.long \in BOOLEAN
    BY <2>1, Zenon DEF ConversationMessage
  <2> QED
    BY <2>1, <2>2, <2>3
<1>3. \A r \in rows : \E m \in batch :
         /\ r = [turn |-> m.turn, role |-> m.role, chat |-> m.chat, seq |-> m.seq,
                 sensitivity |-> m.sensitivity, embedded |-> m.long /\ TRUE,
                 copy |-> 1 + Cardinality(Copies(Id(m)))]
         /\ Id(r) = Id(m) /\ Line(r) = Line(m)
         /\ r.turn = m.turn /\ r.copy = 1 + Cardinality(Copies(Id(m)))
         /\ r.embedded = m.long
  BY <1>2, RowsAreOfMessages
<1>4. /\ worker' \in [Runners -> WorkerType] /\ Held' \subseteq Held
      /\ \A i : Holders(i)' = Holders(i) \ {w}
  <2> PICK y \in WorkerType : y = IdleWorker
    BY DEF IdleWorker, WorkerType
  <2>1. /\ worker' \in [Runners -> WorkerType] /\ Held' \subseteq Held \union y.batch
        /\ \A i : Holders(i)' \ {w} = Holders(i) \ {w}
        /\ \A i : w \in Holders(i)' <=> \E m \in y.batch : Id(m) = i
    BY <1>1, BatchSet
  <2>2. y.batch = {}
    BY DEF IdleWorker
  <2>3. \A i : w \notin Holders(i)'
    BY <2>1, <2>2
  <2> QED
    BY <2>1, <2>2, <2>3
<1> HIDE DEF batch, rows
<1>5. \A i \in Ids : /\ IsFiniteSet(Copies(i)) /\ Cardinality(Copies(i)) \in Nat
                     /\ Cardinality(Copies(i)) + Cardinality(Holders(i)) <= Cardinality(Runners)
  BY <1>1, FS_CardinalityType DEF Indexed
<1>6. \A m \in batch : 1 + Cardinality(Copies(Id(m))) \in 1..Cardinality(Runners)
  <2> SUFFICES ASSUME NEW m \in batch
               PROVE  1 + Cardinality(Copies(Id(m))) \in 1..Cardinality(Runners)
    OBVIOUS
  <2>1. PICK i \in Ids : i = Id(m) /\ w \in Holders(i)
    BY <1>2
  <2>2. /\ Cardinality(Holders(i)) \in Nat /\ Cardinality(Holders(i)) >= 1
        /\ Cardinality(Runners) \in Nat
    BY <2>1, HoldersAreFew
  <2>3. /\ Cardinality(Copies(i)) \in Nat
        /\ Cardinality(Copies(i)) + Cardinality(Holders(i)) <= Cardinality(Runners)
    BY <1>5
  <2> QED
    BY <2>1, <2>2, <2>3
<1>7. rows \subseteq Episode
  <2> SUFFICES ASSUME NEW r \in rows PROVE r \in Episode
    OBVIOUS
  <2>1. PICK m \in batch :
           r = [turn |-> m.turn, role |-> m.role, chat |-> m.chat, seq |-> m.seq,
                sensitivity |-> m.sensitivity, embedded |-> m.long /\ TRUE,
                copy |-> 1 + Cardinality(Copies(Id(m)))]
    BY <1>3
  <2>2. m \in ConversationMessage /\ 1 + Cardinality(Copies(Id(m))) \in 1..Cardinality(Runners)
    BY <1>2, <1>6
  <2>3. (m.long /\ TRUE) \in BOOLEAN
    OBVIOUS
  <2>4. /\ m.turn \in 1..MaxTurns /\ m.role \in Roles /\ m.chat \in Chats
        /\ m.seq \in 1..(2 * MaxTurns) /\ m.sensitivity \in Sensitivities
    BY <2>2 DEF ConversationMessage
  <2> QED
    BY <2>1, <2>2, <2>3, <2>4 DEF Episode
<1>8. Types'
  <2>1. TableTypes'
    BY <1>1, <1>7 DEF Types, TableTypes
  <2> QED
    BY <1>1, <1>4, <2>1 DEF Types, ActorTypes
<1>9. LinesShrink
  <2>1. \A r \in rows : Line(r) \in Lines
    <3>1. \A m \in batch : Line(m) \in Lines
      BY <1>2 DEF Lines
    <3> QED
      BY <1>3, <3>1
  <2>2. Lines' \subseteq Lines
    <3> SUFFICES ASSUME NEW row \in (messages \union Held \union episodes)' PROVE Line(row) \in Lines
      BY DEF Lines
    <3>1. CASE row \in rows
      BY <2>1, <3>1
    <3>2. CASE row \notin rows
      BY <1>1, <1>4, <3>2 DEF Lines
    <3> QED
      BY <3>1, <3>2
  <2>3. \A e \in episodes' \ episodes :
            \E m \in messages \union Held : e.turn = m.turn /\ e.embedded = m.long
    BY <1>1, <1>2, <1>3
  <2> QED
    BY <1>1, <1>4, <2>2, <2>3 DEF LinesShrink
<1>10. \A i \in Ids :
          \/ Copies(i)' = Copies(i)
          \/ w \in Holders(i) /\ \E r : Copies(i)' = Copies(i) \union {r}
  <2> SUFFICES ASSUME NEW i \in Ids, Copies(i)' # Copies(i)
               PROVE  w \in Holders(i) /\ \E r : Copies(i)' = Copies(i) \union {r}
    OBVIOUS
  <2>1. Copies(i)' = Copies(i) \union {r \in rows : Id(r) = i}
    BY <1>1 DEF Copies
  <2>2. PICK r \in rows : Id(r) = i
    BY <2>1
  <2>3. \A s \in rows : Id(s) = i => s = r
    <3> SUFFICES ASSUME NEW s \in rows, Id(s) = i PROVE s = r
      OBVIOUS
    <3>1. PICK m \in batch :
            /\ r = [turn |-> m.turn, role |-> m.role, chat |-> m.chat, seq |-> m.seq,
                    sensitivity |-> m.sensitivity, embedded |-> m.long /\ TRUE,
                    copy |-> 1 + Cardinality(Copies(Id(m)))]
            /\ Id(r) = Id(m)
      BY <1>3
    <3>2. PICK n \in batch :
            /\ s = [turn |-> n.turn, role |-> n.role, chat |-> n.chat, seq |-> n.seq,
                    sensitivity |-> n.sensitivity, embedded |-> n.long /\ TRUE,
                    copy |-> 1 + Cardinality(Copies(Id(n)))]
            /\ Id(s) = Id(n)
      BY <1>3
    <3>3. m = n
      BY <1>1, <1>2, <2>2, <3>1, <3>2, SameIdSameMessage
    <3> QED
      BY <3>1, <3>2, <3>3
  <2>4. w \in Holders(i)
    BY <1>2, <1>3, <2>2
  <2> QED
    BY <2>1, <2>2, <2>3, <2>4
<1>11. Indexed'
  <2>1. ASSUME NEW i \in Ids
        PROVE  /\ IsFiniteSet(Copies(i)')
               /\ Cardinality(Copies(i)') + Cardinality(Holders(i)') <= Cardinality(Runners)
    <3>1. /\ IsFiniteSet(Copies(i)) /\ Cardinality(Copies(i)) \in Nat
          /\ Cardinality(Copies(i)) + Cardinality(Holders(i)) <= Cardinality(Runners)
      BY <1>5
    <3>2. /\ IsFiniteSet(Holders(i)) /\ Cardinality(Holders(i)) \in Nat
          /\ Cardinality(Runners) \in Nat
      BY HoldersAreFew
    <3>3. Holders(i)' = Holders(i) \ {w}
      BY <1>4
    <3>4. CASE Copies(i)' = Copies(i)
      <4>1. Cardinality(Holders(i)') \in Nat
            /\ Cardinality(Holders(i)') <= Cardinality(Holders(i))
        BY <3>2, <3>3, FS_Subset, FS_CardinalityType
      <4> QED
        BY <3>1, <3>2, <3>4, <4>1
    <3>5. CASE Copies(i)' # Copies(i)
      <4>1. w \in Holders(i)
        BY <1>10, <3>5
      <4>2. PICK r : Copies(i)' = Copies(i) \union {r}
        BY <1>10, <3>5
      <4>3. Cardinality(Holders(i)') = Cardinality(Holders(i)) - 1
        BY <3>3, <4>1, HoldersAreFew
      <4>4. r \notin Copies(i)
        BY <3>5, <4>2
      <4>5. /\ IsFiniteSet(Copies(i)')
            /\ Cardinality(Copies(i)') = Cardinality(Copies(i)) + 1
        BY <3>1, <4>2, <4>4, FS_AddElement
      <4> QED
        BY <3>1, <3>2, <4>3, <4>5
    <3> QED
      BY <3>4, <3>5
  <2>2. ASSUME NEW i \in Ids, NEW v \in Runners, NEW u \in Runners, v # u,
               {v, u} \subseteq Holders(i)'
        PROVE  i \in shared'
    BY <1>1, <1>4, <2>2 DEF Indexed
  <2>3. ASSUME NEW i \in Ids, Copies(i)' # {}, Holders(i)' # {}
        PROVE  i \in shared'
    <3>1. CASE Copies(i)' = Copies(i)
      BY <1>1, <1>4, <2>3, <3>1 DEF Indexed
    <3>2. CASE Copies(i)' # Copies(i)
      <4>1. w \in Holders(i)
        BY <1>10, <3>2
      <4>2. PICK v \in Holders(i)' : TRUE
        BY <2>3
      <4>3. v \in Runners /\ v # w /\ {v, w} \subseteq Holders(i)
        BY <1>4, <4>1, <4>2 DEF Holders
      <4> QED
        BY <1>1, <4>3 DEF Indexed
    <3> QED
      BY <3>1, <3>2
  <2>4. CopiesByOverlap'
    <3> SUFFICES ASSUME NEW e \in episodes', e.copy > 1 PROVE Id(e) \in shared'
      BY DEF CopiesByOverlap
    <3>1. CASE e \in episodes
      BY <1>1, <3>1 DEF Indexed, CopiesByOverlap
    <3>2. CASE e \in rows
      <4>1. PICK m \in batch : Id(e) = Id(m) /\ e.copy = 1 + Cardinality(Copies(Id(m)))
        BY <1>3, <3>2
      <4>2. PICK i \in Ids : i = Id(m) /\ w \in Holders(i)
        BY <1>2
      <4>3. Copies(i) # {}
        <5>1. Cardinality(Copies(i)) # 0
          BY <1>5, <4>1, <4>2
        <5> QED
          BY <5>1, FS_EmptySet
      <4> QED
        BY <1>1, <4>1, <4>2, <4>3 DEF Indexed
    <3> QED
      BY <1>1, <3>1, <3>2
  <2> QED
    BY <2>1, <2>2, <2>3, <2>4 DEF Indexed
<1>12. \A c : InChat(c)' = InChat(c)
  BY <1>1 DEF InChat
<1> QED
  BY <1>1, <1>8, <1>9, <1>11, <1>12, DesksRest

-----------------------------------------------------------------------------
(* The theorems                                                            *)

LEMMA InvInit == Init => ConversationInv
<1> SUFFICES ASSUME Init PROVE ConversationInv
  OBVIOUS
<1>1. /\ DOMAIN chats = {} /\ workspaces = Workspaces /\ messages = {} /\ episodes = {}
      /\ desk = [d \in Desks |-> IdleDesk] /\ worker = [w \in Runners |-> IdleWorker]
      /\ asked = << >> /\ used = {}
  BY DEF Init
<1>2. Types
  <2>1. IsFiniteSet(messages)
    BY <1>1, FS_EmptySet
  <2>2. IdleWorker \in WorkerType
    BY DEF IdleWorker, WorkerType
  <2>3. MaxTurns \in Nat
    BY ConversationAssumption
  <2> QED
    BY <1>1, <2>1, <2>2, <2>3, IdleIsDesk DEF Types, TableTypes, ActorTypes
<1>3. Held = {} /\ Lines = {}
  <2>1. Held = {}
    BY <1>1 DEF Held, IdleWorker
  <2> QED
    BY <1>1, <2>1 DEF Lines
<1>4. Labelled /\ OneLine
  BY <1>1, <1>3 DEF Labelled, OneLine, LongIsSearchable
<1>5. Desked
  <2>1. \A d \in Desks : DeskKnows(d)
    BY <1>1 DEF DeskKnows, IdleDesk, At
  <2> QED
    BY <1>1, <1>3, <2>1, IdleIsDesk DEF Desked, OneDeskEach, Fresh, At
<1>6. Ordered
  BY <1>1, IdleIsDesk
     DEF Ordered, Overlapped, Counted, NumberSharedByOverlap, AnswerAfterQuestion, At
<1>7. Prompts
  BY <1>1 DEF Prompts, PromptKnows, IdleDesk, At
<1>8. Indexed
  <2>1. ASSUME NEW i \in Ids
        PROVE  /\ IsFiniteSet(Copies(i)) /\ Copies(i) = {} /\ Holders(i) = {}
               /\ Cardinality(Copies(i)) + Cardinality(Holders(i)) <= Cardinality(Runners)
    <3>1. Copies(i) = {} /\ Holders(i) = {}
      BY <1>1 DEF Copies, Holders, IdleWorker
    <3>2. IsFiniteSet(Copies(i)) /\ Cardinality(Copies(i)) = 0 /\ Cardinality(Holders(i)) = 0
      BY <3>1, FS_EmptySet
    <3>3. Cardinality(Runners) \in Nat
      BY HoldersAreFew
    <3> QED
      BY <3>1, <3>2, <3>3
  <2> QED
    BY <1>1, <2>1 DEF Indexed, CopiesByOverlap
<1> QED
  BY <1>2, <1>4, <1>5, <1>6, <1>7, <1>8 DEF ConversationInv

LEMMA InvStutter ==
    ASSUME ConversationInv, UNCHANGED vars
    PROVE  ConversationInv'
<1>1. /\ Types /\ Indexed
      /\ UNCHANGED <<chats, workspaces, messages, episodes, desk, worker, asked, used, collided,
                     shared>>
  BY DEF vars, ConversationInv
<1>2. LinesShrink
  <2>1. Held' = Held /\ Lines' = Lines
    BY <1>1 DEF Held, Lines
  <2> QED
    BY <1>1, <2>1 DEF LinesShrink
<1>3. Types'
  BY <1>1 DEF Types, TableTypes, ActorTypes
<1>4. Indexed' /\ \A c : InChat(c)' = InChat(c)
  BY <1>1, IndexStays DEF InChat
<1> QED
  BY <1>1, <1>2, <1>3, <1>4, DesksRest

LEMMA InvNext ==
    ASSUME ConversationInv, [Next]_vars
    PROVE  ConversationInv'
<1>1. ASSUME NEW d \in Desks, NEW input \in Inputs, _prepare_turn(d, input)
      PROVE  ConversationInv'
  BY <1>1, PrepareStep
<1>2. ASSUME NEW d \in Desks, Turn(d) \/ Vanish(d)
      PROVE  ConversationInv'
  BY <1>2, RecallStep, HistoryStep, AnswerStep, CreateStep, ReadSeqStep, AppendStep, VanishStep
     DEF Turn
<1>3. ASSUME NEW w \in Runners, index_user(w) \/ EmbedFails(w) \/ WriteEpisodes(w) \/ Die(w)
      PROVE  ConversationInv'
  BY <1>3, IndexStep, GiveUpStep, WriteStep
<1>4. ASSUME NEW c \in Chats, delete_conversation(c)
      PROVE  ConversationInv'
  BY <1>4, DeleteChatStep
<1>5. ASSUME NEW p \in Workspaces, delete_project(p)
      PROVE  ConversationInv'
  BY <1>5, DeleteProjectStep
<1>6. CASE UNCHANGED vars
  BY <1>6, InvStutter
<1> QED
  BY <1>1, <1>2, <1>3, <1>4, <1>5, <1>6 DEF Next

LEMMA InvHolds == Spec => []ConversationInv
<1>1. ConversationInv /\ [Next]_vars => ConversationInv'
  BY InvNext
<1> QED
  BY InvInit, <1>1, PTL DEF Spec

\* The rows of a chat keep their types and refer to rows that exist, two messages
\* have one number only if their turns held the next number at the same time
\* (append_message), and an answer comes after its question: for every number of
\* turns that overlap and whatever is deleted in between.
THEOREM ChatsKeepTheirOrder == Spec => []ChatsStayOrdered
<1>1. ConversationInv => ChatsStayOrdered
  <2> SUFFICES ASSUME ConversationInv PROVE ChatsStayOrdered
    OBVIOUS
  <2>1. Types /\ Ordered
    BY DEF ConversationInv
  <2>2. \A d \in Desks :
          /\ DOMAIN desk[d] = DOMAIN IdleDesk
          /\ desk[d].phase \in {"idle", "recall", "history", "chat", "create", "seq", "insert"}
          /\ desk[d].history \union desk[d].recalled \subseteq Ids
    BY <2>1 DEF Types, ActorTypes, DeskType, Phases, IdleDesk
  <2>3. \A w \in Runners : /\ worker[w].phase \in {"idle", "embed"}
                           /\ worker[w].batch \subseteq ConversationMessage
    BY <2>1 DEF Types, ActorTypes, WorkerType
  <2>4. TypeOK
    BY <2>1, <2>2, <2>3 DEF TypeOK, Types, TableTypes, ActorTypes
  <2> QED
    BY <2>1, <2>4 DEF ChatsStayOrdered, Ordered
<1> QED
  BY InvHolds, <1>1, PTL

\* The prompt for a provider that is not local holds nothing that was classified
\* S3 or S4, whether it comes from the history or over the index and the recall,
\* and nothing is in a prompt twice.
THEOREM PromptsAreClean == Spec => []PromptIsClean
<1>1. ConversationInv => PromptIsClean
  BY DEF ConversationInv, Prompts, PromptKnows, PromptIsClean, CloudSeesLow, NoEcho
<1> QED
  BY InvHolds, <1>1, PTL

\* What is long enough to be found has a vector, and a message has two episodes
\* only if two runs of the index job held it at the same time, however many
\* workers there are and wherever they die.
THEOREM IndexStaysUsable == Spec => []IndexIsUsable
<1>1. ConversationInv => IndexIsUsable
  BY DEF ConversationInv, Labelled, Indexed, IndexIsUsable
<1> QED
  BY InvHolds, <1>1, PTL

=============================================================================
