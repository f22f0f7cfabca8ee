--------------------------- MODULE WorkspacesProofs ---------------------------
(***************************************************************************)
(* Proofs about Workspaces for every set of projects, contacts, children,  *)
(* uploads and desks and every bound: rows and contents belong together,   *)
(* edits of other columns survive, and mutations are audited.              *)
(***************************************************************************)
EXTENDS Workspaces, TLAPS, FiniteSetTheorems

-----------------------------------------------------------------------------
(* The inductive invariant                                                 *)

Quiet(d) == desk[d].key = None /\ desk[d].doomed = {} /\ desk[d].removed = {} /\ desk[d].old = None

\* What a request is about, by its operation and phase.
DeskActs(d) ==
    LET r == desk[d]
    IN /\ r.phase = "idle" => r = Idle
       /\ r.phase \in {"insert", "patch", "link", "unlink", "list", "refresh", "audit"} => Quiet(d)
       /\ r.phase = "insert" => r.target \in Children /\ r.parent \in Projects
       /\ r.phase = "patch" => r.target \in Patchable /\ r.wish \in Wishes
                               /\ r.seen \in [Columns -> Values]
       /\ r.phase \in {"link", "unlink"} => r.target \in Contacts /\ r.parent \in Projects
       /\ r.phase = "list" => r.op = "delete_project" /\ r.target \in Projects
       /\ r.phase = "put" => r.op \in {"upload_file", "upload_avatar"}
       /\ r.phase \in {"select", "insert_file"} => r.op = "upload_file"
       /\ r.phase = "reselect" => r.op \in {"delete_file", "upload_avatar"}
       /\ r.phase = "remove" => r.op \in {"delete_project", "delete_file", "upload_avatar",
                                          "delete_avatar", "delete_contact"}
       /\ r.phase = "avatar" => r.op \in {"upload_avatar", "delete_avatar"}
       /\ r.phase = "delete" => r.op \in {"delete_child", "delete_project", "delete_file",
                                          "delete_contact"}

Uploading(d) ==
    desk[d].op \in {"upload_file", "upload_avatar"} /\ desk[d].phase \notin {"idle", "refresh", "audit"}

OnFile(d) == desk[d].op = "delete_file" /\ desk[d].phase \in {"remove", "reselect", "delete"}

OnProject(d) == desk[d].op = "delete_project" /\ desk[d].phase \in {"remove", "delete"}

OnAvatar(d) ==
    /\ desk[d].op \in {"upload_avatar", "delete_avatar", "delete_contact"}
    /\ desk[d].phase \notin {"idle", "refresh", "audit"}

\* A file or an avatar on its way: nobody else knows its key, and from the PUT on
\* its content is there.
UploadKnows(d) ==
    IF Uploading(d)
    THEN /\ desk[d].key \in minted /\ Fresh(desk[d].key)
         /\ \A c \in Contacts : avatar[c] # desk[d].key
         /\ ~At(d, "put") => desk[d].key \in objects
         /\ desk[d].op = "upload_file" => desk[d].target \in Projects /\ desk[d].doomed = {}
                                          /\ desk[d].removed = {} /\ desk[d].old = None
    ELSE desk[d].key = None

\* A file that has been loaded once is removed and then loaded again.
FileKnows(d) ==
    OnFile(d) =>
      /\ desk[d].target \in Keys /\ ~Fresh(desk[d].target) /\ desk[d].old = None
      /\ IF At(d, "remove") THEN desk[d].doomed = {desk[d].target} /\ desk[d].removed = {}
         ELSE desk[d].doomed = {} /\ desk[d].removed = {desk[d].target}

\* What a deletion has listed are files of its project; a file it has not listed
\* came later.
ProjectKnows(d) ==
    OnProject(d) =>
      /\ desk[d].target \in Projects /\ desk[d].old = None
      /\ \A k \in desk[d].doomed \union desk[d].removed :
            ~Fresh(k) /\ (There(k) => row[k].parent = desk[d].target)
      /\ FilesOf(desk[d].target) \subseteq desk[d].doomed \union desk[d].removed \union excused
      /\ At(d, "delete") => desk[d].doomed = {}

\* The avatar a request has loaded is still the contact's, or is nobody's; what
\* has replaced it is known to have been overtaken.
AvatarKnows(d) ==
    OnAvatar(d) =>
      LET old == desk[d].old
      IN /\ desk[d].target \in Contacts
         /\ old # None => /\ old \in minted /\ Fresh(old)
                          /\ \A c \in Contacts : avatar[c] = old => c = desk[d].target
         /\ avatar[desk[d].target] \in {old, None} \union excused
         /\ CASE At(d, "remove") -> desk[d].doomed = {old} /\ desk[d].removed = {} /\ old # None
              [] desk[d].phase \in {"avatar", "delete"} ->
                    desk[d].doomed = {} /\ desk[d].removed = {old} \ {None}
              [] OTHER -> desk[d].doomed = {} /\ desk[d].removed = {}

ChildKnows(d) ==
    desk[d].op = "delete_child" /\ At(d, "delete") => desk[d].target \in Children /\ Quiet(d)

DeskKnows(d) ==
    /\ DeskActs(d) /\ UploadKnows(d) /\ FileKnows(d) /\ ProjectKnows(d) /\ AvatarKnows(d)
    /\ ChildKnows(d) /\ desk[d].removed \intersect objects = {}

\* No two uploads have one key, and none has the key of an avatar that was loaded.
KeysApart ==
    \A d, e \in Desks : desk[d].key # None =>
        /\ desk[d].key # desk[e].old
        /\ d # e => desk[d].key # desk[e].key

\* What a key stands for is decided once; projects and contacts are roots.
TablesKnow ==
    /\ \A k \in Keys : ~Fresh(k) => k \in minted
    /\ \A c \in Contacts : avatar[c] # None => avatar[c] \in minted /\ Fresh(avatar[c])
    /\ \A b, c \in Contacts : avatar[b] # None /\ avatar[b] = avatar[c] => b = c
    /\ \A e \in Projects \union Contacts : row[e].parent = None

\* The row a request reads again has been there.
RefreshKnows ==
    \A d \in Desks : At(d, "refresh") => desk[d].target \in Entities /\ ~Fresh(desk[d].target)

WorkspacesInv ==
    /\ RefreshKnows
    /\ TypeOK /\ TablesKnow /\ (\A d \in Desks : DeskKnows(d)) /\ KeysApart
    /\ NoDangling /\ NoStrayObject /\ MutationsAudited /\ PatchesKept

-----------------------------------------------------------------------------
(* Types                                                                   *)

LEMMA IdleIsDesk ==
    /\ Idle \in DeskType /\ Idle.phase = "idle" /\ Idle.op = None /\ Idle.key = None
    /\ Idle.old = None /\ Idle.doomed = {} /\ Idle.removed = {} /\ Idle.target = None
BY DEF Idle, DeskType

LEMMA RequestIsDesk ==
    ASSUME NEW phase \in Phases, NEW op \in Ops \union {None}, NEW target \in Entities
    PROVE  LET r == Request(phase, op, target)
           IN /\ r \in DeskType /\ r.phase = phase /\ r.op = op /\ r.target = target
              /\ r.key = None /\ r.old = None /\ r.doomed = {} /\ r.removed = {}
BY IdleIsDesk DEF Request, Idle, DeskType

LEMMA DeskFields ==
    ASSUME TypeOK, NEW d \in Desks
    PROVE  /\ desk[d] \in DeskType /\ desk \in [Desks -> DeskType]
           /\ desk[d].phase \in Phases \union {"idle"} /\ desk[d].op \in Ops \union {None}
           /\ desk[d].target \in Entities \union {None} /\ desk[d].parent \in Projects \union {None}
           /\ desk[d].key \in Keys \union {None} /\ desk[d].old \in Keys \union {None}
           /\ desk[d].doomed \subseteq Keys /\ desk[d].removed \subseteq Keys
BY DEF TypeOK, DeskType

LEMMA NoneIsNoRow ==
    /\ None \notin Keys /\ None \notin Projects /\ None \notin Contacts /\ None \notin Children
    /\ Keys \subseteq Entities /\ Projects \subseteq Entities /\ Contacts \subseteq Entities
    /\ Children \subseteq Entities /\ Patchable \subseteq Entities
BY WorkspacesAssumption DEF Entities, Patchable, Children

-----------------------------------------------------------------------------
(* What a step of one request leaves to the others                         *)

Moves(d) ==
    /\ \A k \in Keys :
          /\ ~Fresh(k) => ~Fresh(k)'
          /\ Fresh(k) /\ k # desk[d].key => Fresh(k)'
          /\ There(k)' => \/ There(k) /\ row'[k].parent = row[k].parent
                          \/ k = desk[d].key /\ (Deleting(row'[k].parent) => k \in excused')
    /\ \A c \in Contacts :
          \/ avatar'[c] \in {avatar[c], None}
          \/ /\ avatar'[c] = desk[d].key /\ c = desk[d].target
             /\ Overtaken(d) => desk[d].key \in excused'
    /\ objects' \subseteq objects \union ({desk[d].key} \ {None})
    /\ objects \ objects' \subseteq desk[d].doomed
    /\ minted \subseteq minted' /\ excused \subseteq excused'

\* Every request is in one of the phases the invariant speaks of.
LEMMA DeskCases ==
    ASSUME TypeOK, NEW d \in Desks, DeskActs(d)
    PROVE  \/ desk[d] = Idle
           \/ Quiet(d) /\ desk[d].phase \in {"insert", "patch", "link", "unlink", "list",
                                        "refresh", "audit"}
           \/ Uploading(d) \/ OnFile(d) \/ OnProject(d) \/ OnAvatar(d)
           \/ desk[d].op = "delete_child" /\ At(d, "delete")
BY DeskFields DEF DeskActs, Phases, Uploading, OnFile, OnProject, OnAvatar, At

\* What is removed has had a row, or was an avatar when it was loaded.
LEMMA DoomedAreKnown ==
    ASSUME TypeOK, NEW d \in Desks, DeskKnows(d)
    PROVE  /\ \A k \in desk[d].doomed \union desk[d].removed : ~Fresh(k) \/ (k = desk[d].old /\ k # None)
           /\ desk[d].old # None => OnAvatar(d)
<1>1. CASE desk[d] = Idle
  BY <1>1, IdleIsDesk
<1>2. CASE Quiet(d)
  BY <1>2 DEF Quiet
<1>3. CASE OnFile(d)
  BY <1>3 DEF DeskKnows, FileKnows
<1>4. CASE OnProject(d)
  BY <1>4 DEF DeskKnows, ProjectKnows
<1>5. CASE OnAvatar(d)
  <2>1. \/ desk[d].doomed = {desk[d].old} /\ desk[d].removed = {} /\ desk[d].old # None
        \/ desk[d].doomed = {} /\ desk[d].removed = {desk[d].old} \ {None}
        \/ desk[d].doomed = {} /\ desk[d].removed = {}
    BY <1>5 DEF DeskKnows, AvatarKnows
  <2> QED
    BY <1>5, <2>1
<1>6. CASE Uploading(d) /\ ~OnAvatar(d)
  BY <1>6 DEF DeskKnows, UploadKnows, OnAvatar, Uploading
<1>7. CASE desk[d].op = "delete_child" /\ At(d, "delete")
  BY <1>7 DEF DeskKnows, ChildKnows, Quiet
<1> QED
  BY <1>1, <1>2, <1>3, <1>4, <1>5, <1>6, <1>7, DeskCases DEF DeskKnows

\* The key of an upload is in nobody's list.
LEMMA KeysAreUnknown ==
    ASSUME TypeOK, \A d \in Desks : DeskKnows(d), KeysApart,
           NEW d \in Desks, NEW e \in Desks, desk[d].key # None
    PROVE  /\ Uploading(d) /\ desk[d].key \in minted /\ Fresh(desk[d].key)
           /\ desk[d].key \notin desk[e].doomed \union desk[e].removed
<1>1. Uploading(d) /\ desk[d].key \in minted /\ Fresh(desk[d].key)
  BY DEF DeskKnows, UploadKnows
<1> QED
  BY <1>1, DoomedAreKnown DEF KeysApart

LEMMA OthersKnow ==
    ASSUME WorkspacesInv, NEW d \in Desks, NEW e \in Desks, e # d,
           Moves(d), desk'[e] = desk[e]
    PROVE  DeskKnows(e)'
<1>1. /\ TypeOK /\ KeysApart /\ DeskKnows(d) /\ DeskKnows(e) /\ \A f \in Desks : DeskKnows(f)
  BY DEF WorkspacesInv
<1>2. minted \subseteq Keys /\ None \notin Keys
  BY NoneIsNoRow DEF WorkspacesInv, TypeOK
<1>3. DeskActs(e)'
  BY <1>1 DEF DeskKnows, DeskActs, Quiet
<1>4. UploadKnows(e)'
  <2>1. CASE ~Uploading(e)
    BY <1>1, <2>1 DEF DeskKnows, UploadKnows, Uploading, At
  <2>2. CASE Uploading(e)
    <3>1. /\ desk[e].key \in minted /\ Fresh(desk[e].key) /\ desk[e].key # None /\ desk[e].key \in Keys
          /\ \A c \in Contacts : avatar[c] # desk[e].key
          /\ ~At(e, "put") => desk[e].key \in objects
          /\ desk[e].op = "upload_file" => desk[e].target \in Projects /\ desk[e].doomed = {}
                                           /\ desk[e].removed = {} /\ desk[e].old = None
      BY <1>1, <1>2, <2>2 DEF DeskKnows, UploadKnows
    <3>2. desk[e].key # desk[d].key /\ desk[e].key \notin desk[d].doomed
      BY <1>1, <3>1, KeysAreUnknown DEF KeysApart
    <3>3. Fresh(desk[e].key)' /\ desk[e].key \in minted'
      BY <3>1, <3>2 DEF Moves, Fresh
    <3>4. \A c \in Contacts : avatar'[c] # desk[e].key
      BY <3>1, <3>2 DEF Moves
    <3>5. desk[e].key \in objects => desk[e].key \in objects'
      BY <3>2 DEF Moves
    <3> QED
      BY <2>2, <3>1, <3>3, <3>4, <3>5 DEF UploadKnows, Uploading, At, Fresh
  <2> QED
    BY <2>1, <2>2
<1>5. FileKnows(e)'
  BY <1>1 DEF DeskKnows, FileKnows, OnFile, At, Moves
<1>6. ProjectKnows(e)'
  <2> SUFFICES ASSUME OnProject(e) PROVE ProjectKnows(e)'
    BY DEF ProjectKnows, OnProject, At
  <2>1. /\ desk[e].target \in Projects /\ desk[e].old = None
        /\ \A k \in desk[e].doomed \union desk[e].removed :
              k \in Keys /\ ~Fresh(k) /\ (There(k) => row[k].parent = desk[e].target)
        /\ FilesOf(desk[e].target) \subseteq desk[e].doomed \union desk[e].removed \union excused
        /\ At(e, "delete") => desk[e].doomed = {}
    BY <1>1, DeskFields DEF DeskKnows, ProjectKnows
  <2>2. \A k \in desk[e].doomed \union desk[e].removed :
           ~Fresh(k)' /\ (There(k)' => row'[k].parent = desk[e].target)
    <3> SUFFICES ASSUME NEW k \in desk[e].doomed \union desk[e].removed
                 PROVE  ~Fresh(k)' /\ (There(k)' => row'[k].parent = desk[e].target)
      OBVIOUS
    <3>1. k # desk[d].key
      BY <1>1, <1>2, <2>1, KeysAreUnknown
    <3> QED
      BY <2>1, <3>1 DEF Moves
  <2>3. FilesOf(desk[e].target)' \subseteq desk[e].doomed \union desk[e].removed \union excused'
    <3> SUFFICES ASSUME NEW k \in Keys, There(k)', row'[k].parent = desk[e].target,
                        k \notin excused'
                 PROVE  k \in desk[e].doomed \union desk[e].removed
      BY DEF FilesOf, There
    <3>1. Deleting(desk[e].target)
      BY DEF Deleting, OnProject
    <3>2. There(k) /\ row[k].parent = desk[e].target
      BY <3>1 DEF Moves
    <3> QED
      BY <2>1, <3>2 DEF FilesOf, Moves
  <2> QED
    BY <2>1, <2>2, <2>3 DEF ProjectKnows, At
<1>7. AvatarKnows(e)'
  <2> SUFFICES ASSUME OnAvatar(e) PROVE AvatarKnows(e)'
    BY DEF AvatarKnows, OnAvatar, At
  <2> DEFINE old == desk[e].old
  <2>1. /\ desk[e].target \in Contacts
        /\ old # None => /\ old \in minted /\ Fresh(old)
                         /\ \A c \in Contacts : avatar[c] = old => c = desk[e].target
        /\ avatar[desk[e].target] \in {old, None} \union excused
        /\ CASE At(e, "remove") -> desk[e].doomed = {old} /\ desk[e].removed = {} /\ old # None
             [] desk[e].phase \in {"avatar", "delete"} ->
                   desk[e].doomed = {} /\ desk[e].removed = {old} \ {None}
             [] OTHER -> desk[e].doomed = {} /\ desk[e].removed = {}
    BY <1>1 DEF DeskKnows, AvatarKnows
  <2>2. old # None => old # desk[d].key
    BY <1>1 DEF KeysApart
  <2>3. old # None => /\ old \in minted' /\ Fresh(old)'
                      /\ \A c \in Contacts : avatar'[c] = old => c = desk[e].target
    BY <1>2, <2>1, <2>2 DEF Moves
  <2>4. avatar'[desk[e].target] \in {old, None} \union excused'
    <3>1. CASE avatar'[desk[e].target] \in {avatar[desk[e].target], None}
      BY <2>1, <3>1 DEF Moves
    <3>2. CASE avatar'[desk[e].target] = desk[d].key /\ desk[e].target = desk[d].target
      <4>1. Overtaken(d)
        BY <1>1, <3>2 DEF Overtaken, OnAvatar, Owing
      <4> QED
        BY <2>1, <3>2, <4>1 DEF Moves
    <3> QED
      BY <2>1, <3>1, <3>2 DEF Moves
  <2> HIDE DEF old
  <2>5. CASE At(e, "remove")
    BY <2>1, <2>3, <2>4, <2>5 DEF AvatarKnows, At, Fresh, old
  <2>6. CASE desk[e].phase \in {"avatar", "delete"}
    BY <2>1, <2>3, <2>4, <2>6 DEF AvatarKnows, At, Fresh, old
  <2>7. CASE ~At(e, "remove") /\ desk[e].phase \notin {"avatar", "delete"}
    BY <2>1, <2>3, <2>4, <2>7 DEF AvatarKnows, At, Fresh, old
  <2> QED
    BY <2>5, <2>6, <2>7
<1>8. ChildKnows(e)'
  BY <1>1 DEF DeskKnows, ChildKnows, Quiet, At
<1>9. desk'[e].removed \intersect objects' = {}
  <2>1. desk[d].key # None => desk[d].key \notin desk[e].removed
    BY <1>1, KeysAreUnknown
  <2> QED
    BY <1>1, <2>1 DEF DeskKnows, Moves
<1> QED
  BY <1>3, <1>4, <1>5, <1>6, <1>7, <1>8, <1>9 DEF DeskKnows

LEMMA KeysStayApart ==
    ASSUME WorkspacesInv, NEW d \in Desks, NEW r \in DeskType, desk' = [desk EXCEPT ![d] = r],
           r.key \in {None, desk[d].key} \union (Keys \ minted),
           r.old \in {None, desk[d].old} \union {avatar[c] : c \in Contacts},
           r.key # None => r.key # r.old
    PROVE  KeysApart'
<1>1. /\ TypeOK /\ KeysApart /\ TablesKnow /\ \A e \in Desks : DeskKnows(e)
  BY DEF WorkspacesInv
<1>2. desk'[d] = r /\ \A e \in Desks : e # d => desk'[e] = desk[e]
  BY <1>1, DeskFields
<1>3. /\ \A e \in Desks : desk[e].old # None => desk[e].old \in minted
      /\ \A e \in Desks : desk[e].key # None =>
            desk[e].key \in minted /\ \A c \in Contacts : avatar[c] # desk[e].key
  <2>1. \A e \in Desks : desk[e].old # None => OnAvatar(e)
    BY <1>1, DoomedAreKnown
  <2> QED
    BY <1>1, <2>1 DEF DeskKnows, AvatarKnows, UploadKnows
<1>4. None \notin Keys
  BY NoneIsNoRow
<1> SUFFICES ASSUME NEW e \in Desks, NEW f \in Desks, desk'[e].key # None
             PROVE  /\ desk'[e].key # desk'[f].old
                    /\ e # f => desk'[e].key # desk'[f].key
  BY DEF KeysApart
<1>5. CASE e # d /\ f # d
  BY <1>1, <1>2, <1>5 DEF KeysApart
<1>6. CASE e = d /\ f # d
  <2>1. desk'[e].key = r.key /\ desk'[f] = desk[f]
    BY <1>2, <1>6
  <2>2. CASE r.key = desk[d].key
    BY <1>1, <1>6, <2>1, <2>2 DEF KeysApart
  <2>3. CASE r.key \in Keys \ minted
    BY <1>3, <1>4, <2>1, <2>3
  <2> QED
    BY <2>1, <2>2, <2>3
<1>7. CASE e # d /\ f = d
  <2>1. desk'[e] = desk[e] /\ desk'[f] = r
    BY <1>2, <1>7
  <2>2. desk[e].key # r.old
    BY <1>1, <1>3, <2>1 DEF KeysApart
  <2>3. desk[e].key # r.key
    BY <1>1, <1>3, <1>7, <2>1 DEF KeysApart
  <2> QED
    BY <2>1, <2>2, <2>3
<1>8. CASE e = d /\ f = d
  BY <1>2, <1>8
<1> QED
  BY <1>5, <1>6, <1>7, <1>8

LEMMA Balance ==
    ASSUME NEW u \in Int, NEW v \in Int, NEW l \in Int, NEW n \in Int,
           NEW i \in Nat, NEW j \in Nat, NEW m \in Nat,
           v - n - i = u - l - j, u = l + (m + j)
    PROVE  v = n + (m + i)
OBVIOUS

\* 1 for a request that owes an entry.
Owes(r) == IF r.phase \in {"refresh", "audit"} THEN 1 ELSE 0

\* No row comes back, and none is as if it had never been.
RowsStay ==
    \A e \in Entities : /\ row[e].state = "gone" => row'[e].state = "gone"
                        /\ ~Fresh(e) => ~Fresh(e)'

\* What an entry may be missing for.
Loses ==
    \/ lost' = lost
    \/ \E x \in MayVanish \union Entities :
          (x \in MayVanish \/ row[x].state = "gone") /\ lost' = Append(lost, x)

\* What a request owes and what is lost account for every entry that is missing.
Settles(q, r) == unaudited' - Len(lost') - Owes(r) = unaudited - Len(lost) - Owes(q)

\* The rows that are about to be read again stay rows that have been there.
LEMMA RefreshStays ==
    ASSUME RefreshKnows, RowsStay, NEW d \in Desks, \A e \in Desks : e # d => desk'[e] = desk[e],
           At(d, "refresh")' => desk'[d].target \in Entities /\ row'[desk'[d].target].state # "none"
    PROVE  RefreshKnows'
<1> SUFFICES ASSUME NEW e \in Desks, desk'[e].phase = "refresh"
             PROVE  desk'[e].target \in Entities /\ row'[desk'[e].target].state # "none"
  BY DEF RefreshKnows, At, Fresh
<1>1. CASE e = d
  BY <1>1 DEF At
<1>2. CASE e # d
  <2>1. desk[e].phase = "refresh" /\ desk'[e].target = desk[e].target
    BY <1>2
  <2>2. desk[e].target \in Entities /\ ~Fresh(desk[e].target)
    BY <2>1 DEF RefreshKnows, At
  <2> QED
    BY <2>1, <2>2 DEF RowsStay, Fresh
<1> QED
  BY <1>1, <1>2

LEMMA AuditsAreCounted ==
    ASSUME TypeOK, MutationsAudited, NEW d \in Desks, NEW r \in DeskType,
           desk' = [desk EXCEPT ![d] = r], unaudited' \in Int, Loses, RowsStay,
           Settles(desk[d], r)
    PROVE  /\ MutationsAudited' /\ unaudited' \in Nat
           /\ lost' \in Seq(MayVanish \union Entities)
<1> DEFINE A == {e \in Desks : desk[e].phase \in {"refresh", "audit"}}
           B == {e \in Desks : desk'[e].phase \in {"refresh", "audit"}}
<1>1. desk'[d] = r /\ \A e \in Desks : e # d => desk'[e] = desk[e]
  BY DeskFields
<1>2. A \ {d} = B \ {d} /\ (d \in A <=> desk[d].phase \in {"refresh", "audit"})
      /\ (d \in B <=> r.phase \in {"refresh", "audit"})
  BY <1>1
<1>3. IsFiniteSet(A) /\ IsFiniteSet(B)
  BY WorkspacesAssumption, FS_Subset
<1>4. unaudited = Len(lost) + Cardinality(A) /\ unaudited \in Nat /\ Len(lost) \in Nat
  BY DEF MutationsAudited, Owing, TypeOK
<1> HIDE DEF A, B
<1>5. Cardinality(A) = Cardinality(A \ {d}) + Owes(desk[d]) /\ Cardinality(A \ {d}) \in Nat
  <2>1. Cardinality(A) \in Nat
    BY <1>3, FS_CardinalityType
  <2>2. /\ Cardinality(A \ {d}) = IF d \in A THEN Cardinality(A) - 1 ELSE Cardinality(A)
        /\ IsFiniteSet(A \ {d})
    BY <1>3, FS_RemoveElement
  <2>3. Cardinality(A \ {d}) \in Nat
    BY <2>2, FS_CardinalityType
  <2>4. CASE d \in A
    <3>1. Owes(desk[d]) = 1
      BY <1>2, <2>4 DEF Owes
    <3> QED
      BY <2>1, <2>2, <2>3, <2>4, <3>1
  <2>5. CASE d \notin A
    <3>1. Owes(desk[d]) = 0
      BY <1>2, <2>5 DEF Owes
    <3> QED
      BY <2>1, <2>2, <2>3, <2>5, <3>1
  <2> QED
    BY <2>4, <2>5
<1>6. Cardinality(B) = Cardinality(B \ {d}) + Owes(r) /\ Cardinality(B) \in Nat
  <2>1. Cardinality(B) \in Nat
    BY <1>3, FS_CardinalityType
  <2>2. Cardinality(B \ {d}) = IF d \in B THEN Cardinality(B) - 1 ELSE Cardinality(B)
    BY <1>3, FS_RemoveElement
  <2>4. CASE d \in B
    <3>1. Owes(r) = 1
      BY <1>2, <2>4 DEF Owes
    <3> QED
      BY <2>1, <2>2, <2>4, <3>1
  <2>5. CASE d \notin B
    <3>1. Owes(r) = 0
      BY <1>2, <2>5 DEF Owes
    <3> QED
      BY <2>1, <2>2, <2>5, <3>1
  <2> QED
    BY <2>4, <2>5
<1>8. /\ lost' \in Seq(MayVanish \union Entities) /\ Len(lost') \in Nat
      /\ \A i \in DOMAIN lost' : lost'[i] \in MayVanish \/ row'[lost'[i]].state = "gone"
  <2>1. /\ lost \in Seq(MayVanish \union Entities)
        /\ \A i \in 1 .. Len(lost) :
              lost[i] \in MayVanish \union Entities
              /\ (lost[i] \in MayVanish \/ row[lost[i]].state = "gone")
    BY DEF TypeOK, MutationsAudited
  <2>2. \A i \in 1 .. Len(lost) : lost[i] \in MayVanish \/ row'[lost[i]].state = "gone"
    BY <2>1 DEF RowsStay
  <2>3. ASSUME NEW x \in MayVanish \union Entities, x \in MayVanish \/ row[x].state = "gone",
               lost' = Append(lost, x)
        PROVE  /\ lost' \in Seq(MayVanish \union Entities)
               /\ \A i \in 1 .. Len(lost') : lost'[i] \in MayVanish \/ row'[lost'[i]].state = "gone"
    <3>1. /\ lost' \in Seq(MayVanish \union Entities) /\ Len(lost') = Len(lost) + 1
          /\ lost'[Len(lost) + 1] = x /\ \A i \in 1 .. Len(lost) : lost'[i] = lost[i]
      BY <2>1, <2>3
    <3>2. x \in MayVanish \/ row'[x].state = "gone"
      BY <2>3 DEF RowsStay
    <3>3. ASSUME NEW i \in 1 .. Len(lost')
          PROVE  lost'[i] \in MayVanish \/ row'[lost'[i]].state = "gone"
      <4>1. i \in 1 .. Len(lost) \/ i = Len(lost) + 1
        BY <2>1, <3>1
      <4> QED
        BY <2>2, <3>1, <3>2, <4>1
    <3> QED
      BY <3>1, <3>3
  <2>4. /\ lost' \in Seq(MayVanish \union Entities)
        /\ \A i \in 1 .. Len(lost') : lost'[i] \in MayVanish \/ row'[lost'[i]].state = "gone"
    <3>1. CASE lost' = lost
      BY <2>1, <2>2, <3>1
    <3>2. CASE lost' # lost
      BY <2>3, <3>2 DEF Loses
    <3> QED
      BY <3>1, <3>2
  <2>5. DOMAIN lost' = 1 .. Len(lost') /\ Len(lost') \in Nat
    BY <2>4
  <2> QED
    BY <2>4, <2>5
<1>7. unaudited' = Len(lost') + Cardinality(B)
  <2>1. Owes(r) \in Nat /\ Owes(desk[d]) \in Nat
    BY DEF Owes
  <2>2. Cardinality(A \ {d}) = Cardinality(B \ {d})
    BY <1>2
  <2>3. unaudited = Len(lost) + (Cardinality(A \ {d}) + Owes(desk[d]))
    BY <1>4, <1>5
  <2>5. /\ Len(lost') \in Int /\ Len(lost) \in Int /\ unaudited \in Int
        /\ unaudited' - Len(lost') - Owes(r) = unaudited - Len(lost) - Owes(desk[d])
    BY <1>4, <1>8 DEF Settles
  <2>4. unaudited' = Len(lost') + (Cardinality(A \ {d}) + Owes(r))
    <3>1. Cardinality(A \ {d}) \in Nat /\ Len(lost) \in Int /\ unaudited \in Int
      BY <1>5, <2>5
    <3>2. PICK v \in Int, n \in Int : v = unaudited' /\ n = Len(lost')
      BY <1>8, <2>5
    <3>3. PICK u \in Int, l \in Int : u = unaudited /\ l = Len(lost)
      BY <3>1
    <3>4. PICK m \in Nat, i \in Nat, j \in Nat :
            m = Cardinality(A \ {d}) /\ i = Owes(r) /\ j = Owes(desk[d])
      BY <2>1, <3>1
    <3>5. v - n - i = u - l - j
      BY <2>5, <3>2, <3>3, <3>4
    <3>6. u = l + (m + j)
      BY <2>3, <3>3, <3>4
    <3>7. v = n + (m + i)
      BY <3>5, <3>6, Balance
    <3> QED
      BY <3>2, <3>4, <3>7
  <2> QED
    BY <1>6, <2>2, <2>4
<1>9. unaudited' \in Nat
  BY <1>6, <1>7, <1>8
<1> QED
  BY <1>7, <1>8, <1>9 DEF MutationsAudited, Owing, B

\* A step that changes no table: the request goes on, ends, or is cut off.
LEMMA DeskSteps ==
    ASSUME WorkspacesInv, NEW d \in Desks, NEW r \in DeskType, desk' = [desk EXCEPT ![d] = r],
           UNCHANGED <<row, avatar, linked, objects, last, crossed>>,
           minted \subseteq minted', minted' \subseteq Keys, requests' \in 0 .. MaxRequests,
           cut \subseteq cut', cut' \subseteq Keys, excused \subseteq excused', excused' \subseteq Keys,
           unaudited' \in Int, Loses,
           unaudited' - Len(lost') - Owes(r) = unaudited - Len(lost) - Owes(desk[d]),
           r.key \in {None, desk[d].key} \union (Keys \ minted),
           desk[d].key \in {None, r.key} \union excused',
           r.old \in {None, desk[d].old} \union {avatar[c] : c \in Contacts},
           r.key # None => r.key # r.old,
           desk[d].removed \subseteq r.removed \union cut',
           r.phase # "refresh", DeskKnows(d)'
    PROVE  WorkspacesInv'
<1>1. /\ TypeOK /\ KeysApart /\ TablesKnow /\ (\A e \in Desks : DeskKnows(e))
      /\ NoDangling /\ NoStrayObject /\ MutationsAudited /\ PatchesKept
  BY DEF WorkspacesInv
<1>2. desk'[d] = r /\ \A e \in Desks : e # d => desk'[e] = desk[e]
  BY <1>1, DeskFields
<1>3. Moves(d)
  BY DEF Moves, Fresh, There
<1>4. \A e \in Desks : DeskKnows(e)'
  BY <1>2, <1>3, OthersKnow
<1>5. KeysApart'
  BY KeysStayApart
<1>6. /\ MutationsAudited' /\ unaudited' \in Nat /\ RowsStay
      /\ lost' \in Seq(MayVanish \union Entities)
  <2>1. RowsStay
    BY DEF RowsStay, Fresh
  <2> QED
    BY <1>1, <2>1, AuditsAreCounted DEF Settles
<1>13. RefreshKnows'
  BY <1>2, <1>6, RefreshStays DEF At, WorkspacesInv
<1>7. TablesKnow'
  BY <1>1 DEF TablesKnow, Fresh
<1>8. Referenced' = Referenced
  BY DEF Referenced, There
<1>9. NoDangling'
  <2> SUFFICES ASSUME NEW k \in Referenced
               PROVE  k \in objects \/ k \in cut' \/ \E e \in Desks : k \in desk'[e].removed
    BY <1>8 DEF NoDangling, download
  <2>1. k \in objects \/ k \in cut \/ \E e \in Desks : k \in desk[e].removed
    BY <1>1 DEF NoDangling, download
  <2> QED
    BY <1>2, <2>1
<1>10. NoStrayObject'
  <2> SUFFICES ASSUME NEW k \in objects \ Referenced
               PROVE  k \in excused' \/ \E e \in Desks : desk'[e].key = k
    BY <1>8 DEF NoStrayObject
  <2>1. k \in excused \/ \E e \in Desks : desk[e].key = k
    BY <1>1 DEF NoStrayObject
  <2>2. k # None
    BY <1>1, NoneIsNoRow DEF TypeOK
  <2> QED
    BY <1>2, <2>1, <2>2
<1>11. PatchesKept'
  BY <1>1 DEF PatchesKept
<1>12. TypeOK'
  <2>1. desk' \in [Desks -> DeskType]
    BY <1>1, DeskFields
  <2> QED
    BY <1>1, <1>6, <2>1 DEF TypeOK, There
<1> QED
  BY <1>4, <1>5, <1>6, <1>7, <1>9, <1>10, <1>11, <1>12, <1>13 DEF WorkspacesInv
-----------------------------------------------------------------------------
(* Steps that change no table                                              *)

\* A request that holds no content: it waits, inserts, edits, ends.
LEMMA QuietKnows ==
    ASSUME NEW d \in Desks, DeskActs(d)', Quiet(d)',
           \/ desk'[d].phase \in {"idle", "refresh", "audit"}
           \/ /\ desk'[d].phase \in {"insert", "patch", "link", "unlink", "list"}
              /\ desk'[d].op \in {"create", "patch", "link_project", "unlink_project",
                                  "delete_project"}
           \/ desk'[d].phase = "delete" /\ desk'[d].op = "delete_child" /\ desk'[d].target \in Children
    PROVE  DeskKnows(d)'
<1>1. (~Uploading(d))' /\ (~OnFile(d))' /\ (~OnProject(d))' /\ (~OnAvatar(d))'
  BY DEF Uploading, OnFile, OnProject, OnAvatar, At, DeskActs, Idle
<1>2. UploadKnows(d)' /\ FileKnows(d)' /\ ProjectKnows(d)' /\ AvatarKnows(d)'
  BY <1>1 DEF UploadKnows, FileKnows, ProjectKnows, AvatarKnows, Quiet
<1>3. ChildKnows(d)'
  <2>1. desk'[d].op = "delete_child" /\ desk'[d].phase = "delete" => desk'[d].target \in Children
    OBVIOUS
  <2> QED
    BY <2>1 DEF ChildKnows, Quiet, At
<1>4. (desk[d].removed \intersect objects = {})'
  BY DEF Quiet
<1> QED
  BY <1>2, <1>3, <1>4 DEF DeskKnows

LEMMA IdleKnows ==
    ASSUME NEW d \in Desks, desk'[d] = Idle
    PROVE  DeskKnows(d)'
<1>1. DeskActs(d)' /\ Quiet(d)'
  BY IdleIsDesk DEF DeskActs, Quiet
<1> QED
  BY <1>1, IdleIsDesk, QuietKnows

\* A request is received.
LEMMA BeginSteps ==
    ASSUME WorkspacesInv, NEW d \in Desks, Begin(d), NEW r \in DeskType, Go(d, r),
           UNCHANGED <<rows, objects, minted, unaudited, history>>,
           r.phase \notin {"refresh", "audit"}, r.key = None,
           r.old \in {None} \union {avatar[c] : c \in Contacts},
           DeskKnows(d)'
    PROVE  WorkspacesInv'
<1>1. TypeOK /\ desk[d] = Idle
  BY DEF WorkspacesInv, DeskKnows, DeskActs, Begin, Busy, At
<1>2. Owes(r) = 0 /\ Owes(desk[d]) = 0
  BY <1>1, IdleIsDesk DEF Owes
<1>3. requests' \in 0 .. MaxRequests
  BY <1>1, WorkspacesAssumption DEF TypeOK, Begin
<1>4. UNCHANGED <<row, avatar, linked, objects, last, crossed, minted, unaudited, lost, cut, excused>>
  BY DEF rows, history
<1>5. minted' \subseteq Keys /\ cut' \subseteq Keys /\ excused' \subseteq Keys
      /\ unaudited \in Int /\ Len(lost) \in Nat
  BY <1>1, <1>4 DEF TypeOK
<1>6. desk[d].key = None /\ desk[d].removed = {}
  BY <1>1, IdleIsDesk
<1> QED
  BY <1>2, <1>3, <1>4, <1>5, <1>6, DeskSteps DEF Go, Loses

\* A request goes on to its next phase.
LEMMA GoSteps ==
    ASSUME WorkspacesInv, NEW d \in Desks, NEW r \in DeskType, Go(d, r),
           UNCHANGED <<row, avatar, linked, objects, requests, minted, unaudited, lost, last,
                       crossed, cut, excused>>,
           r.phase \notin {"refresh", "audit"}, desk[d].phase \notin {"refresh", "audit"},
           r.key = desk[d].key, r.old = desk[d].old, desk[d].removed \subseteq r.removed,
           DeskKnows(d)'
    PROVE  WorkspacesInv'
<1>1. TypeOK /\ KeysApart
  BY DEF WorkspacesInv
<1>2. Owes(r) = 0 /\ Owes(desk[d]) = 0
  BY DEF Owes
<1>3. /\ minted' \subseteq Keys /\ cut' \subseteq Keys /\ excused' \subseteq Keys
      /\ unaudited \in Int /\ Len(lost) \in Nat /\ requests' \in 0 .. MaxRequests
  BY <1>1 DEF TypeOK
<1>4. r.key # None => r.key # r.old
  BY <1>1 DEF KeysApart
<1> QED
  BY <1>2, <1>3, <1>4, DeskSteps DEF Go, Loses

\* A request ends with an error or is cut off.
LEMMA FailSteps ==
    ASSUME WorkspacesInv, NEW d \in Desks, Fail(d),
           UNCHANGED <<row, avatar, linked, objects, requests, minted, last, crossed>>,
           unaudited' \in Int, Loses,
           unaudited' - Len(lost') = unaudited - Len(lost) - Owes(desk[d])
    PROVE  WorkspacesInv'
<1>1. TypeOK
  BY DEF WorkspacesInv
<1>2. desk' = [desk EXCEPT ![d] = Idle] /\ desk'[d] = Idle
  BY <1>1, DeskFields DEF Fail, End, Go
<1>3. Owes(Idle) = 0 /\ unaudited' - Len(lost') - 0 = unaudited' - Len(lost')
  BY IdleIsDesk DEF Owes
<1>4. /\ cut' = cut \union desk[d].removed /\ excused' = excused \union ({desk[d].key} \ {None})
      /\ desk[d].removed \subseteq Keys /\ desk[d].key \in Keys \union {None}
  BY <1>1, DeskFields DEF Fail
<1>5. /\ minted' \subseteq Keys /\ cut' \subseteq Keys /\ excused' \subseteq Keys
      /\ requests' \in 0 .. MaxRequests
  BY <1>1, <1>4 DEF TypeOK
<1>6. DeskKnows(d)'
  BY <1>2, IdleKnows
<1> QED
  BY <1>2, <1>3, <1>4, <1>5, <1>6, IdleIsDesk, DeskSteps

\* A request that holds no content ends.
LEMMA EndSteps ==
    ASSUME WorkspacesInv, NEW d \in Desks, End(d), Quiet(d),
           UNCHANGED <<row, avatar, linked, objects, requests, minted, last, crossed, lost, cut,
                       excused>>,
           unaudited' = unaudited - Owes(desk[d])
    PROVE  WorkspacesInv'
<1>1. TypeOK
  BY DEF WorkspacesInv
<1>2. Owes(desk[d]) \in Nat /\ unaudited \in Int /\ Len(lost) \in Nat
  BY <1>1 DEF Owes, TypeOK
<1>3. unaudited' \in Int /\ unaudited' - Len(lost') = unaudited - Len(lost) - Owes(desk[d])
  BY <1>2
<1>4. Fail(d)
  BY DEF Fail, Quiet
<1> QED
  BY <1>2, <1>3, <1>4, FailSteps DEF Loses
LEMMA AttachPreserves ==
    ASSUME WorkspacesInv, NEW d \in Desks, NEW x \in Children, NEW p \in Projects, Attach(d, x, p)
    PROVE  WorkspacesInv'
<1> DEFINE r == [Request("insert", "create", x) EXCEPT !.parent = p]
<1>1. r \in DeskType /\ r.phase = "insert" /\ r.op = "create" /\ r.target = x /\ r.parent = p
      /\ r.key = None /\ r.old = None /\ r.doomed = {} /\ r.removed = {}
  BY IdleIsDesk, NoneIsNoRow DEF Request, Idle, DeskType, Phases, Ops
<1>2. Go(d, r) /\ Begin(d) /\ UNCHANGED <<rows, objects, minted, unaudited, history>>
  BY DEF Attach
<1> HIDE DEF r
<1>3. desk'[d] = r
  BY <1>2, DeskFields DEF Go, WorkspacesInv
<1>4. DeskActs(d)' /\ Quiet(d)'
  BY <1>1, <1>3 DEF DeskActs, Quiet
<1> QED
  BY <1>1, <1>2, <1>3, <1>4, QuietKnows, BeginSteps

LEMMA LoadPreserves ==
    ASSUME WorkspacesInv, NEW d \in Desks, NEW e \in Patchable, NEW wish \in Wishes, Load(d, e, wish)
    PROVE  WorkspacesInv'
<1> DEFINE r == [Request("patch", "patch", e) EXCEPT !.seen = row[e].value, !.wish = wish]
<1>1. row[e].value \in [Columns -> Values]
  BY NoneIsNoRow DEF WorkspacesInv, TypeOK, Row
<1>2. r \in DeskType /\ r.phase = "patch" /\ r.op = "patch" /\ r.target = e
      /\ r.wish = wish /\ r.seen = row[e].value
      /\ r.key = None /\ r.old = None /\ r.doomed = {} /\ r.removed = {}
  BY <1>1, IdleIsDesk, NoneIsNoRow DEF Request, Idle, DeskType, Phases, Ops
<1>3. Go(d, r) /\ Begin(d) /\ UNCHANGED <<rows, objects, minted, unaudited, history>>
  BY DEF Load
<1> HIDE DEF r
<1>4. desk'[d] = r
  BY <1>3, DeskFields DEF Go, WorkspacesInv
<1>5. DeskActs(d)' /\ Quiet(d)'
  BY <1>1, <1>2, <1>4 DEF DeskActs, Quiet
<1> QED
  BY <1>2, <1>3, <1>4, <1>5, QuietKnows, BeginSteps

LEMMA DetachPreserves ==
    ASSUME WorkspacesInv, NEW d \in Desks, NEW x \in Children, Detach(d, x)
    PROVE  WorkspacesInv'
<1> DEFINE r == Request("delete", "delete_child", x)
<1>1. r \in DeskType /\ r.phase = "delete" /\ r.op = "delete_child" /\ r.target = x
      /\ r.key = None /\ r.old = None /\ r.doomed = {} /\ r.removed = {}
  BY RequestIsDesk, NoneIsNoRow DEF Phases, Ops
<1>2. Go(d, r) /\ Begin(d) /\ UNCHANGED <<rows, objects, minted, unaudited, history>>
  BY DEF Detach
<1> HIDE DEF r
<1>3. desk'[d] = r
  BY <1>2, DeskFields DEF Go, WorkspacesInv
<1>4. DeskActs(d)' /\ Quiet(d)'
  BY <1>1, <1>3 DEF DeskActs, Quiet
<1> QED
  BY <1>1, <1>2, <1>3, <1>4, QuietKnows, BeginSteps

LEMMA LinkingPreserves ==
    ASSUME WorkspacesInv, NEW d \in Desks, NEW c \in Contacts, NEW p \in Projects,
           link_project(d, c, p) \/ unlink_project(d, c, p)
    PROVE  WorkspacesInv'
<1>1. PICK phase \in {"link", "unlink"}, op \in {"link_project", "unlink_project"} :
        Go(d, [Request(phase, op, c) EXCEPT !.parent = p])
        /\ Begin(d) /\ UNCHANGED <<rows, objects, minted, unaudited, history>>
  BY DEF link_project, unlink_project
<1> DEFINE r == [Request(phase, op, c) EXCEPT !.parent = p]
<1>2. r \in DeskType /\ r.phase = phase /\ r.op = op /\ r.target = c /\ r.parent = p
      /\ r.key = None /\ r.old = None /\ r.doomed = {} /\ r.removed = {}
  BY IdleIsDesk, NoneIsNoRow DEF Request, Idle, DeskType, Phases, Ops
<1>3. Go(d, r)
  BY <1>1
<1> HIDE DEF r
<1>4. desk'[d] = r
  BY <1>3, DeskFields DEF Go, WorkspacesInv
<1>5. DeskActs(d)' /\ Quiet(d)'
  BY <1>2, <1>4 DEF DeskActs, Quiet
<1> QED
  BY <1>1, <1>2, <1>3, <1>4, <1>5, QuietKnows, BeginSteps

LEMMA DeleteProjectPreserves ==
    ASSUME WorkspacesInv, NEW d \in Desks, NEW p \in Projects, delete_project(d, p)
    PROVE  WorkspacesInv'
<1> DEFINE r == Request("list", "delete_project", p)
<1>1. r \in DeskType /\ r.phase = "list" /\ r.op = "delete_project" /\ r.target = p
      /\ r.key = None /\ r.old = None /\ r.doomed = {} /\ r.removed = {}
  BY RequestIsDesk, NoneIsNoRow DEF Phases, Ops
<1>2. Go(d, r) /\ Begin(d) /\ UNCHANGED <<rows, objects, minted, unaudited, history>>
  BY DEF delete_project
<1> HIDE DEF r
<1>3. desk'[d] = r
  BY <1>2, DeskFields DEF Go, WorkspacesInv
<1>4. DeskActs(d)' /\ Quiet(d)'
  BY <1>1, <1>3 DEF DeskActs, Quiet
<1> QED
  BY <1>1, <1>2, <1>3, <1>4, QuietKnows, BeginSteps

\* An upload takes a key that nobody has.
LEMMA NewKeyIsNew ==
    ASSUME Keys \ minted # {}
    PROVE  NewKey \in Keys \ minted
BY DEF NewKey

LEMMA UploadPreserves ==
    ASSUME WorkspacesInv, NEW d \in Desks, Begin(d), NEW r \in DeskType, Go(d, r),
           r.phase = "put", r.key \in Keys \ minted, minted' = minted \union {r.key},
           r.doomed = {}, r.removed = {},
           \/ r.op = "upload_file" /\ r.target \in Projects /\ r.old = None
           \/ r.op = "upload_avatar" /\ r.target \in Contacts /\ r.old = avatar[r.target],
           UNCHANGED <<rows, objects, unaudited, history>>
    PROVE  WorkspacesInv'
<1>1. /\ TypeOK /\ TablesKnow /\ desk[d] = Idle
      /\ \A e \in Desks : DeskKnows(e)
  BY DEF WorkspacesInv, DeskKnows, DeskActs, Begin, Busy, At
<1>2. Owes(r) = 0 /\ Owes(desk[d]) = 0
  BY <1>1, IdleIsDesk DEF Owes
<1>3. requests' \in 0 .. MaxRequests
  BY <1>1, WorkspacesAssumption DEF TypeOK, Begin
<1>4. UNCHANGED <<row, avatar, linked, objects, last, crossed, unaudited, lost, cut, excused>>
  BY DEF rows, history
<1>5. minted \subseteq minted' /\ minted' \subseteq Keys /\ cut' \subseteq Keys
      /\ excused' \subseteq Keys /\ unaudited \in Int /\ Len(lost) \in Nat
  BY <1>1, <1>4 DEF TypeOK
<1>6. desk[d].key = None /\ desk[d].removed = {}
  BY <1>1, IdleIsDesk
<1>7. desk'[d] = r
  BY <1>1, DeskFields DEF Go
<1>8. r.key # None /\ Fresh(r.key) /\ \A c \in Contacts : avatar[c] # r.key
  <2>1. row[r.key].state \in {"none", "there", "gone"}
    BY <1>1, NoneIsNoRow DEF TypeOK, Row
  <2> QED
    BY <1>1, <2>1, NoneIsNoRow DEF TablesKnow
<1>9. r.key # r.old
  BY <1>8
<1>10. DeskKnows(d)'
  <2>1. UploadKnows(d)'
    BY <1>4, <1>7, <1>8 DEF UploadKnows, Uploading, At, Fresh
  <2>2. AvatarKnows(d)'
    <3> SUFFICES ASSUME r.op = "upload_avatar" PROVE AvatarKnows(d)'
      BY <1>7 DEF AvatarKnows, OnAvatar
    <3>1. r.target \in Contacts /\ r.old = avatar[r.target]
      OBVIOUS
    <3>2. r.old # None => /\ r.old \in minted' /\ Fresh(r.old)
                          /\ \A c \in Contacts : avatar[c] = r.old => c = r.target
      BY <1>1, <1>5, <3>1 DEF TablesKnow
    <3> QED
      BY <1>4, <1>7, <3>1, <3>2 DEF AvatarKnows, At, Fresh
  <2>3. FileKnows(d)' /\ ProjectKnows(d)' /\ ChildKnows(d)'
    BY <1>7 DEF FileKnows, ProjectKnows, ChildKnows, OnFile, OnProject, At
  <2>4. DeskActs(d)'
    BY <1>7 DEF DeskActs
  <2>5. (desk[d].removed \intersect objects = {})'
    BY <1>7
  <2> QED
    BY <2>1, <2>2, <2>3, <2>4, <2>5 DEF DeskKnows
<1> QED
  BY <1>1, <1>2, <1>3, <1>4, <1>5, <1>6, <1>9, <1>10, DeskSteps DEF Go, Loses

LEMMA UploadFilePreserves ==
    ASSUME WorkspacesInv, NEW d \in Desks, NEW p \in Projects, upload_file(d, p)
    PROVE  WorkspacesInv'
<1> DEFINE r == [Request("put", "upload_file", p) EXCEPT !.key = NewKey]
<1>1. NewKey \in Keys \ minted
  BY NewKeyIsNew DEF upload_file
<1>2. r \in DeskType /\ r.phase = "put" /\ r.op = "upload_file" /\ r.target = p
      /\ r.key = NewKey /\ r.old = None /\ r.doomed = {} /\ r.removed = {}
  BY <1>1, IdleIsDesk, NoneIsNoRow DEF Request, Idle, DeskType, Phases, Ops
<1>3. /\ Begin(d) /\ Go(d, r) /\ minted' = minted \union {NewKey}
      /\ UNCHANGED <<rows, objects, unaudited, history>>
  BY DEF upload_file
<1> HIDE DEF r
<1> QED
  BY <1>1, <1>2, <1>3, UploadPreserves

LEMMA UploadAvatarPreserves ==
    ASSUME WorkspacesInv, NEW d \in Desks, NEW c \in Contacts, upload_avatar(d, c)
    PROVE  WorkspacesInv'
<1> DEFINE r == [Request("put", "upload_avatar", c) EXCEPT !.key = NewKey, !.old = avatar[c]]
<1>1. NewKey \in Keys \ minted /\ avatar[c] \in Keys \union {None}
  BY NewKeyIsNew DEF upload_avatar, WorkspacesInv, TypeOK
<1>2. r \in DeskType /\ r.phase = "put" /\ r.op = "upload_avatar" /\ r.target = c
      /\ r.key = NewKey /\ r.old = avatar[c] /\ r.doomed = {} /\ r.removed = {}
  BY <1>1, IdleIsDesk, NoneIsNoRow DEF Request, Idle, DeskType, Phases, Ops
<1>3. /\ Begin(d) /\ Go(d, r) /\ minted' = minted \union {NewKey}
      /\ UNCHANGED <<rows, objects, unaudited, history>>
  BY DEF upload_avatar
<1> HIDE DEF r
<1> QED
  BY <1>1, <1>2, <1>3, UploadPreserves
LEMMA DoomIsDesk ==
    ASSUME NEW d \in Desks, NEW q \in DeskType, NEW keys \in SUBSET Keys, q.op \in DOMAIN After,
           Doom(d, q, keys)
    PROVE  \E r \in DeskType :
              /\ Go(d, r) /\ r.op = q.op /\ r.target = q.target /\ r.key = q.key /\ r.old = q.old
              /\ r.removed = q.removed /\ r.doomed = keys /\ r.parent = q.parent
              /\ r.phase = IF keys = {} THEN After[q.op] ELSE "remove"
<1> DEFINE phase == IF keys = {} THEN After[q.op] ELSE "remove"
           r == [q EXCEPT !.doomed = keys, !.phase = phase]
<1>1. phase \in Phases
  BY DEF After, Phases
<1>2. Go(d, r)
  BY DEF Doom
<1>3. /\ r \in DeskType /\ r.op = q.op /\ r.target = q.target /\ r.key = q.key /\ r.old = q.old
      /\ r.removed = q.removed /\ r.doomed = keys /\ r.parent = q.parent /\ r.phase = phase
  <2> HIDE DEF phase
  <2> QED
    BY <1>1 DEF DeskType
<1> HIDE DEF r
<1> QED
  BY <1>2, <1>3

LEMMA DeleteFilePreserves ==
    ASSUME WorkspacesInv, NEW d \in Desks, NEW k \in Keys, delete_file(d, k)
    PROVE  WorkspacesInv'
<1> DEFINE q == Request("remove", "delete_file", k)
<1>1. /\ q \in DeskType /\ q.phase = "remove" /\ q.op = "delete_file" /\ q.target = k
      /\ q.key = None /\ q.old = None /\ q.doomed = {} /\ q.removed = {}
  BY RequestIsDesk, NoneIsNoRow DEF Phases, Ops
<1>2. /\ Begin(d) /\ There(k) /\ Doom(d, q, {k})
      /\ UNCHANGED <<rows, objects, minted, unaudited, history>>
  BY DEF delete_file
<1> HIDE DEF q
<1>3. PICK r \in DeskType :
        /\ Go(d, r) /\ r.op = "delete_file" /\ r.target = k /\ r.key = None /\ r.old = None
        /\ r.removed = {} /\ r.doomed = {k} /\ r.phase = "remove"
  <2>1. q.op \in DOMAIN After /\ {k} \in SUBSET Keys /\ {k} # {}
    BY <1>1 DEF After
  <2> QED
    BY <1>1, <1>2, <2>1, DoomIsDesk
<1>4. desk'[d] = r
  BY <1>3, DeskFields DEF Go, WorkspacesInv
<1>5. ~Fresh(k)' /\ row' = row
  BY <1>2 DEF Fresh, There, rows
<1>6. DeskKnows(d)'
  <2>1. FileKnows(d)'
    BY <1>3, <1>4, <1>5, NoneIsNoRow DEF FileKnows, At, Fresh
  <2>2. UploadKnows(d)' /\ ProjectKnows(d)' /\ AvatarKnows(d)' /\ ChildKnows(d)'
    BY <1>3, <1>4 DEF UploadKnows, Uploading, ProjectKnows, OnProject, AvatarKnows, OnAvatar,
                      ChildKnows
  <2>3. DeskActs(d)' /\ (desk[d].removed \intersect objects = {})'
    BY <1>3, <1>4 DEF DeskActs
  <2> QED
    BY <2>1, <2>2, <2>3 DEF DeskKnows
<1> QED
  BY <1>2, <1>3, <1>6, BeginSteps

\* The avatar as it is now is the one to remove.
LEMMA DeleteAvatarPreserves ==
    ASSUME WorkspacesInv, NEW d \in Desks, NEW c \in Contacts,
           delete_avatar(d, c) \/ delete_contact(d, c)
    PROVE  WorkspacesInv'
<1>1. PICK op \in {"delete_avatar", "delete_contact"} :
        /\ Doom(d, [Request("remove", op, c) EXCEPT !.old = avatar[c]], {avatar[c]} \ {None})
        /\ Begin(d) /\ UNCHANGED <<rows, objects, minted, unaudited, history>>
  BY DEF delete_avatar, delete_contact
<1>2. TypeOK /\ TablesKnow /\ avatar[c] \in Keys \union {None}
  BY DEF WorkspacesInv, TypeOK
<1> DEFINE q == [Request("remove", op, c) EXCEPT !.old = avatar[c]]
           keys == {avatar[c]} \ {None}
<1>3. /\ q \in DeskType /\ q.phase = "remove" /\ q.op = op /\ q.target = c
      /\ q.key = None /\ q.old = avatar[c] /\ q.doomed = {} /\ q.removed = {}
  BY <1>2, IdleIsDesk, NoneIsNoRow DEF Request, Idle, DeskType, Phases, Ops
<1>4. Doom(d, q, keys) /\ keys \in SUBSET Keys
  BY <1>1, <1>2
<1> HIDE DEF q
<1>5. PICK r \in DeskType :
        /\ Go(d, r) /\ r.op = op /\ r.target = c /\ r.key = None /\ r.old = avatar[c]
        /\ r.removed = {} /\ r.doomed = keys
        /\ r.phase = IF keys = {} THEN After[op] ELSE "remove"
  <2>1. q.op \in DOMAIN After
    BY <1>3 DEF After
  <2> QED
    BY <1>3, <1>4, <2>1, DoomIsDesk
<1>6. desk'[d] = r
  BY <1>2, <1>5, DeskFields DEF Go
<1>7. UNCHANGED <<row, avatar, minted>>
  BY <1>1 DEF rows
<1>8. \/ r.phase = "remove" /\ keys = {avatar[c]} /\ avatar[c] # None
      \/ /\ keys = {} /\ avatar[c] = None
         /\ r.phase = IF op = "delete_avatar" THEN "avatar" ELSE "delete"
  BY <1>5 DEF After
<1>9. DeskKnows(d)'
  <2>1. AvatarKnows(d)'
    <3>1. avatar[c] # None => /\ avatar[c] \in minted /\ Fresh(avatar[c])
                              /\ \A b \in Contacts : avatar[b] = avatar[c] => b = c
      BY <1>2 DEF TablesKnow
    <3>2. r.phase \in {"remove", "avatar", "delete"}
      BY <1>8
    <3> QED
      BY <1>5, <1>6, <1>7, <1>8, <3>1, <3>2 DEF AvatarKnows, At, Fresh
  <2>2. UploadKnows(d)' /\ ProjectKnows(d)' /\ FileKnows(d)' /\ ChildKnows(d)'
    BY <1>5, <1>6 DEF UploadKnows, Uploading, ProjectKnows, OnProject, FileKnows, OnFile, ChildKnows
  <2>3. DeskActs(d)' /\ (desk[d].removed \intersect objects = {})'
    BY <1>5, <1>6, <1>8 DEF DeskActs
  <2> QED
    BY <2>1, <2>2, <2>3 DEF DeskKnows
<1> QED
  BY <1>1, <1>5, <1>8, <1>9, BeginSteps

\* What is listed are the project's files.
LEMMA ListFilesPreserves ==
    ASSUME WorkspacesInv, NEW d \in Desks, ListFiles(d)
    PROVE  WorkspacesInv'
<1> DEFINE p == desk[d].target
           keys == FilesOf(p)
<1>1. /\ TypeOK /\ DeskActs(d) /\ Quiet(d) /\ At(d, "list") /\ desk[d].op = "delete_project"
      /\ p \in Projects /\ desk[d] \in DeskType
  BY DeskFields DEF WorkspacesInv, DeskKnows, DeskActs, ListFiles, At
<1>2. UNCHANGED <<row, avatar, linked, objects, requests, minted, unaudited, lost, last, crossed,
                  cut, excused>>
  BY DEF ListFiles, rows, history
<1>3. CASE ~There(p)
  <2>1. End(d) /\ unaudited' = unaudited - Owes(desk[d])
    <3>1. Owes(desk[d]) = 0 /\ unaudited \in Int
      BY <1>1 DEF Owes, At, TypeOK
    <3> QED
      BY <1>2, <1>3, <3>1 DEF ListFiles
  <2> QED
    BY <1>1, <1>2, <2>1, EndSteps
<1>4. CASE There(p)
  <2>1. Doom(d, desk[d], keys) /\ keys \in SUBSET Keys /\ desk[d].op \in DOMAIN After
    BY <1>1, <1>4 DEF ListFiles, FilesOf, After
  <2>2. PICK r \in DeskType :
          /\ Go(d, r) /\ r.op = "delete_project" /\ r.target = p /\ r.key = None /\ r.old = None
          /\ r.removed = {} /\ r.doomed = keys
          /\ r.phase = IF keys = {} THEN "delete" ELSE "remove"
    BY <1>1, <2>1, DoomIsDesk DEF After, Quiet
  <2>3. desk'[d] = r
    BY <1>1, <2>2, DeskFields DEF Go
  <2>4. DeskKnows(d)'
    <3>1. ProjectKnows(d)'
      <4>1. \A k \in keys : ~Fresh(k)' /\ (There(k)' => row'[k].parent = p)
        BY <1>2 DEF FilesOf, Fresh, There
      <4>2. FilesOf(p)' = keys
        BY <1>2, <2>3, <2>2 DEF FilesOf, There
      <4> HIDE DEF keys
      <4>3. (desk[d].doomed \union desk[d].removed)' = keys /\ FilesOf(r.target)' = keys
        BY <2>2, <2>3, <4>2
      <4> QED
        BY <1>1, <2>2, <2>3, <4>1, <4>3 DEF ProjectKnows, At, Fresh, There
    <3>2. UploadKnows(d)' /\ AvatarKnows(d)' /\ FileKnows(d)' /\ ChildKnows(d)'
      BY <2>2, <2>3 DEF UploadKnows, Uploading, AvatarKnows, OnAvatar, FileKnows, OnFile, ChildKnows
    <3>3. DeskActs(d)' /\ (desk[d].removed \intersect objects = {})'
      BY <2>2, <2>3 DEF DeskActs
    <3> QED
      BY <3>1, <3>2, <3>3 DEF DeskKnows
  <2>5. r.phase \notin {"refresh", "audit"}
        /\ desk[d].phase \notin {"refresh", "audit"} /\ r.key = desk[d].key /\ r.old = desk[d].old
        /\ desk[d].removed \subseteq r.removed
    BY <1>1, <2>2 DEF Quiet, At
  <2> QED
    BY <1>2, <2>2, <2>4, <2>5, GoSteps
<1> QED
  BY <1>3, <1>4

LEMMA PhaseIsDesk ==
    ASSUME NEW q \in DeskType, NEW phase \in Phases
    PROVE  LET r == [q EXCEPT !.phase = phase]
           IN /\ r \in DeskType /\ r.phase = phase /\ r.op = q.op /\ r.target = q.target
              /\ r.key = q.key /\ r.old = q.old /\ r.doomed = q.doomed /\ r.removed = q.removed
BY DEF DeskType

LEMMA SelectProjectPreserves ==
    ASSUME WorkspacesInv, NEW d \in Desks, SelectProject(d)
    PROVE  WorkspacesInv'
<1>1. /\ TypeOK /\ DeskKnows(d) /\ At(d, "select") /\ desk[d].op = "upload_file"
      /\ desk[d] \in DeskType
  BY DeskFields DEF WorkspacesInv, DeskKnows, DeskActs, SelectProject, At
<1>2. UNCHANGED <<row, avatar, linked, objects, requests, minted, unaudited, lost, last, crossed>>
  BY DEF SelectProject, rows
<1>3. CASE ~There(desk[d].target)
  <2>1. Owes(desk[d]) = 0 /\ unaudited \in Int /\ Len(lost) \in Nat
    BY <1>1 DEF Owes, At, TypeOK
  <2>2. unaudited' - Len(lost') = unaudited - Len(lost) - Owes(desk[d])
    BY <1>2, <2>1
  <2> QED
    BY <1>2, <1>3, <2>1, <2>2, FailSteps DEF SelectProject, Loses
<1>4. CASE There(desk[d].target)
  <2> DEFINE r == [desk[d] EXCEPT !.phase = "insert_file"]
  <2>1. /\ r \in DeskType /\ r.phase = "insert_file" /\ r.op = "upload_file"
        /\ r.target = desk[d].target /\ r.key = desk[d].key /\ r.old = desk[d].old
        /\ r.doomed = desk[d].doomed /\ r.removed = desk[d].removed
    <3>1. "insert_file" \in Phases
      BY DEF Phases
    <3> QED
      BY <1>1, <3>1, PhaseIsDesk
  <2>2. Go(d, r) /\ UNCHANGED <<cut, excused>>
    BY <1>4 DEF SelectProject, Next_phase
  <2> HIDE DEF r
  <2>3. desk'[d] = r
    BY <1>1, <2>2, DeskFields DEF Go
  <2>4. DeskKnows(d)'
    <3>1. UploadKnows(d)'
      BY <1>1, <1>2, <2>1, <2>3 DEF DeskKnows, UploadKnows, Uploading, At, Fresh
    <3>2. AvatarKnows(d)' /\ FileKnows(d)' /\ ProjectKnows(d)' /\ ChildKnows(d)'
      BY <2>1, <2>3 DEF AvatarKnows, OnAvatar, FileKnows, OnFile, ProjectKnows, OnProject, ChildKnows
    <3>3. DeskActs(d)' /\ (desk[d].removed \intersect objects = {})'
      BY <1>1, <1>2, <2>1, <2>3 DEF DeskActs, DeskKnows
    <3> QED
      BY <3>1, <3>2, <3>3 DEF DeskKnows
  <2>5. r.phase \notin {"refresh", "audit"}
        /\ desk[d].phase \notin {"refresh", "audit"} /\ desk[d].removed \subseteq r.removed
    BY <1>1, <2>1 DEF At
  <2> QED
    BY <1>2, <2>1, <2>2, <2>4, <2>5, GoSteps
<1> QED
  BY <1>3, <1>4
\* The second look at the row: a file goes on to be deleted, an avatar has its
\* predecessor removed.
LEMMA ReselectPreserves ==
    ASSUME WorkspacesInv, NEW d \in Desks, Reselect(d)
    PROVE  WorkspacesInv'
<1>1. /\ TypeOK /\ DeskKnows(d) /\ At(d, "reselect") /\ desk[d].op \in {"delete_file", "upload_avatar"}
      /\ desk[d] \in DeskType /\ desk[d].old \in Keys \union {None}
  BY DeskFields DEF WorkspacesInv, DeskKnows, DeskActs, Reselect, At
<1>2. UNCHANGED <<row, avatar, linked, objects, requests, minted, unaudited, lost, last, crossed>>
  BY DEF Reselect, rows
<1>3. CASE ~There(desk[d].target)
  <2>1. Owes(desk[d]) = 0 /\ unaudited \in Int /\ Len(lost) \in Nat
    BY <1>1 DEF Owes, At, TypeOK
  <2>2. unaudited' - Len(lost') = unaudited - Len(lost) - Owes(desk[d])
    BY <1>2, <2>1
  <2> QED
    BY <1>2, <1>3, <2>1, <2>2, FailSteps DEF Reselect, Loses
<1>4. CASE There(desk[d].target) /\ desk[d].op = "delete_file"
  <2> DEFINE r == [desk[d] EXCEPT !.phase = "delete"]
  <2>1. /\ r \in DeskType /\ r.phase = "delete" /\ r.op = "delete_file"
        /\ r.target = desk[d].target /\ r.key = desk[d].key /\ r.old = desk[d].old
        /\ r.doomed = desk[d].doomed /\ r.removed = desk[d].removed
    <3>1. "delete" \in Phases
      BY DEF Phases
    <3> QED
      BY <1>1, <1>4, <3>1, PhaseIsDesk
  <2>2. Go(d, r) /\ UNCHANGED <<cut, excused>>
    BY <1>4 DEF Reselect, Next_phase
  <2> HIDE DEF r
  <2>3. desk'[d] = r
    BY <1>1, <2>2, DeskFields DEF Go
  <2>4. DeskKnows(d)'
    <3>1. FileKnows(d)'
      BY <1>1, <1>2, <1>4, <2>1, <2>3 DEF DeskKnows, FileKnows, OnFile, At, Fresh
    <3>2. UploadKnows(d)'
      BY <1>1, <1>4, <2>1, <2>3 DEF DeskKnows, UploadKnows, Uploading
    <3>3. AvatarKnows(d)' /\ ProjectKnows(d)' /\ ChildKnows(d)'
      BY <2>1, <2>3 DEF AvatarKnows, OnAvatar, ProjectKnows, OnProject, ChildKnows
    <3>4. DeskActs(d)' /\ (desk[d].removed \intersect objects = {})'
      BY <1>1, <1>2, <2>1, <2>3 DEF DeskActs, DeskKnows
    <3> QED
      BY <3>1, <3>2, <3>3, <3>4 DEF DeskKnows
  <2>5. r.phase \notin {"refresh", "audit"}
        /\ desk[d].phase \notin {"refresh", "audit"} /\ desk[d].removed \subseteq r.removed
    BY <1>1, <2>1 DEF At
  <2> QED
    BY <1>2, <2>1, <2>2, <2>4, <2>5, GoSteps
<1>5. CASE There(desk[d].target) /\ desk[d].op = "upload_avatar"
  <2> DEFINE old == desk[d].old
             keys == {old} \ {None}
  <2>1. /\ desk[d].target \in Contacts
        /\ old # None => /\ old \in minted /\ Fresh(old)
                         /\ \A c \in Contacts : avatar[c] = old => c = desk[d].target
        /\ avatar[desk[d].target] \in {old, None} \union excused
        /\ desk[d].removed = {}
    BY <1>1, <1>5 DEF DeskKnows, AvatarKnows, OnAvatar, At
  <2>2. /\ Doom(d, desk[d], keys) /\ keys \in SUBSET Keys /\ desk[d].op \in DOMAIN After
        /\ UNCHANGED <<cut, excused>>
    BY <1>1, <1>5 DEF Reselect, After
  <2>3. PICK r \in DeskType :
          /\ Go(d, r) /\ r.op = "upload_avatar" /\ r.target = desk[d].target
          /\ r.key = desk[d].key /\ r.old = old /\ r.removed = {} /\ r.doomed = keys
          /\ r.phase = IF keys = {} THEN "avatar" ELSE "remove"
    BY <1>1, <1>5, <2>1, <2>2, DoomIsDesk DEF After
  <2>4. desk'[d] = r
    BY <1>1, <2>3, DeskFields DEF Go
  <2>5. \/ r.phase = "remove" /\ keys = {old} /\ old # None
        \/ r.phase = "avatar" /\ keys = {} /\ old = None
    BY <2>3
  <2>6. DeskKnows(d)'
    <3>1. AvatarKnows(d)'
      BY <1>2, <2>1, <2>2, <2>3, <2>4, <2>5 DEF AvatarKnows, At, Fresh
    <3>2. UploadKnows(d)'
      <4>1. /\ desk[d].key \in minted /\ Fresh(desk[d].key)
            /\ \A c \in Contacts : avatar[c] # desk[d].key
            /\ desk[d].key \in objects
        BY <1>1, <1>5 DEF DeskKnows, UploadKnows, Uploading, At
      <4> QED
        BY <1>2, <2>3, <2>4, <2>5, <4>1 DEF UploadKnows, Uploading, At, Fresh
    <3>3. FileKnows(d)' /\ ProjectKnows(d)' /\ ChildKnows(d)'
      BY <2>3, <2>4 DEF FileKnows, OnFile, ProjectKnows, OnProject, ChildKnows
    <3>4. DeskActs(d)' /\ (desk[d].removed \intersect objects = {})'
      BY <2>3, <2>4, <2>5 DEF DeskActs
    <3> QED
      BY <3>1, <3>2, <3>3, <3>4 DEF DeskKnows
  <2>7. r.phase \notin {"refresh", "audit"}
        /\ desk[d].phase \notin {"refresh", "audit"} /\ desk[d].removed \subseteq r.removed
    BY <1>1, <2>1, <2>5 DEF At
  <2> QED
    BY <1>2, <2>2, <2>3, <2>6, <2>7, GoSteps
<1> QED
  BY <1>1, <1>3, <1>4, <1>5

LEMMA StoreFailsPreserves ==
    ASSUME WorkspacesInv, NEW d \in Desks, StoreFails(d)
    PROVE  WorkspacesInv'
<1>1. UNCHANGED <<row, avatar, linked, objects, requests, minted, unaudited, lost, last, crossed>>
  BY DEF StoreFails, rows
<1>2. Owes(desk[d]) = 0 /\ unaudited \in Int /\ Len(lost) \in Nat
  BY DEF StoreFails, Owes, WorkspacesInv, TypeOK
<1>3. unaudited' - Len(lost') = unaudited - Len(lost) - Owes(desk[d])
  BY <1>1, <1>2
<1> QED
  BY <1>1, <1>2, <1>3, FailSteps DEF StoreFails, Loses

LEMMA WriteAuditPreserves ==
    ASSUME WorkspacesInv, NEW d \in Desks, WriteAudit(d)
    PROVE  WorkspacesInv'
<1>1. UNCHANGED <<row, avatar, linked, objects, requests, minted, last, crossed, lost, cut, excused>>
  BY DEF WriteAudit, rows, history
<1>2. Owes(desk[d]) = 1 /\ Quiet(d)
  BY DEF WriteAudit, Owes, At, WorkspacesInv, DeskKnows, DeskActs
<1> QED
  BY <1>1, <1>2, EndSteps DEF WriteAudit

LEMMA VanishPreserves ==
    ASSUME WorkspacesInv, NEW d \in Desks, Vanish(d)
    PROVE  WorkspacesInv'
<1>1. UNCHANGED <<row, avatar, linked, objects, requests, minted, last, crossed>>
  BY DEF Vanish, rows
<1>2. unaudited' = unaudited /\ unaudited \in Int /\ lost \in Seq(MayVanish \union Entities)
  BY DEF Vanish, WorkspacesInv, TypeOK
<1>3. Loses /\ Len(lost') = Len(lost) + Owes(desk[d])
  BY <1>2 DEF Vanish, Loses, Owes, Owing
<1>4. unaudited' - Len(lost') = unaudited - Len(lost) - Owes(desk[d])
  <2>1. Owes(desk[d]) \in Nat /\ Len(lost) \in Nat
    BY <1>2 DEF Owes
  <2> QED
    BY <1>2, <1>3, <2>1
<1> QED
  BY <1>1, <1>2, <1>3, <1>4, FailSteps DEF Vanish

\* A row that is still there has its entry written next; one that another request
\* has deleted ends the request.
LEMMA RefreshPreserves ==
    ASSUME WorkspacesInv, NEW d \in Desks, Refresh(d)
    PROVE  WorkspacesInv'
<1> DEFINE t == desk[d].target
<1>1. /\ TypeOK /\ KeysApart /\ Quiet(d) /\ desk[d].phase = "refresh" /\ desk[d] \in DeskType
      /\ t \in Entities /\ ~Fresh(t)
  BY DeskFields DEF WorkspacesInv, DeskKnows, DeskActs, RefreshKnows, Refresh, At
<1>2. UNCHANGED <<row, avatar, linked, objects, requests, minted, unaudited, last, crossed, cut,
                  excused>>
  BY DEF Refresh, rows
<1>3. /\ unaudited \in Int /\ lost \in Seq(MayVanish \union Entities) /\ Owes(desk[d]) = 1
      /\ Len(lost) \in Nat
  BY <1>1 DEF TypeOK, Owes
<1>4. CASE There(t)
  <2> DEFINE r == [desk[d] EXCEPT !.phase = "audit"]
  <2>1. /\ r \in DeskType /\ r.phase = "audit" /\ r.key = desk[d].key /\ r.old = desk[d].old
        /\ r.doomed = desk[d].doomed /\ r.removed = desk[d].removed
    <3>1. "audit" \in Phases
      BY DEF Phases
    <3> QED
      BY <1>1, <3>1, PhaseIsDesk
  <2>2. Go(d, r) /\ lost' = lost
    BY <1>4 DEF Refresh, Next_phase
  <2> HIDE DEF r
  <2>3. desk'[d] = r /\ desk' = [desk EXCEPT ![d] = r]
    BY <1>1, <2>2, DeskFields DEF Go
  <2>4. DeskActs(d)' /\ Quiet(d)'
    BY <1>1, <2>1, <2>3 DEF DeskActs, Quiet
  <2>5. DeskKnows(d)'
    BY <2>1, <2>3, <2>4, QuietKnows
  <2>6. Owes(r) = 1 /\ Loses /\ requests' \in 0 .. MaxRequests
        /\ minted' \subseteq Keys /\ cut' \subseteq Keys /\ excused' \subseteq Keys
    BY <1>1, <1>2, <2>1, <2>2 DEF Owes, Loses, TypeOK
  <2> QED
    BY <1>1, <1>2, <1>3, <2>1, <2>2, <2>3, <2>5, <2>6, DeskSteps DEF Quiet
<1>5. CASE ~There(t)
  <2>1. End(d) /\ lost' = Append(lost, t)
    BY <1>5 DEF Refresh
  <2>2. row[t].state = "gone"
    BY <1>1, <1>5 DEF TypeOK, Row, There, Fresh
  <2>3. Loses /\ Len(lost') = Len(lost) + 1
    BY <1>1, <1>3, <2>1, <2>2 DEF Loses
  <2>4. unaudited' - Len(lost') = unaudited - Len(lost) - Owes(desk[d])
    BY <1>2, <1>3, <2>3
  <2>5. Fail(d)
    BY <1>1, <1>2, <2>1 DEF Fail, Quiet
  <2> QED
    BY <1>2, <1>3, <2>3, <2>4, <2>5, FailSteps
<1> QED
  BY <1>4, <1>5
-----------------------------------------------------------------------------
(* Steps that write rows or objects                                        *)

TablesOK ==
    /\ row \in [Entities -> Row]
    /\ \A x \in Children \union Keys : There(x) => row[x].parent \in Projects /\ There(row[x].parent)
    /\ avatar \in [Contacts -> Keys \union {None}]
    /\ linked \subseteq {link \in Contacts \X Projects : There(link[1]) /\ There(link[2])}
    /\ objects \subseteq minted /\ minted \subseteq Keys
    /\ last \in [Patchable -> [Columns -> Values]]
    /\ crossed \subseteq Patchable \X Columns
    /\ cut \subseteq Keys /\ excused \subseteq Keys

LEMMA DanglingSteps ==
    ASSUME NoDangling, NEW d \in Desks, \A e \in Desks : e # d => desk'[e] = desk[e],
           objects \subseteq objects' \union desk'[d].removed, cut \subseteq cut',
           \A k \in Referenced' : k \in Referenced \union objects',
           \A k \in desk[d].removed : k \in desk'[d].removed \/ k \notin Referenced'
    PROVE  NoDangling'
<1> SUFFICES ASSUME NEW k \in Referenced'
             PROVE  k \in objects' \/ k \in cut' \/ \E e \in Desks : k \in desk'[e].removed
  BY DEF NoDangling, download
<1>1. CASE k \in objects'
  BY <1>1
<1>2. CASE k \in Referenced /\ k \notin objects'
  <2>1. k \in objects \/ k \in cut \/ \E e \in Desks : k \in desk[e].removed
    BY <1>2 DEF NoDangling, download
  <2> QED
    BY <1>2, <2>1
<1> QED
  BY <1>1, <1>2

LEMMA StraySteps ==
    ASSUME NoStrayObject, NEW d \in Desks, \A e \in Desks : e # d => desk'[e] = desk[e],
           excused \subseteq excused', None \notin objects',
           \A k \in objects' \ Referenced' :
              k \in objects \ Referenced \/ k \in excused' \/ k = desk'[d].key,
           desk[d].key \in {None, desk'[d].key} \union excused' \union Referenced'
    PROVE  NoStrayObject'
<1> SUFFICES ASSUME NEW k \in objects', k \notin Referenced'
             PROVE  k \in excused' \/ \E e \in Desks : desk'[e].key = k
  BY DEF NoStrayObject
<1>1. CASE k \in excused' \/ k = desk'[d].key
  BY <1>1
<1>2. CASE k \in objects \ Referenced
  <2>1. k \in excused \/ \E e \in Desks : desk[e].key = k
    BY <1>2 DEF NoStrayObject
  <2> QED
    BY <2>1
<1> QED
  BY <1>1, <1>2

LEMMA TableSteps ==
    ASSUME WorkspacesInv, NEW d \in Desks, NEW r \in DeskType, Go(d, r),
           Moves(d), TablesOK', TablesKnow', NoDangling', NoStrayObject', PatchesKept', RowsStay,
           r.phase = "refresh" => r.target \in Entities /\ ~Fresh(r.target)',
           DeskKnows(d)', requests' \in 0 .. MaxRequests, lost' = lost,
           unaudited' = unaudited + Owes(r), Owes(desk[d]) = 0,
           r.key \in {None, desk[d].key}, r.old \in {None, desk[d].old},
           r.key # None => r.key # r.old
    PROVE  WorkspacesInv'
<1>1. /\ TypeOK /\ (\A e \in Desks : DeskKnows(e)) /\ MutationsAudited
  BY DEF WorkspacesInv
<1>2. /\ desk' = [desk EXCEPT ![d] = r] /\ desk'[d] = r /\ desk' \in [Desks -> DeskType]
      /\ \A e \in Desks : e # d => desk'[e] = desk[e]
  BY <1>1, DeskFields DEF Go
<1>3. \A e \in Desks : DeskKnows(e)'
  BY <1>2, OthersKnow
<1>4. KeysApart'
  BY <1>2, KeysStayApart
<1>5. MutationsAudited' /\ unaudited' \in Nat /\ lost' \in Seq(MayVanish \union Entities)
  <2>1. Owes(r) \in Nat /\ unaudited \in Nat /\ Len(lost) \in Nat
    BY <1>1 DEF Owes, TypeOK
  <2>2. unaudited' \in Int /\ Loses
        /\ unaudited' - Len(lost') - Owes(r) = unaudited - Len(lost) - Owes(desk[d])
    BY <2>1 DEF Loses
  <2> QED
    BY <1>1, <1>2, <2>2, AuditsAreCounted DEF Settles
<1>7. RefreshKnows'
  <2>1. At(d, "refresh")' => desk'[d].target \in Entities /\ row'[desk'[d].target].state # "none"
    BY <1>2 DEF At, Fresh
  <2> QED
    BY <1>2, <2>1, RefreshStays DEF WorkspacesInv
<1>6. TypeOK'
  BY <1>1, <1>2, <1>5 DEF TypeOK, TablesOK
<1> QED
  BY <1>3, <1>4, <1>5, <1>6, <1>7 DEF WorkspacesInv

\* A mutation is committed: what is left is its row to read again and its entry to
\* write.
LEMMA CommitSteps ==
    ASSUME WorkspacesInv, NEW d \in Desks, NEW op \in Ops \union {None}, NEW e \in Entities,
           NEW phase \in {"refresh", "audit"}, Go(d, Request(phase, op, e)), RowsStay,
           phase = "refresh" => row'[e].state # "none",
           desk[d].phase \notin {"refresh", "audit"},
           Moves(d), TablesOK', TablesKnow', NoDangling', NoStrayObject', PatchesKept',
           requests' \in 0 .. MaxRequests, lost' = lost, unaudited' = unaudited + 1
    PROVE  WorkspacesInv'
<1> DEFINE r == Request(phase, op, e)
<1>1. /\ r \in DeskType /\ r.phase = phase /\ r.target = e /\ r.key = None /\ r.old = None
      /\ r.doomed = {} /\ r.removed = {}
  BY RequestIsDesk DEF Phases
<1>2. Go(d, r)
  OBVIOUS
<1> HIDE DEF r
<1>3. desk'[d] = r
  BY <1>2, DeskFields DEF Go, WorkspacesInv
<1>4. DeskActs(d)' /\ Quiet(d)'
  BY <1>1, <1>3 DEF DeskActs, Quiet
<1>5. DeskKnows(d)'
  BY <1>1, <1>3, <1>4, QuietKnows
<1>6. Owes(r) = 1 /\ Owes(desk[d]) = 0
  BY <1>1 DEF Owes
<1>7. r.phase = "refresh" => r.target \in Entities /\ ~Fresh(r.target)'
  BY <1>1 DEF Fresh
<1> QED
  BY <1>1, <1>2, <1>5, <1>6, <1>7, TableSteps

\* A commit that touches neither keys, avatars nor objects.
LEMMA RowSteps ==
    ASSUME WorkspacesInv, NEW d \in Desks, NEW op \in Ops \union {None}, NEW e \in Entities,
           NEW phase \in {"refresh", "audit"}, Go(d, Request(phase, op, e)), RowsStay,
           phase = "refresh" => row'[e].state # "none",
           desk[d].phase \notin {"refresh", "audit"},
           desk[d].key = None, desk[d].removed = {},
           row' \in [Entities -> Row], \A k \in Keys : row'[k] = row[k],
           \A x \in Projects \union Contacts : row'[x].parent = row[x].parent /\ (There(x) => There(x)'),
           \A x \in Children : (There(x) => row[x].parent \in Projects /\ There(row[x].parent))',
           (linked \subseteq {link \in Contacts \X Projects : There(link[1]) /\ There(link[2])})',
           last' \in [Patchable -> [Columns -> Values]], crossed' \subseteq Patchable \X Columns,
           PatchesKept',
           UNCHANGED <<avatar, objects, minted, lost, cut, excused>>,
           requests' \in 0 .. MaxRequests, unaudited' = unaudited + 1
    PROVE  WorkspacesInv'
<1>1. TypeOK /\ TablesKnow /\ NoDangling /\ NoStrayObject
  BY DEF WorkspacesInv
<1>2. \A k \in Keys : (There(k)' <=> There(k)) /\ (Fresh(k)' <=> Fresh(k))
  BY DEF There, Fresh
<1>3. Moves(d)
  BY <1>2 DEF Moves
<1>4. TablesOK'
  <2>1. \A k \in Keys : (There(k) => row[k].parent \in Projects /\ There(row[k].parent))'
    <3> SUFFICES ASSUME NEW k \in Keys, There(k)'
                 PROVE  row'[k].parent \in Projects /\ There(row[k].parent)'
      OBVIOUS
    <3>1. row[k].parent \in Projects /\ There(row[k].parent) /\ row'[k].parent = row[k].parent
      BY <1>1, <1>2 DEF TypeOK
    <3> QED
      BY <3>1 DEF There
  <2>2. \A x \in Children \union Keys :
           (There(x) => row[x].parent \in Projects /\ There(row[x].parent))'
    BY <2>1
  <2>3. /\ avatar' \in [Contacts -> Keys \union {None}] /\ objects' \subseteq minted'
        /\ minted' \subseteq Keys /\ cut' \subseteq Keys /\ excused' \subseteq Keys
    BY <1>1 DEF TypeOK
  <2> QED
    BY <2>2, <2>3 DEF TablesOK
<1>5. TablesKnow'
  BY <1>1, <1>2 DEF TablesKnow, Fresh, TypeOK
<1>6. Referenced' = Referenced
  BY <1>2 DEF Referenced
<1>7. \A f \in Desks : f # d => desk'[f] = desk[f]
  BY <1>1, DeskFields DEF Go
<1>8. None \notin objects'
  BY <1>1, NoneIsNoRow DEF TypeOK
<1>9. NoDangling' /\ NoStrayObject'
  BY <1>1, <1>6, <1>7, <1>8, DanglingSteps, StraySteps
<1> QED
  BY <1>3, <1>4, <1>5, <1>9, CommitSteps
LEMMA StateIsRow ==
    ASSUME NEW q \in Row
    PROVE  [q EXCEPT !.state = "there"] \in Row
BY DEF Row

LEMMA InsertPreserves ==
    ASSUME WorkspacesInv, NEW d \in Desks, NEW e \in Projects \union Contacts, Insert(d, e)
    PROVE  WorkspacesInv'
<1>1. TypeOK /\ PatchesKept /\ desk[d] = Idle
  BY DEF WorkspacesInv, DeskKnows, DeskActs, Insert, Begin, Busy, At
<1>2. /\ Go(d, Request("refresh", "create", e)) /\ unaudited' = unaudited + 1
      /\ row' = [row EXCEPT ![e].state = "there"]
      /\ UNCHANGED <<avatar, linked, objects, minted, lost, last, crossed, cut, excused>>
  BY DEF Insert, Committed, Reread, history
<1>3. e \in Entities /\ e \notin Keys /\ e \notin Children /\ "create" \in Ops
  BY NoneIsNoRow, TablesAssumption DEF Ops
<1>4. row' \in [Entities -> Row]
  <2>1. row[e] \in Row
    BY <1>1, <1>3 DEF TypeOK
  <2>2. row' = [row EXCEPT ![e] = [row[e] EXCEPT !.state = "there"]]
    BY <1>2
  <2> QED
    BY <1>1, <1>3, <2>1, <2>2, StateIsRow DEF TypeOK
<1>5. /\ \A x \in Entities : x # e => row'[x] = row[x]
      /\ row'[e].state = "there" /\ row'[e].parent = row[e].parent /\ row'[e].value = row[e].value
  BY <1>1, <1>2, <1>3 DEF TypeOK, Row
<1>6. \A x \in Entities : There(x) => There(x)'
  BY <1>5 DEF There
<1>7. \A k \in Keys : row'[k] = row[k]
  BY <1>3, <1>5, NoneIsNoRow
<1>8. \A x \in Projects \union Contacts : row'[x].parent = row[x].parent /\ (There(x) => There(x)')
  BY <1>5, <1>6, NoneIsNoRow
<1>9. \A x \in Children : (There(x) => row[x].parent \in Projects /\ There(row[x].parent))'
  <2> SUFFICES ASSUME NEW x \in Children, There(x)'
               PROVE  row'[x].parent \in Projects /\ There(row[x].parent)'
    OBVIOUS
  <2>1. row'[x] = row[x] /\ There(x)
    BY <1>3, <1>5, NoneIsNoRow DEF There
  <2>2. row[x].parent \in Projects /\ There(row[x].parent)
    BY <1>1, <2>1 DEF TypeOK
  <2> QED
    BY <1>8, <2>1, <2>2 DEF There
<1>10. (linked \subseteq {link \in Contacts \X Projects : There(link[1]) /\ There(link[2])})'
  BY <1>1, <1>2, <1>8 DEF TypeOK
<1>11. /\ last' \in [Patchable -> [Columns -> Values]] /\ crossed' \subseteq Patchable \X Columns
       /\ requests' \in 0 .. MaxRequests
  BY <1>1, <1>2, WorkspacesAssumption DEF TypeOK, Insert, Begin
<1>12. PatchesKept'
  BY <1>1, <1>2, <1>5, NoneIsNoRow DEF PatchesKept
<1>14. RowsStay /\ row'[e].state # "none"
  BY <1>5, NoneIsNoRow DEF RowsStay, Fresh, Insert
<1>13. desk[d].phase \notin {"refresh", "audit"} /\ desk[d].key = None /\ desk[d].removed = {}
  BY <1>1, IdleIsDesk
<1> QED
  BY <1>2, <1>3, <1>4, <1>7, <1>8, <1>9, <1>10, <1>11, <1>12, <1>13, <1>14, RowSteps

LEMMA InsertChildPreserves ==
    ASSUME WorkspacesInv, NEW d \in Desks, InsertChild(d)
    PROVE  WorkspacesInv'
<1> DEFINE x == desk[d].target
           p == desk[d].parent
<1>1. /\ TypeOK /\ PatchesKept /\ Quiet(d) /\ desk[d].phase = "insert" /\ x \in Children
      /\ p \in Projects /\ desk[d].op \in Ops \union {None}
  BY DeskFields DEF WorkspacesInv, DeskKnows, DeskActs, InsertChild, At
<1>2. UNCHANGED <<avatar, linked, objects, minted, requests, lost, last, crossed, cut, excused>>
  BY DEF InsertChild, history
<1>3. CASE ~(There(p) /\ Fresh(x))
  <2>1. End(d) /\ UNCHANGED <<row, unaudited>>
    BY <1>3 DEF InsertChild
  <2>2. unaudited' = unaudited - Owes(desk[d])
    BY <1>1, <2>1 DEF Owes, TypeOK
  <2> QED
    BY <1>1, <1>2, <2>1, <2>2, EndSteps
<1>4. CASE There(p) /\ Fresh(x)
  <2>1. /\ row' = [row EXCEPT ![x].state = "there", ![x].parent = p]
        /\ Go(d, Request("refresh", "create", x)) /\ unaudited' = unaudited + 1
    BY <1>4 DEF InsertChild, Committed, Reread
  <2>2. x \in Entities /\ p \in Entities /\ x \notin Keys /\ x \notin Projects /\ x \notin Contacts
        /\ x # p
    BY <1>1, NoneIsNoRow, TablesAssumption
  <2> HIDE DEF x, p
  <2>3. row' \in [Entities -> Row]
    <3>1. [row[x] EXCEPT !.state = "there", !.parent = p] \in Row
      BY <1>1, <2>2 DEF TypeOK, Row
    <3>2. row' = [row EXCEPT ![x] = [row[x] EXCEPT !.state = "there", !.parent = p]]
      BY <1>1, <2>1, <2>2 DEF TypeOK, Row
    <3> QED
      BY <1>1, <2>2, <3>1, <3>2 DEF TypeOK
  <2>4. /\ \A y \in Entities : y # x => row'[y] = row[y]
        /\ row'[x].state = "there" /\ row'[x].parent = p /\ row'[x].value = row[x].value
    BY <1>1, <2>1, <2>2 DEF TypeOK, Row
  <2>5. \A k \in Keys : row'[k] = row[k]
    BY <2>2, <2>4, NoneIsNoRow
  <2>6. \A y \in Projects \union Contacts : row'[y].parent = row[y].parent /\ (There(y) => There(y)')
    BY <2>2, <2>4, NoneIsNoRow DEF There
  <2>7. \A y \in Children : (There(y) => row[y].parent \in Projects /\ There(row[y].parent))'
    <3> SUFFICES ASSUME NEW y \in Children, There(y)'
                 PROVE  row'[y].parent \in Projects /\ There(row[y].parent)'
      OBVIOUS
    <3>1. CASE y = x
      BY <1>1, <1>4, <2>4, <2>6, <3>1 DEF There
    <3>2. CASE y # x
      <4>1. row'[y] = row[y] /\ There(y)
        BY <2>4, <3>2, NoneIsNoRow DEF There
      <4>2. row[y].parent \in Projects /\ There(row[y].parent)
        BY <1>1, <4>1 DEF TypeOK
      <4> QED
        BY <2>6, <4>1, <4>2 DEF There
    <3> QED
      BY <3>1, <3>2
  <2>8. (linked \subseteq {link \in Contacts \X Projects : There(link[1]) /\ There(link[2])})'
    BY <1>1, <1>2, <2>6 DEF TypeOK
  <2>9. /\ last' \in [Patchable -> [Columns -> Values]] /\ crossed' \subseteq Patchable \X Columns
        /\ requests' \in 0 .. MaxRequests
    BY <1>1, <1>2 DEF TypeOK
  <2>10. PatchesKept'
    BY <1>1, <1>2, <2>4, NoneIsNoRow DEF PatchesKept
  <2>11. RowsStay /\ row'[x].state # "none" /\ "create" \in Ops
    BY <1>4, <2>4 DEF RowsStay, Fresh, Ops
  <2> QED
    BY <1>1, <1>2, <2>1, <2>2, <2>3, <2>5, <2>6, <2>7, <2>8, <2>9, <2>10, <2>11, RowSteps DEF Quiet
<1> QED
  BY <1>3, <1>4
\* The columns a PATCH names end as it wanted them, or had changed after it read
\* the row; the others stay.
LEMMA CommitPatchPreserves ==
    ASSUME WorkspacesInv, NEW d \in Desks, CommitPatch(d)
    PROVE  WorkspacesInv'
<1> DEFINE e == desk[d].target
           wish == desk[d].wish
           seen == desk[d].seen
<1>1. /\ TypeOK /\ TablesKnow /\ PatchesKept /\ Quiet(d) /\ desk[d].phase = "patch" /\ e \in Patchable
      /\ wish \in Wishes /\ desk[d].op \in Ops \union {None}
  BY DeskFields DEF WorkspacesInv, DeskKnows, DeskActs, CommitPatch, At
<1>2. UNCHANGED <<avatar, linked, objects, minted, requests, lost, cut, excused>>
  BY DEF CommitPatch
<1>3. CASE ~There(e)
  <2>1. End(d) /\ UNCHANGED <<row, unaudited, last, crossed>>
    BY <1>3 DEF CommitPatch
  <2>2. unaudited' = unaudited - Owes(desk[d])
    BY <1>1, <2>1 DEF Owes, TypeOK
  <2> QED
    BY <1>1, <1>2, <2>1, <2>2, EndSteps
<1>4. CASE There(e)
  <2> DEFINE value == [c \in Columns |->
                 IF c \in Named(d) /\ wish[c] # seen[c] THEN wish[c] ELSE row[e].value[c]]
             wanted == [c \in Columns |-> IF c \in Named(d) THEN wish[c] ELSE last[e][c]]
             met == {<<e, c>> : c \in {n \in Named(d) : row[e].value[n] # seen[n]}}
  <2>1. /\ row' = [row EXCEPT ![e].value = value] /\ last' = [last EXCEPT ![e] = wanted]
        /\ crossed' = crossed \union met
        /\ Go(d, Request("refresh", "patch", e)) /\ unaudited' = unaudited + 1
    BY <1>4 DEF CommitPatch, Committed, Reread
  <2>2. e \in Entities /\ e \notin Keys
    BY <1>1, NoneIsNoRow, TablesAssumption DEF Patchable, Children
  <2>3. \A c \in Named(d) : c \in Columns /\ wish[c] \in Values
    BY <1>1 DEF Named, Wishes
  <2>4. row[e] \in Row /\ row[e].value \in [Columns -> Values] /\ last[e] \in [Columns -> Values]
    BY <1>1, <2>2 DEF TypeOK, Row
  <2>5. value \in [Columns -> Values] /\ wanted \in [Columns -> Values]
    BY <2>3, <2>4
  <2>6. met \subseteq Patchable \X Columns
    BY <1>1, <2>3
  <2>7. \A c \in Columns : value[c] # wanted[c] =>
           <<e, c>> \in met \/ (value[c] = row[e].value[c] /\ wanted[c] = last[e][c])
    <3> SUFFICES ASSUME NEW c \in Columns, value[c] # wanted[c]
                 PROVE  <<e, c>> \in met \/ (value[c] = row[e].value[c] /\ wanted[c] = last[e][c])
      OBVIOUS
    <3>1. /\ value[c] = IF c \in Named(d) /\ wish[c] # seen[c] THEN wish[c] ELSE row[e].value[c]
          /\ wanted[c] = IF c \in Named(d) THEN wish[c] ELSE last[e][c]
      OBVIOUS
    <3> HIDE DEF value, wanted
    <3>2. CASE c \in Named(d)
      <4>1. row[e].value[c] # seen[c]
        BY <3>1, <3>2
      <4> QED
        BY <3>2, <4>1
    <3>3. CASE c \notin Named(d)
      BY <3>1, <3>3
    <3> QED
      BY <3>2, <3>3
  <2> HIDE DEF e, value, wanted, met
  <2>8. row' \in [Entities -> Row]
    <3>1. [row[e] EXCEPT !.value = value] \in Row
      BY <2>4, <2>5 DEF Row
    <3>2. row' = [row EXCEPT ![e] = [row[e] EXCEPT !.value = value]]
      BY <2>1
    <3> QED
      BY <1>1, <2>2, <3>1, <3>2 DEF TypeOK
  <2>9. /\ \A y \in Entities : y # e => row'[y] = row[y]
        /\ row'[e].state = row[e].state /\ row'[e].parent = row[e].parent /\ row'[e].value = value
    BY <1>1, <2>1, <2>2, <2>4 DEF TypeOK, Row
  <2>10. \A y \in Entities : row'[y].parent = row[y].parent /\ (There(y) <=> There(y)')
    BY <2>9 DEF There
  <2>11. \A k \in Keys : row'[k] = row[k]
    BY <2>2, <2>9, NoneIsNoRow
  <2>12. \A y \in Projects \union Contacts : row'[y].parent = row[y].parent /\ (There(y) => There(y)')
    BY <2>10, NoneIsNoRow
  <2>13. \A y \in Children : (There(y) => row[y].parent \in Projects /\ There(row[y].parent))'
    <3> SUFFICES ASSUME NEW y \in Children, There(y)'
                 PROVE  row'[y].parent \in Projects /\ There(row[y].parent)'
      OBVIOUS
    <3>1. row'[y].parent = row[y].parent /\ There(y)
      BY <2>10, NoneIsNoRow
    <3>2. row[y].parent \in Projects /\ There(row[y].parent)
      BY <1>1, <3>1 DEF TypeOK
    <3> QED
      BY <2>12, <3>1, <3>2 DEF There
  <2>14. (linked \subseteq {link \in Contacts \X Projects : There(link[1]) /\ There(link[2])})'
    BY <1>1, <1>2, <2>12 DEF TypeOK
  <2>15. /\ last' \in [Patchable -> [Columns -> Values]] /\ crossed' \subseteq Patchable \X Columns
         /\ requests' \in 0 .. MaxRequests
    BY <1>1, <1>2, <2>1, <2>5, <2>6 DEF TypeOK
  <2>16. PatchesKept'
    <3> SUFFICES ASSUME NEW f \in Patchable, NEW c \in Columns, row'[f].value[c] # last'[f][c]
                 PROVE  <<f, c>> \in crossed'
      BY DEF PatchesKept
    <3>1. CASE f # e
      BY <1>1, <2>1, <2>9, <3>1, NoneIsNoRow DEF PatchesKept, TypeOK
    <3>2. CASE f = e
      <4>1. value[c] # wanted[c]
        BY <1>1, <2>1, <2>9, <3>2 DEF TypeOK
      <4>2. row[e].value[c] # last[e][c] => <<e, c>> \in crossed
        BY <1>1, <3>2 DEF PatchesKept
      <4> QED
        BY <2>1, <2>7, <3>2, <4>1, <4>2
    <3> QED
      BY <3>1, <3>2
  <2>17. RowsStay /\ row'[e].state # "none" /\ "patch" \in Ops
    <3>1. row[e].state = "there"
      BY <1>4 DEF There, e
    <3> QED
      BY <2>9, <3>1 DEF RowsStay, Fresh, Ops
  <2> QED
    BY <1>1, <1>2, <2>1, <2>2, <2>17, <2>8, <2>11, <2>12, <2>13, <2>14, <2>15, <2>16, RowSteps DEF Quiet
<1> QED
  BY <1>3, <1>4

LEMMA InsertLinkPreserves ==
    ASSUME WorkspacesInv, NEW d \in Desks, InsertLink(d)
    PROVE  WorkspacesInv'
<1> DEFINE link == <<desk[d].target, desk[d].parent>>
<1>1. /\ TypeOK /\ PatchesKept /\ Quiet(d) /\ desk[d].phase = "link"
      /\ desk[d].target \in Contacts /\ desk[d].parent \in Projects
      /\ desk[d].op \in Ops \union {None}
  BY DeskFields DEF WorkspacesInv, DeskKnows, DeskActs, InsertLink, At
<1>2. UNCHANGED <<row, avatar, objects, minted, requests, lost, last, crossed, cut, excused>>
  BY DEF InsertLink, history
<1>3. CASE ~(There(link[1]) /\ There(link[2]) /\ link \notin linked)
  <2>1. End(d) /\ UNCHANGED <<linked, unaudited>>
    BY <1>3 DEF InsertLink
  <2>2. unaudited' = unaudited - Owes(desk[d])
    BY <1>1, <2>1 DEF Owes, TypeOK
  <2> QED
    BY <1>1, <1>2, <2>1, <2>2, EndSteps
<1>4. CASE There(link[1]) /\ There(link[2]) /\ link \notin linked
  <2>1. /\ linked' = linked \union {link}
        /\ Go(d, Request("audit", "link_project", desk[d].target)) /\ unaudited' = unaudited + 1
    BY <1>4 DEF InsertLink, Committed, Entry
  <2>2. (linked \subseteq {l \in Contacts \X Projects : There(l[1]) /\ There(l[2])})'
    <3>1. link \in {l \in Contacts \X Projects : There(l[1]) /\ There(l[2])}
      BY <1>1, <1>4
    <3> QED
      BY <1>1, <1>2, <2>1, <3>1 DEF TypeOK, There
  <2>3. desk[d].target \in Entities
    BY <1>1, NoneIsNoRow
  <2>4. /\ row' \in [Entities -> Row] /\ (\A k \in Keys : row'[k] = row[k])
        /\ \A x \in Projects \union Contacts : row'[x].parent = row[x].parent /\ (There(x) => There(x)')
        /\ \A x \in Children : (There(x) => row[x].parent \in Projects /\ There(row[x].parent))'
        /\ last' \in [Patchable -> [Columns -> Values]] /\ crossed' \subseteq Patchable \X Columns
        /\ requests' \in 0 .. MaxRequests
    BY <1>1, <1>2 DEF TypeOK, There
  <2>5. PatchesKept'
    BY <1>1, <1>2 DEF PatchesKept
  <2>6. RowsStay /\ "link_project" \in Ops
    BY <1>2 DEF RowsStay, Fresh, Ops
  <2> QED
    BY <1>1, <1>2, <2>1, <2>2, <2>3, <2>4, <2>5, <2>6, RowSteps DEF Quiet
<1> QED
  BY <1>3, <1>4

LEMMA DeleteLinkPreserves ==
    ASSUME WorkspacesInv, NEW d \in Desks, DeleteLink(d)
    PROVE  WorkspacesInv'
<1>1. /\ TypeOK /\ PatchesKept /\ Quiet(d) /\ desk[d].phase = "unlink"
      /\ desk[d].target \in Contacts /\ desk[d].op \in Ops \union {None}
  BY DeskFields DEF WorkspacesInv, DeskKnows, DeskActs, DeleteLink, At
<1>2. UNCHANGED <<row, avatar, objects, minted, requests, lost, last, crossed, cut, excused>>
  BY DEF DeleteLink, history
<1>3. /\ linked' \subseteq linked
      /\ Go(d, Request("audit", "unlink_project", desk[d].target)) /\ unaudited' = unaudited + 1
  BY DEF DeleteLink, Committed, Entry
<1>4. (linked \subseteq {l \in Contacts \X Projects : There(l[1]) /\ There(l[2])})'
  BY <1>1, <1>2, <1>3 DEF TypeOK, There
<1>5. desk[d].target \in Entities
  BY <1>1, NoneIsNoRow
<1>6. /\ row' \in [Entities -> Row] /\ (\A k \in Keys : row'[k] = row[k])
      /\ \A x \in Projects \union Contacts : row'[x].parent = row[x].parent /\ (There(x) => There(x)')
      /\ \A x \in Children : (There(x) => row[x].parent \in Projects /\ There(row[x].parent))'
      /\ last' \in [Patchable -> [Columns -> Values]] /\ crossed' \subseteq Patchable \X Columns
      /\ requests' \in 0 .. MaxRequests
  BY <1>1, <1>2 DEF TypeOK, There
<1>7. PatchesKept'
  BY <1>1, <1>2 DEF PatchesKept
<1>8. RowsStay /\ "unlink_project" \in Ops
  BY <1>2 DEF RowsStay, Fresh, Ops
<1> QED
  BY <1>1, <1>2, <1>3, <1>4, <1>5, <1>6, <1>7, <1>8, RowSteps DEF Quiet

LEMMA PutObjectPreserves ==
    ASSUME WorkspacesInv, NEW d \in Desks, PutObject(d)
    PROVE  WorkspacesInv'
<1> DEFINE phase == IF desk[d].op = "upload_file" THEN "select" ELSE "reselect"
           r == [desk[d] EXCEPT !.phase = phase]
           key == desk[d].key
<1>1. /\ TypeOK /\ TablesKnow /\ NoDangling /\ NoStrayObject /\ PatchesKept /\ KeysApart
      /\ DeskKnows(d) /\ desk[d].phase = "put" /\ desk[d].op \in {"upload_file", "upload_avatar"}
      /\ desk[d] \in DeskType
  BY DeskFields DEF WorkspacesInv, DeskKnows, DeskActs, PutObject, At
<1>2. /\ UNCHANGED <<row, avatar, linked, requests, minted, unaudited, lost, last, crossed, cut, excused>>
      /\ objects' = objects \union {key} /\ Go(d, r)
  BY DEF PutObject, rows, history, Next_phase
<1>3. /\ key \in minted /\ Fresh(key) /\ key # None /\ key \in Keys
      /\ \A c \in Contacts : avatar[c] # key
      /\ desk[d].op = "upload_file" => desk[d].target \in Projects /\ desk[d].doomed = {}
                                       /\ desk[d].removed = {} /\ desk[d].old = None
  BY <1>1, NoneIsNoRow DEF DeskKnows, UploadKnows, Uploading, At, TypeOK
<1>4. /\ r \in DeskType /\ r.phase = phase /\ r.op = desk[d].op /\ r.target = desk[d].target
      /\ r.key = key /\ r.old = desk[d].old /\ r.doomed = desk[d].doomed
      /\ r.removed = desk[d].removed
  <2>1. phase \in Phases
    BY DEF Phases
  <2> HIDE DEF phase
  <2> QED
    BY <1>1, <2>1, PhaseIsDesk
<1> HIDE DEF r
<1>5. desk'[d] = r /\ \A f \in Desks : f # d => desk'[f] = desk[f]
  BY <1>1, <1>2, DeskFields DEF Go
<1>6. desk[d].removed = {}
  BY <1>1, <1>3 DEF DeskKnows, AvatarKnows, OnAvatar, At
<1>7. DeskKnows(d)'
  <2>1. UploadKnows(d)'
    BY <1>1, <1>2, <1>3, <1>4, <1>5 DEF UploadKnows, Uploading, At, Fresh
  <2>2. AvatarKnows(d)'
    BY <1>1, <1>2, <1>4, <1>5 DEF DeskKnows, AvatarKnows, OnAvatar, At, Fresh
  <2>3. FileKnows(d)' /\ ProjectKnows(d)' /\ ChildKnows(d)'
    BY <1>1, <1>4, <1>5 DEF FileKnows, OnFile, ProjectKnows, OnProject, ChildKnows
  <2>4. DeskActs(d)' /\ (desk[d].removed \intersect objects = {})'
    BY <1>1, <1>4, <1>5, <1>6 DEF DeskActs
  <2> QED
    BY <2>1, <2>2, <2>3, <2>4 DEF DeskKnows
<1>8. Moves(d)
  BY <1>2, <1>3 DEF Moves, Fresh, There
<1>9. TablesOK'
  BY <1>1, <1>2, <1>3 DEF TablesOK, TypeOK, There
<1>10. TablesKnow'
  BY <1>1, <1>2 DEF TablesKnow, Fresh
<1>11. Referenced' = Referenced
  BY <1>2 DEF Referenced, There
<1>12. NoDangling'
  BY <1>1, <1>2, <1>5, <1>6, <1>11, DanglingSteps
<1>13. NoStrayObject'
  <2>1. None \notin objects'
    BY <1>1, <1>2, <1>3, NoneIsNoRow DEF TypeOK
  <2> QED
    BY <1>1, <1>2, <1>4, <1>5, <1>11, <2>1, StraySteps
<1>14. PatchesKept'
  BY <1>1, <1>2 DEF PatchesKept
<1>15. /\ requests' \in 0 .. MaxRequests /\ unaudited' = unaudited + Owes(r) /\ Owes(desk[d]) = 0
       /\ r.key # None => r.key # r.old
  BY <1>1, <1>2, <1>4 DEF TypeOK, Owes, KeysApart
<1>16. RowsStay /\ r.phase # "refresh"
  BY <1>2, <1>4 DEF RowsStay, Fresh
<1> QED
  BY <1>2, <1>4, <1>7, <1>8, <1>9, <1>10, <1>12, <1>13, <1>14, <1>15, <1>16, TableSteps

\* An object goes, and the request remembers that it has.
LEMMA RemoveObjectPreserves ==
    ASSUME WorkspacesInv, NEW d \in Desks, RemoveObject(d)
    PROVE  WorkspacesInv'
<1>1. PICK k \in desk[d].doomed :
        /\ objects' = objects \ {k}
        /\ Doom(d, [desk[d] EXCEPT !.removed = desk[d].removed \union {k}], desk[d].doomed \ {k})
  BY DEF RemoveObject
<1> DEFINE q == [desk[d] EXCEPT !.removed = desk[d].removed \union {k}]
           rest == desk[d].doomed \ {k}
<1>2. /\ TypeOK /\ TablesKnow /\ NoDangling /\ NoStrayObject /\ PatchesKept /\ KeysApart
      /\ DeskKnows(d) /\ (\A e \in Desks : DeskKnows(e)) /\ desk[d].phase = "remove"
      /\ desk[d].op \in {"delete_project", "delete_file", "upload_avatar", "delete_avatar",
                         "delete_contact"}
      /\ desk[d] \in DeskType /\ desk[d].doomed \subseteq Keys /\ desk[d].removed \subseteq Keys
  BY DeskFields DEF WorkspacesInv, DeskKnows, DeskActs, RemoveObject, At
<1>3. UNCHANGED <<row, avatar, linked, requests, minted, unaudited, lost, last, crossed, cut, excused>>
  BY DEF RemoveObject, rows, history
<1>4. /\ q \in DeskType /\ q.op = desk[d].op /\ q.target = desk[d].target /\ q.key = desk[d].key
      /\ q.old = desk[d].old /\ q.removed = desk[d].removed \union {k}
  BY <1>2 DEF DeskType
<1>5. Doom(d, q, rest) /\ q.op \in DOMAIN After /\ rest \in SUBSET Keys
  BY <1>1, <1>2, <1>4 DEF After
<1> HIDE DEF q
<1>6. PICK r \in DeskType :
        /\ Go(d, r) /\ r.op = desk[d].op /\ r.target = desk[d].target /\ r.key = desk[d].key
        /\ r.old = desk[d].old /\ r.removed = desk[d].removed \union {k} /\ r.doomed = rest
        /\ r.phase = IF rest = {} THEN After[desk[d].op] ELSE "remove"
  BY <1>4, <1>5, DoomIsDesk
<1>7. desk'[d] = r /\ \A f \in Desks : f # d => desk'[f] = desk[f]
  BY <1>2, <1>6, DeskFields DEF Go
<1>8. \/ r.phase = "remove" /\ rest # {}
      \/ /\ rest = {}
         /\ r.phase = CASE desk[d].op = "delete_file" -> "reselect"
                        [] desk[d].op \in {"upload_avatar", "delete_avatar"} -> "avatar"
                        [] OTHER -> "delete"
  BY <1>2, <1>6 DEF After
<1>9. desk[d].key # None => desk[d].key # k
  BY <1>2, KeysAreUnknown
<1>10. DeskKnows(d)'
  <2>1. UploadKnows(d)'
    <3>1. CASE Uploading(d)
      <4>1. /\ desk[d].key \in minted /\ Fresh(desk[d].key) /\ desk[d].key # None
            /\ \A c \in Contacts : avatar[c] # desk[d].key
            /\ desk[d].key \in objects /\ desk[d].op = "upload_avatar"
        BY <1>2, <3>1, NoneIsNoRow DEF DeskKnows, UploadKnows, Uploading, At, TypeOK
      <4> QED
        BY <1>1, <1>3, <1>6, <1>7, <1>8, <1>9, <3>1, <4>1 DEF UploadKnows, Uploading, At, Fresh
    <3>2. CASE ~Uploading(d)
      BY <1>2, <1>6, <1>7, <3>2 DEF DeskKnows, UploadKnows, Uploading, At
    <3> QED
      BY <3>1, <3>2
  <2>2. FileKnows(d)'
    <3> SUFFICES ASSUME desk[d].op = "delete_file" PROVE FileKnows(d)'
      BY <1>6, <1>7 DEF FileKnows, OnFile
    <3>1. desk[d].target \in Keys /\ ~Fresh(desk[d].target) /\ desk[d].old = None
          /\ desk[d].doomed = {desk[d].target} /\ desk[d].removed = {}
      BY <1>2 DEF DeskKnows, FileKnows, OnFile, At
    <3>2. rest = {} /\ r.removed = {desk[d].target} /\ r.phase = "reselect"
      BY <1>6, <1>8, <3>1
    <3> QED
      BY <1>3, <1>6, <1>7, <3>1, <3>2 DEF FileKnows, At, Fresh
  <2>3. ProjectKnows(d)'
    <3> SUFFICES ASSUME desk[d].op = "delete_project" PROVE ProjectKnows(d)'
      BY <1>6, <1>7 DEF ProjectKnows, OnProject
    <3>1. /\ desk[d].target \in Projects /\ desk[d].old = None
          /\ \A j \in desk[d].doomed \union desk[d].removed :
                ~Fresh(j) /\ (There(j) => row[j].parent = desk[d].target)
          /\ FilesOf(desk[d].target) \subseteq desk[d].doomed \union desk[d].removed \union excused
      BY <1>2 DEF DeskKnows, ProjectKnows, OnProject, At
    <3>2. r.doomed \union r.removed = desk[d].doomed \union desk[d].removed
      BY <1>6
    <3>3. FilesOf(r.target)' = FilesOf(desk[d].target)
      BY <1>3, <1>6 DEF FilesOf, There
    <3>4. r.phase = "delete" => r.doomed = {}
      BY <1>6, <1>8
    <3> QED
      BY <1>3, <1>6, <1>7, <3>1, <3>2, <3>3, <3>4 DEF ProjectKnows, At, Fresh, There
  <2>4. AvatarKnows(d)'
    <3> SUFFICES ASSUME desk[d].op \in {"upload_avatar", "delete_avatar", "delete_contact"}
                 PROVE  AvatarKnows(d)'
      BY <1>6, <1>7 DEF AvatarKnows, OnAvatar
    <3> DEFINE old == desk[d].old
    <3>1. /\ desk[d].target \in Contacts
          /\ old # None => /\ old \in minted /\ Fresh(old)
                           /\ \A c \in Contacts : avatar[c] = old => c = desk[d].target
          /\ avatar[desk[d].target] \in {old, None} \union excused
          /\ desk[d].doomed = {old} /\ desk[d].removed = {} /\ old # None
      BY <1>2 DEF DeskKnows, AvatarKnows, OnAvatar, At
    <3>2. rest = {} /\ r.removed = {old} /\ r.phase \in {"avatar", "delete"}
      BY <1>6, <1>8, <3>1
    <3> QED
      BY <1>3, <1>6, <1>7, <3>1, <3>2 DEF AvatarKnows, At, Fresh
  <2>5. ChildKnows(d)' /\ DeskActs(d)'
    BY <1>2, <1>6, <1>7, <1>8 DEF ChildKnows, DeskActs
  <2>6. (desk[d].removed \intersect objects = {})'
    BY <1>1, <1>2, <1>6, <1>7 DEF DeskKnows
  <2> QED
    BY <2>1, <2>2, <2>3, <2>4, <2>5, <2>6 DEF DeskKnows
<1>11. Moves(d)
  BY <1>1, <1>3 DEF Moves, Fresh, There
<1>12. TablesOK' /\ TablesKnow'
  BY <1>1, <1>2, <1>3 DEF TablesOK, TypeOK, There, TablesKnow, Fresh
<1>13. Referenced' = Referenced
  BY <1>3 DEF Referenced, There
<1>14. NoDangling'
  <2>1. objects \subseteq objects' \union desk'[d].removed
        /\ \A j \in desk[d].removed : j \in desk'[d].removed
    BY <1>1, <1>6, <1>7
  <2> QED
    BY <1>2, <1>3, <1>7, <1>13, <2>1, DanglingSteps
<1>15. NoStrayObject'
  <2>1. None \notin objects' /\ objects' \subseteq objects
    BY <1>1, <1>2, NoneIsNoRow DEF TypeOK
  <2> QED
    BY <1>2, <1>3, <1>6, <1>7, <1>13, <2>1, StraySteps
<1>16. PatchesKept'
  BY <1>2, <1>3 DEF PatchesKept
<1>17. /\ requests' \in 0 .. MaxRequests /\ unaudited' = unaudited + Owes(r) /\ Owes(desk[d]) = 0
       /\ r.key # None => r.key # r.old
  BY <1>2, <1>3, <1>6, <1>8 DEF TypeOK, Owes, KeysApart
<1>18. RowsStay /\ r.phase # "refresh"
  BY <1>3, <1>6, <1>8 DEF RowsStay, Fresh
<1> QED
  BY <1>3, <1>6, <1>10, <1>11, <1>12, <1>14, <1>15, <1>16, <1>17, <1>18, TableSteps
\* The file's row appears: its content is there.
LEMMA InsertFilePreserves ==
    ASSUME WorkspacesInv, NEW d \in Desks, InsertFile(d)
    PROVE  WorkspacesInv'
<1> DEFINE k == desk[d].key
           p == desk[d].target
<1>1. /\ TypeOK /\ TablesKnow /\ NoDangling /\ NoStrayObject /\ PatchesKept /\ DeskKnows(d)
      /\ desk[d].phase = "insert_file" /\ desk[d].op = "upload_file"
  BY DEF WorkspacesInv, DeskKnows, DeskActs, InsertFile, At
<1>2. UNCHANGED <<avatar, linked, objects, requests, minted, lost, last, crossed>>
  BY DEF InsertFile
<1>3. /\ k \in minted /\ k \in Keys /\ Fresh(k) /\ (\A c \in Contacts : avatar[c] # k) /\ k \in objects
      /\ p \in Projects /\ desk[d].removed = {}
  BY <1>1 DEF DeskKnows, UploadKnows, Uploading, At, TypeOK
<1>4. CASE ~There(p)
  <2>1. Owes(desk[d]) = 0 /\ unaudited \in Int /\ Len(lost) \in Nat
    BY <1>1 DEF Owes, TypeOK
  <2>2. Fail(d) /\ UNCHANGED <<row, unaudited>>
    BY <1>4 DEF InsertFile
  <2>3. unaudited' - Len(lost') = unaudited - Len(lost) - Owes(desk[d])
    BY <1>2, <2>1, <2>2
  <2> QED
    BY <1>2, <2>1, <2>2, <2>3, FailSteps DEF Loses
<1>5. CASE There(p)
  <2>1. /\ row' = [row EXCEPT ![k].state = "there", ![k].parent = p]
        /\ excused' = IF Deleting(p) THEN excused \union {k} ELSE excused
        /\ cut' = cut /\ unaudited' = unaudited + 1
        /\ Go(d, Request("refresh", "upload_file", k))
    BY <1>5 DEF InsertFile, Committed, Reread
  <2>2. k \in Entities /\ p \in Entities /\ k \notin Projects \union Contacts \union Children
        /\ k \notin Patchable /\ k # p
    BY <1>3, NoneIsNoRow, TablesAssumption DEF Patchable, Children
  <2> HIDE DEF k, p
  <2>3. row' \in [Entities -> Row]
    <3>1. [row[k] EXCEPT !.state = "there", !.parent = p] \in Row
      BY <1>1, <1>3, <2>2 DEF TypeOK, Row
    <3>2. row' = [row EXCEPT ![k] = [row[k] EXCEPT !.state = "there", !.parent = p]]
      BY <1>1, <2>1, <2>2 DEF TypeOK, Row
    <3> QED
      BY <1>1, <2>2, <3>1, <3>2 DEF TypeOK
  <2>4. /\ \A y \in Entities : y # k => row'[y] = row[y]
        /\ row'[k].state = "there" /\ row'[k].parent = p /\ row'[k].value = row[k].value
    BY <1>1, <2>1, <2>2 DEF TypeOK, Row
  <2>5. \A y \in Projects \union Contacts : row'[y] = row[y]
    BY <2>2, <2>4, NoneIsNoRow
  <2>6. (\A x \in Children \union Keys : There(x) => row[x].parent \in Projects /\ There(row[x].parent))'
    <3> SUFFICES ASSUME NEW x \in Children \union Keys, There(x)'
                 PROVE  row'[x].parent \in Projects /\ There(row[x].parent)'
      OBVIOUS
    <3>1. CASE x = k
      BY <1>3, <1>5, <2>4, <2>5, <3>1 DEF There
    <3>2. CASE x # k
      <4>1. row'[x] = row[x] /\ There(x)
        BY <2>4, <3>2, NoneIsNoRow DEF There
      <4>2. row[x].parent \in Projects /\ There(row[x].parent)
        BY <1>1, <4>1 DEF TypeOK
      <4> QED
        BY <2>5, <4>1, <4>2 DEF There
    <3> QED
      BY <3>1, <3>2
  <2>7. excused \subseteq excused' /\ excused' \subseteq Keys /\ (Deleting(p) => k \in excused')
    BY <1>1, <1>3, <2>1 DEF TypeOK
  <2>8. TablesOK'
    <3>1. linked' \subseteq {l \in Contacts \X Projects : There(l[1])' /\ There(l[2])'}
      BY <1>1, <1>2, <2>5 DEF TypeOK, There
    <3> QED
      BY <1>1, <1>2, <2>1, <2>3, <2>6, <2>7, <3>1 DEF TypeOK, TablesOK, There
  <2>9. Moves(d)
    <3>1. \A j \in Keys : j # k => row'[j] = row[j]
      BY <2>4, NoneIsNoRow
    <3>2. \A j \in Keys : (~Fresh(j) => ~Fresh(j)') /\ (Fresh(j) /\ j # k => Fresh(j)')
      BY <2>4, <3>1 DEF Fresh
    <3>3. \A j \in Keys : There(j)' =>
             \/ There(j) /\ row'[j].parent = row[j].parent
             \/ j = k /\ (Deleting(row'[j].parent) => j \in excused')
      <4> SUFFICES ASSUME NEW j \in Keys, There(j)'
                   PROVE  \/ There(j) /\ row'[j].parent = row[j].parent
                          \/ j = k /\ (Deleting(row'[j].parent) => j \in excused')
        OBVIOUS
      <4>1. CASE j = k
        BY <2>4, <2>7, <4>1
      <4>2. CASE j # k
        BY <3>1, <4>2 DEF There
      <4> QED
        BY <4>1, <4>2
    <3> QED
      BY <1>2, <2>7, <3>2, <3>3 DEF Moves, k
  <2>10. TablesKnow'
    <3>1. \A j \in Keys : ~Fresh(j)' => j \in minted'
      BY <1>1, <1>2, <1>3, <2>4, NoneIsNoRow DEF TablesKnow, Fresh
    <3>2. \A c \in Contacts : avatar[c] # None => avatar[c] \in minted /\ Fresh(avatar[c])'
      <4> SUFFICES ASSUME NEW c \in Contacts, avatar[c] # None
                   PROVE  avatar[c] \in minted /\ Fresh(avatar[c])'
        OBVIOUS
      <4>1. avatar[c] \in minted /\ Fresh(avatar[c]) /\ avatar[c] # k /\ avatar[c] \in Entities
        BY <1>1, <1>3, NoneIsNoRow DEF TablesKnow, TypeOK
      <4> QED
        BY <1>2, <2>4, <4>1 DEF Fresh
    <3> QED
      BY <1>1, <1>2, <2>5, <3>1, <3>2 DEF TablesKnow, Fresh
  <2>11. Referenced' = Referenced \union {k}
    <3>1. \A j \in Keys : There(j)' <=> (There(j) \/ j = k)
      BY <1>3, <2>4, NoneIsNoRow DEF There
    <3> QED
      BY <1>2, <1>3, <3>1 DEF Referenced
  <2>12. \A f \in Desks : f # d => desk'[f] = desk[f]
    BY <1>1, <2>1, DeskFields DEF Go
  <2>13. NoDangling'
    BY <1>1, <1>2, <1>3, <2>1, <2>11, <2>12, DanglingSteps
  <2>14. NoStrayObject'
    <3>1. None \notin objects' /\ desk[d].key \in Referenced'
      BY <1>1, <1>2, <2>11, NoneIsNoRow DEF TypeOK, k
    <3>2. \A j \in objects' \ Referenced' : j \in objects \ Referenced
      BY <1>2, <2>11
    <3> QED
      BY <1>1, <2>7, <2>12, <3>1, <3>2, StraySteps
  <2>15. PatchesKept'
    <3>1. \A e \in Patchable : row'[e] = row[e]
      BY <2>2, <2>4, NoneIsNoRow
    <3> QED
      BY <1>1, <1>2, <3>1 DEF PatchesKept
  <2>16. desk[d].phase \notin {"refresh", "audit"}
         /\ "upload_file" \in Ops /\ requests' \in 0 .. MaxRequests
    BY <1>1, <1>2 DEF TypeOK, Ops
  <2>17. RowsStay /\ row'[k].state # "none"
    BY <1>3, <2>4 DEF RowsStay, Fresh
  <2> QED
    BY <1>2, <2>1, <2>17, <2>2, <2>8, <2>9, <2>10, <2>13, <2>14, <2>15, <2>16, CommitSteps
<1> QED
  BY <1>4, <1>5

\* The contact's avatar is replaced or cleared: what it replaces has been removed,
\* or belongs to a request that was overtaken.
LEMMA SetAvatarPreserves ==
    ASSUME WorkspacesInv, NEW d \in Desks, SetAvatar(d)
    PROVE  WorkspacesInv'
<1> DEFINE k == desk[d].key
           t == desk[d].target
           old == desk[d].old
<1>1. /\ TypeOK /\ TablesKnow /\ NoDangling /\ NoStrayObject /\ PatchesKept /\ KeysApart
      /\ DeskKnows(d) /\ desk[d].phase = "avatar" /\ desk[d].op \in {"upload_avatar", "delete_avatar"}
  BY DEF WorkspacesInv, DeskKnows, DeskActs, SetAvatar, At
<1>2. UNCHANGED <<row, linked, objects, requests, minted, lost, last, crossed>>
  BY DEF SetAvatar
<1>3. /\ t \in Contacts
      /\ old # None => old \in minted /\ Fresh(old) /\ \A c \in Contacts : avatar[c] = old => c = t
      /\ avatar[t] \in {old, None} \union excused
      /\ desk[d].removed = {old} \ {None} /\ desk[d].removed \intersect objects = {}
  BY <1>1 DEF DeskKnows, AvatarKnows, OnAvatar, At
<1>4. /\ desk[d].op = "upload_avatar" =>
            /\ k \in minted /\ k \in Keys /\ k # None /\ Fresh(k) /\ k \in objects
            /\ \A c \in Contacts : avatar[c] # k
      /\ desk[d].op = "delete_avatar" => k = None
  BY <1>1, NoneIsNoRow DEF DeskKnows, UploadKnows, Uploading, At, TypeOK
<1>5. k \in Keys \union {None} /\ None \notin Keys /\ (k # None => k # old)
  BY <1>1, DeskFields, NoneIsNoRow DEF KeysApart
<1>6. CASE ~There(t)
  <2>1. Owes(desk[d]) = 0 /\ unaudited \in Int /\ Len(lost) \in Nat
    BY <1>1 DEF Owes, TypeOK
  <2>2. Fail(d) /\ UNCHANGED <<avatar, unaudited>>
    BY <1>6 DEF SetAvatar
  <2>3. unaudited' - Len(lost') = unaudited - Len(lost) - Owes(desk[d])
    BY <1>2, <2>1, <2>2
  <2> QED
    BY <1>2, <2>1, <2>2, <2>3, FailSteps DEF Loses
<1>7. CASE There(t)
  <2>1. /\ avatar' = IF desk[d].op = "upload_avatar" \/ old # None
                     THEN [avatar EXCEPT ![t] = k] ELSE avatar
        /\ excused' = excused \union (IF Overtaken(d) THEN {k} \ {None} ELSE {})
        /\ cut' = cut /\ unaudited' = unaudited + 1
        /\ Go(d, Request("refresh", desk[d].op, t))
    BY <1>7 DEF SetAvatar, Committed, Reread
  <2> HIDE DEF k, t, old
  <2>2. /\ \A c \in Contacts : c # t => avatar'[c] = avatar[c]
        /\ \/ avatar'[t] = k
           \/ avatar'[t] = avatar[t] /\ desk[d].op = "delete_avatar" /\ old = None
        /\ avatar' \in [Contacts -> Keys \union {None}]
    BY <1>1, <1>3, <1>5, <2>1 DEF TypeOK
  <2>3. excused \subseteq excused' /\ excused' \subseteq Keys
        /\ (k # None /\ Overtaken(d) => k \in excused')
    BY <1>1, <1>5, <2>1 DEF TypeOK
  <2>4. TablesOK'
    BY <1>1, <1>2, <2>1, <2>2, <2>3 DEF TypeOK, TablesOK, There
  <2>5. Moves(d)
    <3>1. \A c \in Contacts :
            \/ avatar'[c] \in {avatar[c], None}
            \/ avatar'[c] = k /\ c = t /\ (Overtaken(d) => k \in excused')
      BY <1>3, <2>2, <2>3
    <3> QED
      BY <1>2, <2>3, <3>1 DEF Moves, Fresh, There, k, t
  <2>6. TablesKnow'
    <3>1. \A c \in Contacts : avatar'[c] # None => avatar'[c] \in minted /\ Fresh(avatar'[c])
      BY <1>1, <1>3, <1>4, <2>2 DEF TablesKnow
    <3>2. \A b, c \in Contacts : avatar'[b] # None /\ avatar'[b] = avatar'[c] => b = c
      BY <1>1, <1>3, <1>4, <2>2 DEF TablesKnow
    <3>3. \A c \in Contacts : (avatar[c] # None => avatar[c] \in minted /\ Fresh(avatar[c]))'
      BY <1>2, <3>1 DEF Fresh
    <3> QED
      BY <1>1, <1>2, <3>2, <3>3 DEF TablesKnow, Fresh
  <2>7. \A f \in Desks : f # d => desk'[f] = desk[f]
    BY <1>1, <2>1, DeskFields DEF Go
  <2>8. \A j \in Keys : There(j)' <=> There(j)
    BY <1>2 DEF There
  <2>9. NoDangling'
    <3>1. \A j \in Referenced' : j \in Referenced \union objects'
      <4> SUFFICES ASSUME NEW c \in Contacts, avatar'[c] # None
                   PROVE  avatar'[c] \in Referenced \union objects'
        BY <2>8 DEF Referenced
      <4>1. CASE avatar'[c] = avatar[c]
        BY <4>1 DEF Referenced
      <4>2. CASE avatar'[c] = k
        BY <1>1, <1>2, <1>4, <4>2
      <4> QED
        BY <2>2, <4>1, <4>2
    <3>2. \A j \in desk[d].removed : j \notin Referenced'
      <4> SUFFICES ASSUME old # None, old \in Referenced' PROVE FALSE
        BY <1>3
      <4>1. ~There(old)
        BY <1>3 DEF There, Fresh
      <4>2. PICK c \in Contacts : avatar'[c] = old
        BY <2>8, <4>1 DEF Referenced
      <4> QED
        BY <1>3, <1>5, <2>2, <4>2
    <3> QED
      BY <1>1, <1>2, <2>1, <2>7, <3>1, <3>2, DanglingSteps
  <2>10. NoStrayObject'
    <3>1. None \notin objects'
      BY <1>1, <1>2, NoneIsNoRow DEF TypeOK
    <3>2. \A j \in objects' \ Referenced' : j \in objects \ Referenced \/ j \in excused'
      <4> SUFFICES ASSUME NEW j \in objects, j \in Referenced, j \notin Referenced'
                   PROVE  j \in excused'
        BY <1>2
      <4>1. PICK c \in Contacts : avatar[c] = j
        BY <2>8 DEF Referenced
      <4>2. c = t
        <5>1. avatar'[c] # j
          BY <1>2, <3>1, <4>1 DEF Referenced
        <5> QED
          BY <2>2, <4>1, <5>1
      <4>3. j # None /\ j # old
        BY <1>2, <1>3, <3>1
      <4> QED
        BY <1>3, <2>3, <4>1, <4>2, <4>3
    <3>3. k \in {None} \union Referenced'
      <4>1. k # None => avatar'[t] = k
        BY <1>1, <1>4, <2>1, <2>2
      <4> QED
        BY <1>3, <4>1 DEF Referenced
    <3> QED
      BY <1>1, <2>3, <2>7, <3>1, <3>2, <3>3, StraySteps DEF k
  <2>11. PatchesKept'
    BY <1>1, <1>2 DEF PatchesKept
  <2>12. /\ desk[d].phase \notin {"refresh", "audit"}
         /\ desk[d].op \in Ops \union {None} /\ t \in Entities
         /\ requests' \in 0 .. MaxRequests
    BY <1>1, <1>2, <1>3, DeskFields, NoneIsNoRow DEF TypeOK
  <2>13. RowsStay /\ row'[t].state # "none"
    BY <1>2, <1>7 DEF RowsStay, Fresh, There, t
  <2> QED
    BY <1>2, <2>1, <2>4, <2>5, <2>6, <2>9, <2>10, <2>11, <2>12, <2>13, CommitSteps
<1> QED
  BY <1>6, <1>7
\* The row goes with its children, files, links and avatar: what it named has been
\* removed before, or was inserted or set behind the back of this deletion.
LEMMA DeleteRowPreserves ==
    ASSUME WorkspacesInv, NEW d \in Desks, DeleteRow(d)
    PROVE  WorkspacesInv'
<1> DEFINE e == desk[d].target
           goes == {x \in Entities : x = e \/ (There(x) /\ row[x].parent = e)}
<1>1. /\ TypeOK /\ TablesKnow /\ NoDangling /\ NoStrayObject /\ PatchesKept
      /\ DeskKnows(d) /\ desk[d].phase = "delete"
      /\ desk[d].op \in {"delete_child", "delete_project", "delete_file", "delete_contact"}
  BY DEF WorkspacesInv, DeskKnows, DeskActs, DeleteRow, At
<1>2. /\ UNCHANGED <<objects, requests, minted, lost, last, crossed, cut, excused>>
      /\ unaudited' = unaudited + 1 /\ Go(d, Request("audit", desk[d].op, e))
  BY DEF DeleteRow, Committed, Entry, history
<1>3. /\ row' = [x \in Entities |->
                   IF x \in goes THEN [row[x] EXCEPT !.state = "gone", !.parent = None] ELSE row[x]]
      /\ avatar' = [c \in Contacts |-> IF c = e THEN None ELSE avatar[c]]
      /\ linked' = {link \in linked : link[1] # e /\ link[2] # e}
  BY DEF DeleteRow
<1>4. /\ desk[d].doomed = {} /\ desk[d].key = None /\ desk[d].removed \intersect objects = {}
      /\ \/ e \in Children /\ desk[d].removed = {}
         \/ e \in Keys /\ ~Fresh(e) /\ desk[d].removed = {e}
         \/ /\ e \in Projects
            /\ \A k \in desk[d].removed : ~Fresh(k) /\ (There(k) => row[k].parent = e)
            /\ FilesOf(e) \subseteq desk[d].removed \union excused
         \/ /\ e \in Contacts /\ desk[d].removed = {desk[d].old} \ {None}
            /\ desk[d].old # None => /\ Fresh(desk[d].old)
                                     /\ \A c \in Contacts : avatar[c] = desk[d].old => c = e
            /\ avatar[e] \in {desk[d].old, None} \union excused
  <2>1. CASE desk[d].op = "delete_child"
    BY <1>1, <2>1 DEF DeskKnows, ChildKnows, Quiet, At
  <2>2. CASE desk[d].op = "delete_file"
    BY <1>1, <2>2 DEF DeskKnows, FileKnows, UploadKnows, Uploading, OnFile, At
  <2>3. CASE desk[d].op = "delete_project"
    BY <1>1, <2>3 DEF DeskKnows, ProjectKnows, UploadKnows, Uploading, OnProject, At
  <2>4. CASE desk[d].op = "delete_contact"
    BY <1>1, <2>4 DEF DeskKnows, AvatarKnows, UploadKnows, Uploading, OnAvatar, At
  <2> QED
    BY <1>1, <2>1, <2>2, <2>3, <2>4
<1>5. e \in Entities /\ desk[d].removed \subseteq Keys /\ None \notin Entities
  BY <1>1, <1>4, NoneIsNoRow, DeskFields, WorkspacesAssumption
<1> HIDE DEF e
<1>6. /\ \A x \in Entities : x \notin goes => row'[x] = row[x]
      /\ \A x \in goes : row'[x].state = "gone" /\ row'[x].parent = None /\ row'[x].value = row[x].value
      /\ row' \in [Entities -> Row]
  <2>1. \A x \in Entities : [row[x] EXCEPT !.state = "gone", !.parent = None] \in Row
    <3>1. \A q \in Row : [q EXCEPT !.state = "gone", !.parent = None] \in Row
      BY DEF Row
    <3> QED
      BY <1>1, <3>1 DEF TypeOK
  <2>2. \A x \in Entities : row[x] \in Row
    BY <1>1 DEF TypeOK
  <2> HIDE DEF goes
  <2>3. goes \subseteq Entities
    BY DEF goes
  <2>4. row' \in [Entities -> Row]
    BY <1>3, <2>1, <2>2
  <2>5. \A x \in goes : row'[x].state = "gone" /\ row'[x].parent = None /\ row'[x].value = row[x].value
    BY <1>3, <2>2, <2>3 DEF Row
  <2> QED
    BY <1>3, <2>4, <2>5
\* Only children and files have a parent.
<1>7. \A x \in Projects \union Contacts : x \in goes => x = e
  BY <1>1, <1>5 DEF TablesKnow
<1>8. \A x \in Entities : There(x)' <=> (There(x) /\ x \notin goes)
  BY <1>6 DEF There
<1>9. \A k \in Keys : (~Fresh(k) => ~Fresh(k)') /\ (Fresh(k) => Fresh(k)')
  <2>1. \A k \in Keys : Fresh(k) => k \notin goes
    <3> SUFFICES ASSUME NEW k \in Keys, Fresh(k), k = e PROVE FALSE
      BY DEF Fresh, There
    <3> QED
      BY <1>4, TablesAssumption
  <2> QED
    BY <1>6, <2>1, NoneIsNoRow DEF Fresh
<1>10. \A c \in Contacts : avatar'[c] = IF c = e THEN None ELSE avatar[c]
  BY <1>3
<1>11. Moves(d)
  <2>1. \A k \in Keys : There(k)' => There(k) /\ row'[k].parent = row[k].parent
    BY <1>6, <1>8, NoneIsNoRow
  <2> QED
    BY <1>2, <1>9, <1>10, <2>1 DEF Moves
<1>12. TablesOK'
  <2>1. (\A x \in Children \union Keys : There(x) => row[x].parent \in Projects /\ There(row[x].parent))'
    <3> SUFFICES ASSUME NEW x \in Children \union Keys, There(x)'
                 PROVE  row'[x].parent \in Projects /\ There(row[x].parent)'
      OBVIOUS
    <3>1. There(x) /\ x \notin goes /\ row'[x] = row[x] /\ x \in Entities
      BY <1>6, <1>8, NoneIsNoRow
    <3>2. row[x].parent \in Projects /\ There(row[x].parent) /\ row[x].parent # e
      BY <1>1, <3>1 DEF TypeOK
    <3>3. row'[row[x].parent] = row[row[x].parent]
      BY <1>6, <1>7, <3>2, NoneIsNoRow
    <3> QED
      BY <3>1, <3>2, <3>3 DEF There
  <2>2. linked' \subseteq {l \in Contacts \X Projects : There(l[1])' /\ There(l[2])'}
    <3> SUFFICES ASSUME NEW l \in linked'
                 PROVE  l \in Contacts \X Projects /\ There(l[1])' /\ There(l[2])'
      OBVIOUS
    <3>1. l \in Contacts \X Projects /\ There(l[1]) /\ There(l[2]) /\ l[1] # e /\ l[2] # e
      BY <1>1, <1>3 DEF TypeOK
    <3>2. l[1] \in Contacts /\ l[2] \in Projects
      BY <3>1
    <3>3. There(l[1])' /\ There(l[2])'
      BY <1>7, <1>8, <3>1, <3>2, NoneIsNoRow
    <3> QED
      BY <3>1, <3>3
  <2>3. avatar' \in [Contacts -> Keys \union {None}]
    BY <1>1, <1>3 DEF TypeOK
  <2> QED
    BY <1>1, <1>2, <1>6, <2>1, <2>2, <2>3 DEF TypeOK, TablesOK, There
<1>13. TablesKnow'
  <2>1. \A k \in Keys : ~Fresh(k)' => k \in minted
    BY <1>1, <1>9 DEF TablesKnow
  <2>2. \A c \in Contacts : avatar'[c] # None =>
           avatar'[c] = avatar[c] /\ avatar[c] \in minted /\ avatar[c] \in Keys /\ Fresh(avatar[c])
    BY <1>1, <1>10 DEF TablesKnow, TypeOK
  <2>3. \A c \in Contacts : (avatar[c] # None => avatar[c] \in minted /\ Fresh(avatar[c]))'
    BY <1>2, <1>9, <2>2 DEF Fresh
  <2>4. \A x \in Projects \union Contacts : row'[x].parent = None
    BY <1>1, <1>6, NoneIsNoRow DEF TablesKnow
  <2>5. \A b, c \in Contacts : avatar'[b] # None /\ avatar'[b] = avatar'[c] => b = c
    BY <1>1, <2>2 DEF TablesKnow
  <2> QED
    BY <1>2, <2>1, <2>3, <2>4, <2>5 DEF TablesKnow, Fresh
<1>14. \A f \in Desks : f # d => desk'[f] = desk[f]
  BY <1>1, <1>2, DeskFields DEF Go
<1>15. None \notin objects
  BY <1>1, NoneIsNoRow DEF TypeOK
<1>16. Referenced' \subseteq Referenced
  <2>1. {k \in Keys : There(k)'} \subseteq {k \in Keys : There(k)}
    BY <1>8, NoneIsNoRow
  <2>2. ({avatar'[c] : c \in Contacts} \ {None}) \subseteq ({avatar[c] : c \in Contacts} \ {None})
    BY <1>10
  <2> QED
    BY <2>1, <2>2 DEF Referenced
<1>17. \A k \in desk[d].removed : k \notin Referenced'
  <2> SUFFICES ASSUME NEW k \in desk[d].removed, k \in Referenced' PROVE FALSE
    OBVIOUS
  <2>1. k \in Keys /\ k \in Entities
    BY <1>5, NoneIsNoRow
  <2>2. CASE There(k)'
    <3>1. There(k) /\ ~Fresh(k) /\ k # e /\ row[k].parent # e
      BY <1>8, <2>1, <2>2 DEF There, Fresh
    <3> QED
      BY <1>4, <3>1
  <2>3. CASE ~There(k)'
    <3>1. PICK c \in Contacts : avatar'[c] = k /\ k # None
      BY <2>3, <2>1 DEF Referenced
    <3>2. c # e /\ avatar[c] = k /\ Fresh(k)
      BY <1>1, <1>10, <3>1 DEF TablesKnow
    <3> QED
      BY <1>4, <3>1, <3>2
  <2> QED
    BY <2>2, <2>3
<1>18. NoDangling'
  BY <1>1, <1>2, <1>14, <1>16, <1>17, DanglingSteps
<1>19. NoStrayObject'
  <2>1. \A k \in objects' \ Referenced' : k \in objects \ Referenced \/ k \in excused'
    <3> SUFFICES ASSUME NEW k \in objects, k \in Referenced, k \notin Referenced'
                 PROVE  k \in excused
      BY <1>2
    <3>1. k \in Keys /\ k \in Entities /\ k \notin desk[d].removed /\ k # None
      BY <1>1, <1>4, <1>15, NoneIsNoRow DEF TypeOK
    <3>2. CASE There(k)
      <4>1. k = e \/ row[k].parent = e
        BY <1>8, <3>1, <3>2 DEF Referenced
      <4>2. CASE k = e
        BY <1>4, <3>1, <4>2, TablesAssumption
      <4>3. CASE row[k].parent = e
        <5>1. e \in Projects /\ k \in FilesOf(e)
          BY <1>1, <3>1, <3>2, <4>3 DEF TypeOK, FilesOf
        <5> QED
          BY <1>4, <3>1, <5>1, TablesAssumption
      <4> QED
        BY <4>1, <4>2, <4>3
    <3>3. CASE ~There(k)
      <4>1. PICK c \in Contacts : avatar[c] = k
        BY <3>3 DEF Referenced
      <4>2. c = e
        <5>1. avatar'[c] # k
          BY <3>1, <4>1 DEF Referenced
        <5> QED
          BY <1>10, <4>1, <5>1
      <4> QED
        BY <1>4, <3>1, <4>1, <4>2, TablesAssumption
    <3> QED
      BY <3>2, <3>3
  <2> QED
    BY <1>1, <1>2, <1>4, <1>14, <1>15, <2>1, StraySteps
<1>20. PatchesKept'
  <2>1. \A x \in Patchable : row'[x].value = row[x].value
    BY <1>6, NoneIsNoRow
  <2> QED
    BY <1>1, <1>2, <2>1 DEF PatchesKept
<1>21. desk[d].phase \notin {"refresh", "audit"}
       /\ desk[d].op \in Ops \union {None} /\ requests' \in 0 .. MaxRequests
  BY <1>1, <1>2, DeskFields DEF TypeOK
<1>22. RowsStay
  BY <1>6 DEF RowsStay, Fresh
<1> QED
  BY <1>2, <1>5, <1>11, <1>12, <1>13, <1>18, <1>19, <1>20, <1>21, <1>22, CommitSteps

-----------------------------------------------------------------------------
(* The specification                                                       *)

LEMMA InitInv ==
    ASSUME Init
    PROVE  WorkspacesInv
<1>1. PICK existing \in SUBSET Existing :
        row = [e \in Entities |->
           [state |-> IF e \in existing THEN "there" ELSE "none", parent |-> None,
            value |-> [c \in Columns |-> CHOOSE v \in Values : TRUE]]]
  BY DEF Init
<1>2. /\ avatar = [c \in Contacts |-> None] /\ linked = {} /\ objects = {} /\ minted = {}
      /\ desk = [d \in Desks |-> Idle] /\ requests = 0 /\ unaudited = 0 /\ lost = <<>>
      /\ last = [e \in Patchable |-> row[e].value] /\ crossed = {} /\ cut = {} /\ excused = {}
  BY DEF Init
<1>3. [c \in Columns |-> CHOOSE v \in Values : TRUE] \in [Columns -> Values]
  BY WorkspacesAssumption
<1>4. /\ row \in [Entities -> Row] /\ \A e \in Entities : row[e].parent = None
      /\ \A e \in Entities : row[e].value \in [Columns -> Values]
  BY <1>1, <1>3 DEF Row
<1>5. \A x \in Children \union Keys : row[x].state = "none" /\ Fresh(x) /\ ~There(x)
  <2>1. \A x \in Children \union Keys : x \notin existing /\ x \in Entities
    BY TablesAssumption, WorkspacesAssumption, NoneIsNoRow
  <2> QED
    BY <1>1, <2>1 DEF Fresh, There
<1>6. \A d \in Desks : desk[d] = Idle
  BY <1>2
<1>7. TypeOK
  <2>1. desk \in [Desks -> DeskType] /\ requests \in 0 .. MaxRequests
    BY <1>2, IdleIsDesk, WorkspacesAssumption
  <2>2. last \in [Patchable -> [Columns -> Values]]
    BY <1>2, <1>4, NoneIsNoRow
  <2> QED
    BY <1>2, <1>4, <1>5, <2>1, <2>2 DEF TypeOK
<1>8. TablesKnow
  BY <1>2, <1>4, <1>5, NoneIsNoRow DEF TablesKnow
<1>9. \A d \in Desks : DeskKnows(d)
  <2> TAKE d \in Desks
  <2>1. (~Uploading(d)) /\ (~OnFile(d)) /\ (~OnProject(d)) /\ (~OnAvatar(d))
    BY <1>6, IdleIsDesk DEF Uploading, OnFile, OnProject, OnAvatar, At
  <2>2. UploadKnows(d) /\ FileKnows(d) /\ ProjectKnows(d) /\ AvatarKnows(d)
    BY <1>6, <2>1, IdleIsDesk DEF UploadKnows, FileKnows, ProjectKnows, AvatarKnows
  <2>3. DeskActs(d) /\ ChildKnows(d) /\ desk[d].removed \intersect objects = {}
    BY <1>6, IdleIsDesk DEF DeskActs, ChildKnows, At
  <2> QED
    BY <2>2, <2>3 DEF DeskKnows
<1>10. KeysApart
  BY <1>6, IdleIsDesk DEF KeysApart
<1>11. NoDangling /\ NoStrayObject
  BY <1>2, <1>5 DEF NoDangling, NoStrayObject, Referenced
<1>12. MutationsAudited
  <2>1. Owing = {}
    BY <1>6, IdleIsDesk DEF Owing
  <2> QED
    BY <1>2, <2>1, FS_EmptySet DEF MutationsAudited
<1>13. PatchesKept
  BY <1>2, <1>4 DEF PatchesKept
<1>14. RefreshKnows
  BY <1>6, IdleIsDesk DEF RefreshKnows, At
<1> QED
  BY <1>7, <1>8, <1>9, <1>10, <1>11, <1>12, <1>13, <1>14 DEF WorkspacesInv

LEMMA ReceivePreserves ==
    ASSUME WorkspacesInv, NEW d \in Desks, ReceiveProject(d) \/ ReceiveContact(d)
    PROVE  WorkspacesInv'
<1>1. /\ Tasks \subseteq Children /\ Notes \subseteq Children /\ Links \subseteq Children
      /\ Projects \subseteq Patchable /\ Tasks \subseteq Patchable /\ Contacts \subseteq Patchable
  BY DEF Children, Patchable
<1>2. ASSUME NEW p \in Projects,
             \/ create_project(d, p) \/ delete_project(d, p) \/ upload_file(d, p)
             \/ \E wish \in Wishes : update_project(d, p, wish)
             \/ \E x \in Children :
                  create_task(d, x, p) \/ create_note(d, x, p) \/ create_link(d, x, p)
      PROVE  WorkspacesInv'
  BY <1>1, <1>2, InsertPreserves, DeleteProjectPreserves, UploadFilePreserves, LoadPreserves,
     AttachPreserves
     DEF create_project, update_project, create_task, create_note, create_link
<1>3. ASSUME NEW x \in Children,
             \/ delete_task(d, x) \/ delete_note(d, x) \/ delete_link(d, x)
             \/ \E wish \in Wishes : update_task(d, x, wish)
      PROVE  WorkspacesInv'
  BY <1>1, <1>3, DetachPreserves, LoadPreserves DEF delete_task, delete_note, delete_link, update_task
<1>4. ASSUME NEW k \in Keys, delete_file(d, k)
      PROVE  WorkspacesInv'
  BY <1>4, DeleteFilePreserves
<1>5. ASSUME NEW c \in Contacts,
             \/ create_contact(d, c) \/ delete_contact(d, c)
             \/ upload_avatar(d, c) \/ delete_avatar(d, c)
             \/ \E wish \in Wishes : update_contact(d, c, wish)
             \/ \E p \in Projects : link_project(d, c, p) \/ unlink_project(d, c, p)
      PROVE  WorkspacesInv'
  BY <1>1, <1>5, InsertPreserves, DeleteAvatarPreserves, UploadAvatarPreserves, LoadPreserves,
     LinkingPreserves
     DEF create_contact, update_contact
<1> QED
  BY <1>2, <1>3, <1>4, <1>5 DEF ReceiveProject, ReceiveContact

LEMMA StutterInv ==
    ASSUME WorkspacesInv, UNCHANGED vars
    PROVE  WorkspacesInv'
<1>1. /\ UNCHANGED <<row, avatar, linked, objects, desk, minted, requests, unaudited, lost,
                     last, crossed, cut, excused>>
  BY DEF vars
<1>2. \A d \in Desks : DeskKnows(d)'
  BY <1>1 DEF WorkspacesInv, DeskKnows, DeskActs, Quiet, UploadKnows, Uploading, FileKnows, OnFile,
              ProjectKnows, OnProject, FilesOf, AvatarKnows, OnAvatar, ChildKnows, At, Fresh, There
<1>3. TypeOK' /\ TablesKnow' /\ KeysApart' /\ RefreshKnows'
  BY <1>1 DEF WorkspacesInv, TypeOK, TablesKnow, KeysApart, RefreshKnows, There, Fresh, At
<1>4. NoDangling' /\ NoStrayObject' /\ PatchesKept' /\ MutationsAudited'
  BY <1>1 DEF WorkspacesInv, NoDangling, NoStrayObject, PatchesKept, MutationsAudited, Referenced,
              download, There, Owing
<1> QED
  BY <1>2, <1>3, <1>4 DEF WorkspacesInv

LEMMA NextInv ==
    ASSUME WorkspacesInv, [Next]_vars
    PROVE  WorkspacesInv'
<1>1. CASE UNCHANGED vars
  BY <1>1, StutterInv
<1>2. ASSUME NEW d \in Desks, ReceiveProject(d) \/ ReceiveContact(d)
      PROVE  WorkspacesInv'
  BY <1>2, ReceivePreserves
<1>3. ASSUME NEW d \in Desks, Serve(d)
      PROVE  WorkspacesInv'
  BY <1>3, InsertChildPreserves, CommitPatchPreserves, InsertLinkPreserves, DeleteLinkPreserves,
     PutObjectPreserves, SelectProjectPreserves, InsertFilePreserves, ListFilesPreserves,
     RemoveObjectPreserves, StoreFailsPreserves, ReselectPreserves, SetAvatarPreserves,
     DeleteRowPreserves, RefreshPreserves, WriteAuditPreserves
     DEF Serve
<1>4. ASSUME NEW d \in Desks, Vanish(d)
      PROVE  WorkspacesInv'
  BY <1>4, VanishPreserves
<1> QED
  BY <1>1, <1>2, <1>3, <1>4 DEF Next

LEMMA Invariance == Spec => []WorkspacesInv
<1>1. Init => WorkspacesInv
  BY InitInv
<1>2. WorkspacesInv /\ [Next]_vars => WorkspacesInv'
  BY NextInv
<1> QED
  BY <1>1, <1>2, PTL DEF Spec

\* Whatever requests of ProjectService, ContactService and FileService overlap,
\* fail or are cut off: what a project_files row or a contact's avatar_minio_key
\* names can be downloaded unless a deletion has come between MinIO and Postgres,
\* no object outlives its row but those of uploads that failed or were overtaken,
\* and no child, file or link refers to a row that is gone.
THEOREM ContentsFollowRows == Spec => []ContentMatchesRows
<1>1. WorkspacesInv => ContentMatchesRows
  BY DEF WorkspacesInv, ContentMatchesRows
<1> QED
  BY <1>1, Invariance, PTL

\* _log_mutation commits after the mutation it records and, where the service reads
\* the row again, after that: the committed mutations without an entry are those of
\* requests about to write it, of requests that were cut off before they did, and
\* of requests whose row another one deleted before session.refresh.
THEOREM MutationsGetEntries == Spec => []MutationsAudited
<1>1. WorkspacesInv => MutationsAudited
  BY DEF WorkspacesInv
<1> QED
  BY <1>1, Invariance, PTL

\* PATCH handlers load a row and set the columns the request names: the UPDATE
\* leaves the other columns to whoever edits them, and a named column holds what
\* was last asked for unless it had changed since the row was read.
THEOREM EditsSurvive == Spec => []PatchesKept
<1>1. WorkspacesInv => PatchesKept
  BY DEF WorkspacesInv
<1> QED
  BY <1>1, Invariance, PTL
=============================================================================
