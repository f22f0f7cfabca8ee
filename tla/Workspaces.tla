------------------------------ MODULE Workspaces ------------------------------
(***************************************************************************)
(* Projects with their tasks, notes, links and files, contacts with their  *)
(* avatars and their links to projects.  Rows live in Postgres; the        *)
(* content of files and avatars lives in MinIO, which takes part in no     *)
(* transaction.                                                            *)
(*                                                                         *)
(* A desk is a request in flight: it interleaves with the others at each   *)
(* await, a SELECT, an object written or removed, a commit, the audit      *)
(* entry.  The session keeps what it has loaded: a second SELECT of a row  *)
(* tells whether it is still there, not what it holds now.                 *)
(***************************************************************************)
EXTENDS Integers, FiniteSets, Sequences

CONSTANTS
    Projects, Contacts,
    Tasks, Notes, Links,    \* the child rows of projects
    Keys,           \* bound: one per upload, the uuid in the object's name
    None,
    Columns,        \* the columns a PATCH may name
    Values,         \* what they may hold
    Existing,       \* the rows there may be at the start
    Desks,          \* concurrent requests
    MaxRequests,    \* bound: requests
    MayVanish       \* desks whose request may be cut off at any await

Children == Tasks \union Notes \union Links
Patchable == Projects \union Tasks \union Contacts
Entities == Patchable \union Children \union Keys

\* Rows of different tables are different rows.
ASSUME TablesAssumption ==
    /\ Projects \intersect Contacts = {}
    /\ (Projects \union Contacts) \intersect (Children \union Keys) = {}
    /\ Children \intersect Keys = {}

ASSUME WorkspacesAssumption ==
    /\ None \notin Entities \union Values
    /\ Existing \subseteq Projects \union Contacts
    /\ Values # {}
    /\ MaxRequests \in Nat /\ MayVanish \subseteq Desks
    /\ IsFiniteSet(Desks)

VARIABLES
    row,        \* row[e]: the row of e; the row of a key is its project_files row
    avatar,     \* avatar[c]: avatar_minio_key
    linked,     \* contact_projects
    objects,    \* MinIO: the keys that have content
    desk,       \* desk[d]: the request handled there
    minted,     \* the keys that are taken
    requests,   \* number of requests so far
    unaudited,  \* commits that have no audit entry yet
    lost,       \* history: why commits stay without an entry: the desk that vanished, or
                \* the row that was deleted before its request had read it again
    last,       \* history: last[e][c]: what the last PATCH that named c wanted
    crossed,    \* history: <<e, c>> was changed between the read and the PATCH
    cut,        \* history: keys of deletions that ended after removing content
    excused     \* history: keys of uploads that failed or were overtaken

vars == <<row, avatar, linked, objects, desk, minted, requests, unaudited, lost,
          last, crossed, cut, excused>>

-----------------------------------------------------------------------------
(* State                                                                   *)

Row == [state : {"none", "there", "gone"}, parent : Projects \union {None},
        value : [Columns -> Values]]

There(e) == row[e].state = "there"
Fresh(e) == row[e].state = "none"
FilesOf(p) == {k \in Keys : There(k) /\ row[k].parent = p}

\* The keys some row names.
Referenced == {k \in Keys : There(k)} \union ({avatar[c] : c \in Contacts} \ {None})

Ops == {"create", "patch", "delete_child", "delete_project", "upload_file",
        "delete_file", "upload_avatar", "delete_avatar", "delete_contact",
        "link_project", "unlink_project"}

Phases == {"insert", "patch", "list", "put", "select", "insert_file", "reselect",
           "remove", "delete", "avatar", "link", "unlink", "refresh", "audit"}

\* key: the object of an upload; doomed: the objects still to be removed;
\* removed: those removed before the commit; seen: the row as it was loaded;
\* old: the avatar as it was loaded; wish: the columns of a PATCH, None unnamed.
Idle == [phase |-> "idle", op |-> None, target |-> None, parent |-> None, key |-> None,
         doomed |-> {}, removed |-> {}, seen |-> None, old |-> None, wish |-> None]

Request(phase, op, target) ==
    [Idle EXCEPT !.phase = phase, !.op = op, !.target = target]

At(d, phase) == desk[d].phase = phase
Busy(d) == ~At(d, "idle")
Go(d, request) == desk' = [desk EXCEPT ![d] = request]
End(d) == Go(d, Idle)
Next_phase(d, phase) == Go(d, [desk[d] EXCEPT !.phase = phase])

\* A mutation is committed; its audit entry is a second commit.
Committed(d, request) ==
    /\ Go(d, request)
    /\ unaudited' = unaudited + 1

Entry(op, e) == Request("audit", op, e)

\* What inserts a row or changes one reads it again before the entry.
Reread(op, e) == Request("refresh", op, e)

\* Between the commit and the audit entry.
Owing == {d \in Desks : desk[d].phase \in {"refresh", "audit"}}

Init ==
    /\ \E existing \in SUBSET Existing :
         row = [e \in Entities |->
           [state |-> IF e \in existing THEN "there" ELSE "none", parent |-> None,
            value |-> [c \in Columns |-> CHOOSE v \in Values : TRUE]]]
    /\ avatar = [c \in Contacts |-> None]
    /\ linked = {}
    /\ objects = {}
    /\ minted = {}
    /\ desk = [d \in Desks |-> Idle]
    /\ requests = 0
    /\ unaudited = 0 /\ lost = <<>>
    /\ last = [e \in Patchable |-> row[e].value]
    /\ crossed = {} /\ cut = {} /\ excused = {}

Begin(d) ==
    /\ ~Busy(d)
    /\ requests < MaxRequests
    /\ requests' = requests + 1

history == <<lost, last, crossed, cut, excused>>
rows == <<row, avatar, linked>>

-----------------------------------------------------------------------------
(* Rows without content                                                    *)

Insert(d, e) ==
    /\ Begin(d)
    /\ Fresh(e)
    /\ row' = [row EXCEPT ![e].state = "there"]
    /\ Committed(d, Reread("create", e))
    /\ UNCHANGED <<avatar, linked, objects, minted, history>>

create_project(d, p) == p \in Projects /\ Insert(d, p)
create_contact(d, c) == c \in Contacts /\ Insert(d, c)

\* get_project; the INSERT comes later.
Attach(d, x, p) ==
    /\ Begin(d)
    /\ Fresh(x) /\ There(p)
    /\ Go(d, [Request("insert", "create", x) EXCEPT !.parent = p])
    /\ UNCHANGED <<rows, objects, minted, unaudited, history>>

create_task(d, x, p) == x \in Tasks /\ Attach(d, x, p)
create_note(d, x, p) == x \in Notes /\ Attach(d, x, p)
create_link(d, x, p) == x \in Links /\ Attach(d, x, p)

\* The foreign key refuses a row whose project is gone; the request fails.
InsertChild(d) ==
    /\ At(d, "insert")
    /\ LET x == desk[d].target
           p == desk[d].parent
       IN IF There(p) /\ Fresh(x)
          THEN /\ row' = [row EXCEPT ![x].state = "there", ![x].parent = p]
               /\ Committed(d, Reread("create", x))
          ELSE End(d) /\ UNCHANGED <<row, unaudited>>
    /\ UNCHANGED <<avatar, linked, objects, minted, requests, history>>

\* Load the row, set what the request names.  A null for a column that may not
\* be null is ignored.
Load(d, e, wish) ==
    /\ Begin(d)
    /\ There(e)
    /\ Go(d, [Request("patch", "patch", e) EXCEPT !.seen = row[e].value, !.wish = wish])
    /\ UNCHANGED <<rows, objects, minted, unaudited, history>>

update_project(d, p, wish) == p \in Projects /\ Load(d, p, wish)
update_task(d, t, wish) == t \in Tasks /\ Load(d, t, wish)
update_contact(d, c, wish) == c \in Contacts /\ Load(d, c, wish)

Named(d) == {c \in Columns : desk[d].wish[c] # None}

\* Mutant: the whole row is written back as it was loaded.
CommitWholeRow(d) ==
    /\ At(d, "patch")
    /\ LET e == desk[d].target
           wish == desk[d].wish
           seen == desk[d].seen
       IN IF There(e)
          THEN /\ row' = [row EXCEPT ![e].value = [c \in Columns |->
                            IF c \in Named(d) THEN wish[c] ELSE seen[c]]]
               /\ last' = [last EXCEPT ![e] = [c \in Columns |->
                            IF c \in Named(d) THEN wish[c] ELSE last[e][c]]]
               /\ crossed' = crossed \union
                    {<<e, c>> : c \in {n \in Named(d) : row[e].value[n] # seen[n]}}
               /\ Committed(d, Reread("patch", e))
          ELSE End(d) /\ UNCHANGED <<row, unaudited, last, crossed>>
    /\ UNCHANGED <<avatar, linked, objects, minted, requests, lost, cut, excused>>

\* The UPDATE carries the columns whose value differs from the loaded one; a
\* row that is gone makes the flush fail.
CommitPatch(d) ==
    /\ At(d, "patch")
    /\ LET e == desk[d].target
           wish == desk[d].wish
           seen == desk[d].seen
       IN IF There(e)
          THEN /\ row' = [row EXCEPT ![e].value = [c \in Columns |->
                            IF c \in Named(d) /\ wish[c] # seen[c] THEN wish[c] ELSE row[e].value[c]]]
               /\ last' = [last EXCEPT ![e] = [c \in Columns |->
                            IF c \in Named(d) THEN wish[c] ELSE last[e][c]]]
               /\ crossed' = crossed \union
                    {<<e, c>> : c \in {n \in Named(d) : row[e].value[n] # seen[n]}}
               /\ Committed(d, Reread("patch", e))
          ELSE End(d) /\ UNCHANGED <<row, unaudited, last, crossed>>
    /\ UNCHANGED <<avatar, linked, objects, minted, requests, lost, cut, excused>>

Detach(d, x) ==
    /\ Begin(d)
    /\ There(x)
    /\ Go(d, Request("delete", "delete_child", x))
    /\ UNCHANGED <<rows, objects, minted, unaudited, history>>

delete_task(d, x) == x \in Tasks /\ Detach(d, x)
delete_note(d, x) == x \in Notes /\ Detach(d, x)
delete_link(d, x) == x \in Links /\ Detach(d, x)

-----------------------------------------------------------------------------
(* Links between contacts and projects                                     *)

\* Contact and project are loaded, an existing link is a conflict.
link_project(d, c, p) ==
    /\ Begin(d)
    /\ There(c) /\ There(p) /\ <<c, p>> \notin linked
    /\ Go(d, [Request("link", "link_project", c) EXCEPT !.parent = p])
    /\ UNCHANGED <<rows, objects, minted, unaudited, history>>

\* Mutant: the request answers before its audit entry.
InsertLinkOnly(d) ==
    /\ At(d, "link")
    /\ LET link == <<desk[d].target, desk[d].parent>>
       IN IF There(link[1]) /\ There(link[2]) /\ link \notin linked
          THEN linked' = linked \union {link} /\ unaudited' = unaudited + 1
          ELSE UNCHANGED <<linked, unaudited>>
    /\ End(d)
    /\ UNCHANGED <<row, avatar, objects, minted, requests, history>>

\* The keys of the table refuse a second link and one without its rows.
InsertLink(d) ==
    /\ At(d, "link")
    /\ LET link == <<desk[d].target, desk[d].parent>>
       IN IF There(link[1]) /\ There(link[2]) /\ link \notin linked
          THEN linked' = linked \union {link} /\ Committed(d, Entry("link_project", link[1]))
          ELSE End(d) /\ UNCHANGED <<linked, unaudited>>
    /\ UNCHANGED <<row, avatar, objects, minted, requests, history>>

unlink_project(d, c, p) ==
    /\ Begin(d)
    /\ There(c) /\ <<c, p>> \in linked
    /\ Go(d, [Request("unlink", "unlink_project", c) EXCEPT !.parent = p])
    /\ UNCHANGED <<rows, objects, minted, unaudited, history>>

DeleteLink(d) ==
    /\ At(d, "unlink")
    /\ linked' = linked \ {<<desk[d].target, desk[d].parent>>}
    /\ Committed(d, Entry("unlink_project", desk[d].target))
    /\ UNCHANGED <<row, avatar, objects, minted, requests, history>>

-----------------------------------------------------------------------------
(* Content                                                                 *)

NewKey == CHOOSE k \in Keys : k \notin minted

\* The request ends with an error: what it removed is removed, and what it
\* uploaded stays where it is.
Fail(d) ==
    /\ End(d)
    /\ cut' = cut \union desk[d].removed
    /\ excused' = excused \union ({desk[d].key} \ {None})

\* FileService.upload_file comes first: the project is looked up afterwards.
upload_file(d, p) ==
    /\ Begin(d)
    /\ Keys \ minted # {}
    /\ minted' = minted \union {NewKey}
    /\ Go(d, [Request("put", "upload_file", p) EXCEPT !.key = NewKey])
    /\ UNCHANGED <<rows, objects, unaudited, history>>

upload_avatar(d, c) ==
    /\ Begin(d)
    /\ There(c)
    /\ Keys \ minted # {}
    /\ minted' = minted \union {NewKey}
    /\ Go(d, [Request("put", "upload_avatar", c) EXCEPT !.key = NewKey, !.old = avatar[c]])
    /\ UNCHANGED <<rows, objects, unaudited, history>>

PutObject(d) ==
    /\ At(d, "put")
    /\ objects' = objects \union {desk[d].key}
    /\ Next_phase(d, IF desk[d].op = "upload_file" THEN "select" ELSE "reselect")
    /\ UNCHANGED <<rows, requests, minted, unaudited, history>>

\* create_file: get_project, then INSERT under the foreign key.
SelectProject(d) ==
    /\ At(d, "select")
    /\ IF There(desk[d].target) THEN Next_phase(d, "insert_file") /\ UNCHANGED <<cut, excused>>
       ELSE Fail(d)
    /\ UNCHANGED <<rows, objects, requests, minted, unaudited, lost, last, crossed>>

\* A deletion of the project that has listed its files already.
Deleting(p) ==
    \E e \in Desks : desk[e].op = "delete_project" /\ desk[e].target = p
                     /\ desk[e].phase \in {"remove", "delete"}

InsertFile(d) ==
    /\ At(d, "insert_file")
    /\ LET k == desk[d].key
           p == desk[d].target
       IN IF There(p)
          THEN /\ row' = [row EXCEPT ![k].state = "there", ![k].parent = p]
               /\ excused' = IF Deleting(p) THEN excused \union {k} ELSE excused
               /\ Committed(d, Reread("upload_file", k))
               /\ UNCHANGED cut
          ELSE Fail(d) /\ UNCHANGED <<row, unaudited>>
    /\ UNCHANGED <<avatar, linked, objects, requests, minted, lost, last, crossed>>

\* What follows the removal of content.
After == [delete_project |-> "delete", delete_file |-> "reselect", delete_contact |-> "delete",
          upload_avatar |-> "avatar", delete_avatar |-> "avatar"]

\* Remove the keys, one call each.
Doom(d, request, keys) ==
    Go(d, [request EXCEPT !.doomed = keys,
                          !.phase = IF keys = {} THEN After[request.op] ELSE "remove"])

delete_project(d, p) ==
    /\ Begin(d)
    /\ There(p)
    /\ Go(d, Request("list", "delete_project", p))
    /\ UNCHANGED <<rows, objects, minted, unaudited, history>>

\* Mutant: only the rows go, the content stays.
ListNoFiles(d) ==
    /\ At(d, "list")
    /\ IF There(desk[d].target) THEN Doom(d, desk[d], {}) ELSE End(d)
    /\ UNCHANGED <<rows, objects, requests, minted, unaudited, history>>

\* list_files looks the project up again.
ListFiles(d) ==
    /\ At(d, "list")
    /\ IF There(desk[d].target) THEN Doom(d, desk[d], FilesOf(desk[d].target)) ELSE End(d)
    /\ UNCHANGED <<rows, objects, requests, minted, unaudited, history>>

delete_file(d, k) ==
    /\ Begin(d)
    /\ There(k)
    /\ Doom(d, Request("remove", "delete_file", k), {k})
    /\ UNCHANGED <<rows, objects, minted, unaudited, history>>

delete_avatar(d, c) ==
    /\ Begin(d)
    /\ There(c)
    /\ Doom(d, [Request("remove", "delete_avatar", c) EXCEPT !.old = avatar[c]],
            {avatar[c]} \ {None})
    /\ UNCHANGED <<rows, objects, minted, unaudited, history>>

delete_contact(d, c) ==
    /\ Begin(d)
    /\ There(c)
    /\ Doom(d, [Request("remove", "delete_contact", c) EXCEPT !.old = avatar[c]],
            {avatar[c]} \ {None})
    /\ UNCHANGED <<rows, objects, minted, unaudited, history>>

\* FileService.delete_file; an object that is not there counts as removed.
RemoveObject(d) ==
    /\ At(d, "remove")
    /\ \E k \in desk[d].doomed :
         /\ objects' = objects \ {k}
         /\ Doom(d, [desk[d] EXCEPT !.removed = @ \union {k}], desk[d].doomed \ {k})
    /\ UNCHANGED <<rows, requests, minted, unaudited, history>>

\* MinIO answers with an error.
StoreFails(d) ==
    /\ desk[d].phase \in {"put", "remove"}
    /\ Fail(d)
    /\ UNCHANGED <<rows, objects, requests, minted, unaudited, lost, last, crossed>>

\* set_avatar and delete_file_record load the row once more.  It is the old
\* avatar as it was loaded the first time that set_avatar removes.
Reselect(d) ==
    /\ At(d, "reselect")
    /\ IF ~There(desk[d].target) THEN Fail(d)
       ELSE /\ UNCHANGED <<cut, excused>>
            /\ IF desk[d].op = "upload_avatar" THEN Doom(d, desk[d], {desk[d].old} \ {None})
               ELSE Next_phase(d, "delete")
    /\ UNCHANGED <<rows, objects, requests, minted, unaudited, lost, last, crossed>>

\* Another request that has loaded the avatar this one is about to replace.
Overtaken(d) ==
    \E e \in Desks \ {d} : desk[e].op \in {"upload_avatar", "delete_avatar", "delete_contact"}
                           /\ desk[e].target = desk[d].target /\ e \notin Owing

\* UPDATE contacts; clearing an avatar that was loaded as NULL changes nothing.
SetAvatar(d) ==
    /\ At(d, "avatar")
    /\ LET c == desk[d].target
       IN IF There(c)
          THEN /\ avatar' = IF desk[d].op = "upload_avatar" \/ desk[d].old # None
                            THEN [avatar EXCEPT ![c] = desk[d].key] ELSE avatar
               /\ excused' = excused \union
                    (IF Overtaken(d) THEN {desk[d].key} \ {None} ELSE {})
               /\ Committed(d, Reread(desk[d].op, c))
               /\ UNCHANGED cut
          ELSE Fail(d) /\ UNCHANGED <<avatar, unaudited>>
    /\ UNCHANGED <<row, linked, objects, requests, minted, lost, last, crossed>>

\* The row goes, and with it what refers to it: ON DELETE CASCADE.  A row that
\* is gone already is no error.
DeleteRow(d) ==
    /\ At(d, "delete")
    /\ LET e == desk[d].target
           Goes(x) == x = e \/ (There(x) /\ row[x].parent = e)
       IN /\ row' = [x \in Entities |->
                       IF Goes(x) THEN [row[x] EXCEPT !.state = "gone", !.parent = None]
                       ELSE row[x]]
          /\ avatar' = [c \in Contacts |-> IF c = e THEN None ELSE avatar[c]]
          /\ linked' = {link \in linked : link[1] # e /\ link[2] # e}
    /\ Committed(d, Entry(desk[d].op, desk[d].target))
    /\ UNCHANGED <<objects, requests, minted, history>>

-----------------------------------------------------------------------------

\* session.refresh: a row that another request has deleted since the commit
\* makes it raise.  The request fails, and nothing is logged.
Refresh(d) ==
    /\ At(d, "refresh")
    /\ IF There(desk[d].target) THEN Next_phase(d, "audit") /\ UNCHANGED lost
       ELSE End(d) /\ lost' = Append(lost, desk[d].target)
    /\ UNCHANGED <<rows, objects, requests, minted, unaudited, last, crossed, cut, excused>>

\* _log_mutation.
WriteAudit(d) ==
    /\ At(d, "audit")
    /\ unaudited' = unaudited - 1
    /\ End(d)
    /\ UNCHANGED <<rows, objects, requests, minted, history>>

\* The client is gone or the process dies.
Vanish(d) ==
    /\ d \in MayVanish
    /\ Busy(d)
    /\ lost' = IF d \in Owing THEN Append(lost, d) ELSE lost
    /\ Fail(d)
    /\ UNCHANGED <<rows, objects, requests, minted, unaudited, last, crossed>>

Wishes == [Columns -> Values \union {None}] \ {[c \in Columns |-> None]}

ReceiveProject(d) ==
    \/ \E p \in Projects :
         \/ create_project(d, p) \/ delete_project(d, p) \/ upload_file(d, p)
         \/ \E wish \in Wishes : update_project(d, p, wish)
         \/ \E x \in Children :
              create_task(d, x, p) \/ create_note(d, x, p) \/ create_link(d, x, p)
    \/ \E x \in Children :
         \/ delete_task(d, x) \/ delete_note(d, x) \/ delete_link(d, x)
         \/ \E wish \in Wishes : update_task(d, x, wish)
    \/ \E k \in Keys : delete_file(d, k)

ReceiveContact(d) ==
    \E c \in Contacts :
      \/ create_contact(d, c) \/ delete_contact(d, c)
      \/ upload_avatar(d, c) \/ delete_avatar(d, c)
      \/ \E wish \in Wishes : update_contact(d, c, wish)
      \/ \E p \in Projects : link_project(d, c, p) \/ unlink_project(d, c, p)

Serve(d) ==
    \/ InsertChild(d) \/ CommitPatch(d) \/ InsertLink(d) \/ DeleteLink(d)
    \/ PutObject(d) \/ SelectProject(d) \/ InsertFile(d)
    \/ ListFiles(d) \/ RemoveObject(d) \/ StoreFails(d)
    \/ Reselect(d) \/ SetAvatar(d) \/ DeleteRow(d) \/ Refresh(d) \/ WriteAudit(d)

Next == \E d \in Desks : ReceiveProject(d) \/ ReceiveContact(d) \/ Serve(d) \/ Vanish(d)

Spec == Init /\ [][Next]_vars

-----------------------------------------------------------------------------
(* Properties                                                              *)

DeskType == [phase : Phases \union {"idle"}, op : Ops \union {None},
             target : Entities \union {None}, parent : Projects \union {None},
             key : Keys \union {None}, doomed : SUBSET Keys, removed : SUBSET Keys,
             seen : [Columns -> Values] \union {None}, old : Keys \union {None},
             wish : Wishes \union {None}]

\* The types, and what the foreign keys keep: no child, file or link without
\* the rows it refers to, whoever deletes them meanwhile.
TypeOK ==
    /\ row \in [Entities -> Row]
    /\ \A x \in Children \union Keys : There(x) => row[x].parent \in Projects /\ There(row[x].parent)
    /\ avatar \in [Contacts -> Keys \union {None}]
    /\ linked \subseteq {link \in Contacts \X Projects : There(link[1]) /\ There(link[2])}
    /\ objects \subseteq minted /\ minted \subseteq Keys
    /\ desk \in [Desks -> DeskType]
    /\ requests \in 0 .. MaxRequests
    /\ unaudited \in Nat /\ lost \in Seq(MayVanish \union Entities)
    /\ last \in [Patchable -> [Columns -> Values]]
    /\ crossed \subseteq Patchable \X Columns
    /\ cut \subseteq Keys /\ excused \subseteq Keys

\* download_file and download_avatar: 404 without a row or without content.
download(k) == k \in Referenced /\ k \in objects

\* What a row promises can be downloaded, except while a request that deletes
\* it is between MinIO and Postgres, or after one was cut off there.
NoDangling ==
    \A k \in Referenced :
      download(k) \/ k \in cut \/ \E d \in Desks : k \in desk[d].removed

\* No content outlives its row unseen: an object no row names belongs to an
\* upload in flight, to one that failed after MinIO had it, or to one that a
\* request with an older view of the project or contact has overtaken.
NoStrayObject ==
    \A k \in objects \ Referenced : k \in excused \/ \E d \in Desks : desk[d].key = k

\* Every committed mutation gets an entry, over all kinds of requests, or is
\* about to, with two exceptions: the request is cut off between the two
\* commits, or another request deletes the row before this one has read it
\* again.  No entry is missing for a change of a row that still exists unless
\* its client or process is gone.
MutationsAudited ==
    /\ unaudited = Len(lost) + Cardinality(Owing)
    /\ \A i \in DOMAIN lost : lost[i] \in MayVanish \/ row[lost[i]].state = "gone"

\* Two requests that edit different columns of a row do not undo each other.
\* A column differs from what was last asked for only if it had changed after
\* the request read it: then setting it to the value read does nothing.
PatchesKept ==
    \A e \in Patchable, c \in Columns :
      row[e].value[c] # last[e][c] => <<e, c>> \in crossed

\* Rows and contents belong together in both directions, and rows to their
\* parents, over uploads, deletions and avatars that overlap or are cut off.
ContentMatchesRows == TypeOK /\ NoDangling /\ NoStrayObject
=============================================================================
