------------------------------- MODULE Links -------------------------------
(***************************************************************************)
(* File links between servers and proxies (handlers/links.go) and the file *)
(* handlers that look at them.  A link is a row and a relative symlink at   *)
(* its target; the container mounts the source over it.  Nothing ties the  *)
(* two together but the handlers: creating and unlinking take several      *)
(* steps that a crash, or another request, can come between.               *)
(***************************************************************************)
EXTENDS Naturals, Sequences, FiniteSets

CONSTANTS
    LinkServers, LinkProxies,  \* the entities that have directories
    LinkFiles,                 \* names in the directory "d" each of them has
    LinkRequests,              \* requests that can be under way
    LinkUsers,                 \* kinds of requests, whether they overlap,
                               \* whether steps fail, and a bound: how many
    LinkNone

ASSUME LinkAssumption == LinkServers \cap LinkProxies = {}

LinkEntities == LinkServers \cup LinkProxies

LinkPaths == {<<"d">>} \cup {<<"d", f>> : f \in LinkFiles}

Places == [ent : LinkEntities, path : LinkPaths]

VARIABLES
    disk,       \* what is at a place: LinkNone, Dir, a file or a symlink
    links,      \* rows of file_links: [source, target]
    entities,   \* entities that have a row
    mounts,     \* what a running entity's container has mounted, else LinkNone
    job,        \* the Create or the Unlink a request is in the middle of
    linkUsers, linkAsked

linkVars == <<disk, links, entities, mounts, job, linkUsers, linkAsked>>

-----------------------------------------------------------------------------
(* Places *)

Dir == [kind |-> "dir"]

File(c) == [kind |-> "file", of |-> c]

Symlink(l) == [kind |-> "link", to |-> l]

Is(x, kind) == x # LinkNone /\ x.kind = kind

IsDir(x) == Is(x, "dir")

IsFile(x) == Is(x, "file")

IsSymlink(x) == Is(x, "link")

Place(e, p) == [ent |-> e, path |-> p]

(* Where the system ends up when it follows every symlink, at most k.  A    *)
(* directory's place is enough to find the files in it.                     *)
Followed ==
    LET on[k \in 0 .. Cardinality(Places), l \in Places] ==
            LET dir == on[k - 1, Place(l.ent, <<"d">>)]
                at == IF Len(l.path) = 1 THEN l
                      ELSE IF dir # LinkNone /\ IsDir(disk[dir])
                           THEN Place(dir.ent, l.path) ELSE LinkNone
            IN  IF k = 0 \/ at = LinkNone THEN LinkNone
                ELSE IF IsSymlink(disk[at]) THEN on[k - 1, disk[at].to]
                ELSE IF disk[at] = LinkNone THEN LinkNone ELSE at
    IN  on

Stat(l) == Followed[Cardinality(Places), l]

(* The place itself: symlinks are followed on the way to it, not at it.     *)
Lplace(l) ==
    LET dir == Stat(Place(l.ent, <<"d">>))
    IN  IF Len(l.path) = 1 THEN l
        ELSE IF dir # LinkNone /\ IsDir(disk[dir])
             THEN Place(dir.ent, l.path) ELSE LinkNone

Exists(l) == Lplace(l) # LinkNone /\ disk[Lplace(l)] # LinkNone

ParentIsDir(l) == Len(l.path) = 1 \/ Lplace(l) # LinkNone

(* pathIsUnder *)
Under(dir, l) ==
    /\ l.ent = dir.ent
    /\ Len(dir.path) <= Len(l.path)
    /\ SubSeq(l.path, 1, Len(dir.path)) = dir.path

-----------------------------------------------------------------------------
(* Queries on the rows *)

LinkAt(l) == {r \in links : r.target = l}

LinksUnder(l) == {r \in links : Under(l, r.target)}

LinksInto(e) == {r \in links : r.target.ent = e}

(* Mutant: only links from the very path. *)
DependentsOnPath(l) == {r \in links : r.source = l}

DependentsOnSource(l) == {r \in links : Under(l, r.source)}

(* removeLinkOnDisk: only what still is a symlink is removed. *)
Unlinked(d, rs) ==
    [l \in Places |->
        IF \E r \in rs : /\ r.target.ent \in entities
                         /\ Lplace(r.target) = l
        THEN IF IsSymlink(d[l]) THEN LinkNone ELSE d[l]
        ELSE d[l]]

(* LinksToMounts: at a start, the links whose source is there. *)
LinksToMounts(e) ==
    {r \in LinksInto(e) : r.source.ent \in entities /\ Stat(r.source) # LinkNone}

(* Mutant: what a symlink leads to goes too. *)
RemovedThrough(d, l) ==
    IF l = LinkNone \/ Stat(l) = LinkNone THEN d
    ELSE [x \in Places |-> IF x = l \/ Under(Stat(l), x) THEN LinkNone ELSE d[x]]

(* RemoveAll: a directory goes with what is in it, a symlink alone. *)
Removed(d, l) ==
    IF l = LinkNone THEN d
    ELSE [x \in Places |-> IF x = l \/ (IsDir(d[l]) /\ Under(l, x))
                           THEN LinkNone ELSE d[x]]

-----------------------------------------------------------------------------
(* Requests *)

Running == {e \in LinkEntities : mounts[e] # LinkNone}

LinkIdle == {q \in LinkRequests : job[q] = LinkNone}

Ask(kind) ==
    /\ kind \in linkUsers.ops
    /\ IF linkUsers.overlap THEN LinkIdle # {} ELSE LinkIdle = LinkRequests
    /\ linkAsked < linkUsers.most
    /\ linkAsked' = linkAsked + 1
    /\ UNCHANGED linkUsers

Goes(j) == job' = [job EXCEPT ![CHOOSE q \in LinkIdle : TRUE] = j]

Continues == UNCHANGED <<linkUsers, linkAsked>>

(* A path below a linked directory reaches the other side's data; only      *)
(* users that make "nested" requests ask for one.  Directories are linked   *)
(* to a directory's place and files to a file's: there are two levels.      *)
Asks(l) ==
    \/ "nested" \in linkUsers.ops
    \/ Len(l.path) = 1
    \/ ~IsSymlink(disk[Place(l.ent, <<"d">>)])

CreateLink ==
    \E s \in Places, l \in Places :
        /\ Asks(s) /\ Asks(l) /\ Len(s.path) = Len(l.path)
        /\ Ask("create")
        /\ {s.ent, l.ent} \subseteq entities /\ s.ent # l.ent
        /\ l.ent \notin Running
        /\ Exists(s) /\ ~Exists(l) /\ ParentIsDir(l)
        /\ LinksUnder(s) = {} /\ LinksUnder(l) = {}
        /\ disk' = [disk EXCEPT ![Lplace(l)] = Symlink(s)]
        /\ Goes([do |-> "insert", link |-> [source |-> s, target |-> l]])
        /\ UNCHANGED <<links, entities, mounts>>

(* Mutant: two rows can have one target. *)
InsertLinkAgain(q) ==
    /\ job[q] # LinkNone /\ job[q].do = "insert"
    /\ links' = links \cup {job[q].link}
    /\ job' = [job EXCEPT ![q] = LinkNone]
    /\ Continues /\ UNCHANGED <<disk, entities, mounts>>

(* Two rows cannot have one target: then the symlink is taken back. *)
InsertLink(q) ==
    LET r == job[q].link  at == Lplace(r.target)
        fits == LinkAt(r.target) = {}
    IN  /\ job[q] # LinkNone /\ job[q].do = "insert"
        /\ \/ /\ fits
              /\ links' = links \cup {r}
              /\ UNCHANGED disk
           \/ /\ ~fits \/ linkUsers.failing
              /\ disk' = IF at = LinkNone \/ IsDir(disk[at]) THEN disk
                         ELSE [disk EXCEPT ![at] = LinkNone]
              /\ UNCHANGED links
        /\ job' = [job EXCEPT ![q] = LinkNone]
        /\ Continues /\ UNCHANGED <<entities, mounts>>

DeleteLink ==
    \E r \in links :
        /\ Ask("delete")
        /\ r.target.ent \in entities \ Running
        /\ disk' = Unlinked(disk, {r})
        /\ links' = links \ {r}
        /\ UNCHANGED <<entities, mounts, job>>

(* The source is copied next to the target, regular files only. *)
CopyOf(at) ==
    [l \in {x \in Places : Under(at, x)} |->
        IF l = at \/ IsFile(disk[l]) THEN disk[l] ELSE LinkNone]

UnlinkLink ==
    \E r \in links :
        LET at == Lplace(r.source) IN
        /\ Ask("unlink")
        /\ r.target.ent \in entities \ Running
        /\ r.source.ent \in entities /\ Exists(r.source)
        /\ IsDir(disk[at]) \/ IsFile(disk[at])
        /\ ParentIsDir(r.target)
        /\ Goes([do |-> "remove", link |-> r, from |-> at, copy |-> CopyOf(at)])
        /\ UNCHANGED <<disk, links, entities, mounts>>

RemoveSymlink(q) ==
    /\ job[q] # LinkNone /\ job[q].do = "remove"
    /\ disk' = Unlinked(disk, {job[q].link})
    /\ job' = [job EXCEPT ![q].do = "place"]
    /\ Continues /\ UNCHANGED <<links, entities, mounts>>

(* The copy is renamed to the target: a directory with its files, and only  *)
(* where nothing is; a file also over a file.                               *)
PlaceCopy(q) ==
    LET at == Lplace(job[q].link.target)
        from == job[q].from
        fits == /\ at # LinkNone /\ ~IsDir(disk[at])
                /\ IsDir(job[q].copy[from]) => disk[at] = LinkNone
    IN  /\ job[q] # LinkNone /\ job[q].do = "place"
        /\ \/ /\ fits
              /\ disk' = [l \in Places |->
                    IF l = at THEN job[q].copy[from]
                    ELSE IF Under(at, l) THEN job[q].copy[Place(from.ent, l.path)]
                    ELSE disk[l]]
              /\ links' = links \ {job[q].link}
           \/ /\ ~fits \/ linkUsers.failing
              /\ UNCHANGED <<disk, links>>
        /\ job' = [job EXCEPT ![q] = LinkNone]
        /\ Continues /\ UNCHANGED <<entities, mounts>>

-----------------------------------------------------------------------------
(* The file handlers, the same for servers and proxies *)

(* The row at the path goes first, whatever comes of the request; then data *)
(* that others link from needs force, which takes their links away.         *)
DeletePath(e) ==
    \E l \in {x \in Places : x.ent = e}, force \in BOOLEAN :
        LET dependents == DependentsOnSource(l)
            refused == dependents # {} /\ ~force
        IN  /\ Asks(l)
            /\ Ask("deleteFile") /\ e \in entities
            /\ Exists(l) \/ LinksUnder(l) # {}
            /\ force => dependents # {}
            /\ disk' = IF refused THEN disk
                       ELSE Removed(Unlinked(disk, dependents), Lplace(l))
            /\ links' = IF refused THEN links \ LinkAt(l)
                        ELSE (links \ dependents) \ LinksUnder(l)
            /\ UNCHANGED <<entities, mounts, job>>

DeleteServerFile == \E e \in LinkServers : DeletePath(e)

DeleteProxyFile == \E e \in LinkProxies : DeletePath(e)

(* Only the old path is looked up: a rename replaces what is at the new one. *)
RenamePath(e) ==
    \E f, g \in LinkFiles :
        LET old == Place(e, <<"d", f>>)  new == Place(e, <<"d", g>>) IN
        /\ f # g /\ Asks(old)
        /\ "renameOnto" \in linkUsers.ops \/ LinkAt(new) = {}
        /\ Ask("rename") /\ e \in entities
        /\ LinksUnder(old) = {} /\ DependentsOnSource(old) = {}
        /\ Exists(old)
        /\ disk' = [disk EXCEPT ![Lplace(new)] = disk[Lplace(old)],
                                ![Lplace(old)] = LinkNone]
        /\ UNCHANGED <<links, entities, mounts, job>>

RenameServerFile == \E e \in LinkServers : RenamePath(e)

RenameProxyFile == \E e \in LinkProxies : RenamePath(e)

(* Opening a file for writing follows a symlink, also one to nothing. *)
WriteAt(l) ==
    /\ Asks(l)
    /\ l.ent \in entities /\ Len(l.path) = 2
    /\ LET at == Lplace(l)
           to == IF at # LinkNone /\ IsSymlink(disk[at]) THEN Lplace(disk[at].to)
                 ELSE at
       IN  /\ to # LinkNone /\ disk[to] = LinkNone
           /\ disk' = [disk EXCEPT ![to] = File(to)]

WriteFileContent ==
    \E l \in Places :
        /\ Ask("write") /\ WriteAt(l)
        /\ UNCHANGED <<links, entities, mounts, job>>

(* An upload makes the directory it is for, unless a symlink is in the way. *)
UploadFile ==
    \E e \in entities, f \in LinkFiles :
        LET dir == Place(e, <<"d">>) IN
        /\ Ask("upload")
        /\ disk[dir] = LinkNone
        /\ disk' = [disk EXCEPT ![dir] = Dir,
                                ![Place(e, <<"d", f>>)] = File(Place(e, <<"d", f>>))]
        /\ UNCHANGED <<links, entities, mounts, job>>

-----------------------------------------------------------------------------
(* Servers and proxies *)

(* The directory goes, then CleanupEntityDeleted, then the row.  What linked *)
(* from the entity is detached.                                              *)
DeleteEntity ==
    \E e \in entities :
        LET out == {r \in links : r.source.ent = e}
            gone == [l \in Places |-> IF l.ent = e THEN LinkNone ELSE disk[l]]
        IN  /\ Ask("deleteEntity")
            /\ disk' = Unlinked(gone, out)
            /\ links' = (links \ out) \ LinksInto(e)
            /\ entities' = entities \ {e}
            /\ mounts' = [mounts EXCEPT ![e] = LinkNone]
            /\ UNCHANGED job

StartEntity ==
    \E e \in entities \ Running :
        /\ Ask("start")
        /\ mounts' = [mounts EXCEPT ![e] = LinksToMounts(e)]
        /\ UNCHANGED <<disk, links, entities, job>>

StopEntity ==
    \E e \in Running :
        /\ Ask("start")
        /\ mounts' = [mounts EXCEPT ![e] = LinkNone]
        /\ UNCHANGED <<disk, links, entities, job>>

(* The manager goes down; containers and the disk stay. *)
LinkCrash ==
    /\ "crash" \in linkUsers.ops /\ LinkIdle # LinkRequests
    /\ job' = [q \in LinkRequests |-> LinkNone]
    /\ Continues /\ UNCHANGED <<disk, links, entities, mounts>>

LinkInit ==
    /\ \E dirs \in SUBSET LinkEntities, fs \in SUBSET (LinkEntities \X LinkFiles) :
        /\ \A x \in fs : x[1] \in dirs
        /\ disk = [l \in Places |->
                    IF l.ent \notin dirs THEN LinkNone
                    ELSE IF Len(l.path) = 1 THEN Dir
                    ELSE IF <<l.ent, l.path[2]>> \in fs THEN File(l) ELSE LinkNone]
    /\ links = {} /\ entities = LinkEntities
    /\ mounts = [e \in LinkEntities |-> LinkNone]
    /\ job = [q \in LinkRequests |-> LinkNone]
    /\ linkUsers \in LinkUsers /\ linkAsked = 0

LinkStep ==
    \/ CreateLink \/ DeleteLink \/ UnlinkLink
    \/ DeleteServerFile \/ DeleteProxyFile
    \/ RenameServerFile \/ RenameProxyFile
    \/ WriteFileContent \/ UploadFile
    \/ DeleteEntity \/ StartEntity \/ StopEntity

LinkNext ==
    \/ LinkStep
    \/ \E q \in LinkRequests : InsertLink(q) \/ RemoveSymlink(q) \/ PlaceCopy(q)
    \/ LinkCrash

LinkSpec == LinkInit /\ [][LinkNext]_linkVars

-----------------------------------------------------------------------------
(* Properties *)

LinkRows == [source : Places, target : Places]

(* A path is the target of at most one link (a container can mount one      *)
(* thing there), and an entity never links to itself, whatever overlaps,    *)
(* fails or crashes; rows and mounts are between places there are.           *)
LinksInv ==
    /\ links \subseteq LinkRows
    /\ entities \subseteq LinkEntities
    /\ \A e \in Running : mounts[e] \subseteq LinkRows
    /\ \A r1, r2 \in links : r1.target = r2.target => r1 = r2
    /\ \A r \in links : r.source.ent # r.target.ent

KindsOK ==
    \A l \in Places :
        disk[l] = LinkNone \/ IsDir(disk[l]) \/ IsFile(disk[l]) \/ IsSymlink(disk[l])

(* The requests that come one by one, succeed, and stay away from paths     *)
(* inside or onto links.                                                    *)
Orderly ==
    /\ ~linkUsers.overlap /\ ~linkUsers.failing
    /\ linkUsers.ops \cap {"crash", "nested", "renameOnto"} = {}

(* Between orderly requests the rows, the symlinks and the mounts say one   *)
(* thing: a row's target is a symlink to its source, which exists, every    *)
(* symlink has its row, and a running container has mounted every link its  *)
(* entity has.                                                               *)
SerialLinksAgree ==
    /\ KindsOK
    /\ Orderly /\ LinkIdle = LinkRequests =>
        /\ \A r \in links : /\ {r.source.ent, r.target.ent} \subseteq entities
                            /\ disk[r.target] = Symlink(r.source)
                            /\ disk[r.source] # LinkNone
        /\ \A l \in Places : IsSymlink(disk[l]) =>
                [source |-> disk[l].to, target |-> l] \in links
        /\ \A e \in Running : LinksInto(e) \subseteq mounts[e]

Keeps(e) == \A l \in Places : l.ent # e /\ IsFile(disk[l]) => disk'[l] = disk[l]

(* No request of a server or a proxy changes another's files through a link *)
(* (deleting a linked directory takes the symlink, not what it leads to),   *)
(* and making, removing and unlinking a link changes no file at all.        *)
SerialLinksKeepData ==
    [][Orderly =>
        /\ \A e \in LinkEntities :
                DeletePath(e) \/ RenamePath(e) \/ e \in entities \ entities'
                    => Keeps(e)
        /\ CreateLink \/ DeleteLink \/ UnlinkLink
             \/ (\E q \in LinkRequests : InsertLink(q) \/ RemoveSymlink(q) \/ PlaceCopy(q))
                => Keeps(LinkNone)]_linkVars

=============================================================================
