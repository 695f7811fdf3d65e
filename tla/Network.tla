------------------------------ MODULE Network ------------------------------
(***************************************************************************)
(* Proxies, the servers behind them and the files that tie them together:  *)
(* the handlers that create, change and delete servers and proxies         *)
(* (handlers/servers.go, handlers/proxies.go, handlers/proxy_utils.go),    *)
(* velocity.toml (mc/velocity.go), the MiniMOTD files (minimotd/manager.go)*)
(* and the proxies' containers (docker/proxy_containers.go).               *)
(*                                                                         *)
(* Nothing locks a row against a directory or a file, so a handler is a    *)
(* list of steps, todo[t], that requests of other threads, container       *)
(* events and a crash of the manager interleave with.  A directory is a    *)
(* record of what the properties tell apart in it.                         *)
(***************************************************************************)
EXTENDS Integers, Sequences, FiniteSetsExt, Functions, TLC

CONSTANTS
    NetNames,     \* sanitized names
    NetDomains,   \* host names players connect to
    NetPorts,     \* host and UDP ports a request may ask for
    NetThreads,   \* requests served at the same time
    NetUsers,     \* ways of using the manager: the kinds of requests, the
                  \* threads that serve them, whether steps fail, whether
                  \* sanitized names are indexed, the MOTD lines of new
                  \* servers, whether they are NanoLimbo servers and, a
                  \* bound, how many requests, deaths of containers and
                  \* crashes there are
    NetNone       \* NULL, an absent field of a request, no file

ASSUME NetAssumption ==
    /\ NetPorts \subseteq 1 .. 9
    /\ NetNone \notin NetNames \cup NetDomains /\ NetNone \notin Nat
    /\ \A u \in NetUsers : /\ u.threads \subseteq NetThreads /\ u.most \in Nat
                           /\ u.lines \subseteq {"null", "empty", "set"}
                           /\ u.limbo \subseteq BOOLEAN

(* What a row may hold; a row is never NULL. *)
RowDomains == NetDomains \cup {NetNone, ""}

ServerRows ==
    [name : NetNames, proxy : Nat, port : Nat, udp : Nat, domain : RowDomains,
     lines : {"null", "empty", "set"}, limbo : BOOLEAN]

ProxyRows == [name : NetNames, port : Nat, udp : Nat, run : BOOLEAN]

(* What a directory may hold, where there is one. *)
Some(S, T) == UNION {[X -> T] : X \in SUBSET S}

DirIcons == {"server", "proxy"} \X NetNames

VelocityFiles ==
    [servers : SUBSET (NetNames \X Nat), try : NetNames \cup {NetNone},
     hosts : Some(NetDomains, NetNames)]

DirRecords ==
    [online : BOOLEAN, port : Nat, secret : Nat, toml : VelocityFiles \cup {NetNone},
     icon : BOOLEAN, extra : Some(NetNames, DirIcons \cup {NetNone}),
     icons : SUBSET DirIcons, hosts : Some(NetDomains, NetNames)]

ASSUME NetDirAssumption == NetNone \notin DirRecords

ASSUME NetRowAssumption == NetNone \notin ServerRows \cup ProxyRows

VARIABLES
    servers,   \* rows by id, NetNone once deleted: an id is never used again
    proxies,   \* rows by id
    dirs,      \* directory by name, NetNone when there is none
    up,        \* names whose proxy container runs
    news,      \* container events not handled yet, in order
    todo,      \* steps each thread has left
    asked,     \* requests so far
    strayed,   \* a proxy was renamed while its container ran
    users      \* the requests users make

netVars == <<servers, proxies, dirs, up, news, todo, asked, strayed, users>>

-----------------------------------------------------------------------------
(* Rows *)

LiveServers == {i \in DOMAIN servers : servers[i] # NetNone}

LiveProxies == {p \in DOMAIN proxies : proxies[p] # NetNone}

Members(p) == {i \in LiveServers : servers[i].proxy = p}

ServerNamed(n) == \E i \in LiveServers : servers[i].name = n

ProxyNamed(n) == \E p \in LiveProxies : proxies[p].name = n

(* Whether a name another row has, or not, is refused. *)
Refusals(taken) == {k \in BOOLEAN : (k => taken) /\ (taken /\ users.indexed => k)}

(* Name of a row's proxy; the handlers leave it empty when there is none. *)
ProxyName(p) == IF p \in LiveProxies THEN proxies[p].name ELSE NetNone

BasePort(p) == 100 * p

(* Mutant: counts the members. *)
NextPortCounted(p) == 1 + BasePort(p) + Cardinality(Members(p))

(* MAX(host_port) over the members of the proxy, its base without members. *)
NextPort(p) ==
    1 + IF Members(p) = {} THEN BasePort(p)
        ELSE Max({servers[i].port : i \in Members(p)})

HostPortTaken(h) ==
    \/ \E i \in LiveServers : servers[i].port = h
    \/ \E p \in LiveProxies : proxies[p].port = h

(* The four queries before a UDP port is stored: the row itself is excluded *)
(* only from the query on its own table's UDP ports.                        *)
UdpTaken(h, s, p) ==
    \/ \E i \in LiveServers \ {s} : servers[i].udp = h
    \/ \E q \in LiveProxies \ {p} : proxies[q].udp = h
    \/ HostPortTaken(h)

-----------------------------------------------------------------------------
(* Files *)

NoFiles == [n \in {} |-> NetNone]

NewDir == [online |-> TRUE, port |-> 0, secret |-> 0, toml |-> NetNone,
           icon |-> FALSE, extra |-> NoFiles, icons |-> {},
           hosts |-> NoFiles]

(* MkdirAll *)
Made(d) == IF d = NetNone THEN NewDir ELSE d

(* What velocity.toml should say: members by id, a NULL port is skipped by  *)
(* the failed Scan, the last of equal domains wins, the first is tried.     *)
VelocityFile(ms) ==
    LET named(d) == {i \in DOMAIN ms : ms[i].domain = d}
    IN  [servers |-> {<<ms[i].name, ms[i].port>> : i \in DOMAIN ms},
         try |-> IF DOMAIN ms = {} THEN NetNone ELSE ms[Min(DOMAIN ms)].name,
         hosts |-> [d \in {d \in NetDomains : named(d) # {}} |->
                        ms[Max(named(d))].name]]

MemberRows(p) ==
    [i \in {j \in Members(p) : servers[j].port # 0} |->
        [name |-> servers[i].name, port |-> servers[i].port,
         domain |-> servers[i].domain]]

VelocityOf(p) == VelocityFile(MemberRows(p))

Put(f, x, v) == [y \in DOMAIN f \cup {x} |-> IF y = x THEN v ELSE f[y]]

(* The icon an extra config names: the server's own, else the proxy's. *)
MotdIcon(d, pn, n, own) ==
    CASE own -> <<"server", n>>
      [] ~own /\ <<"proxy", pn>> \in d.icons -> <<"proxy", pn>>
      [] OTHER -> NetNone

PutExtra(d, pn, n, own) ==
    [d EXCEPT !.extra = Put(@, n, MotdIcon(d, pn, n, own))]

DropExtra(d, n) == [d EXCEPT !.extra = Restrict(@, DOMAIN @ \ {n})]

(* SyncServerConfig: only a server that has an extra config gets a new one. *)
SyncExtra(d, pn, n, own) ==
    IF n \in DOMAIN d.extra THEN PutExtra(d, pn, n, own) ELSE d

CopyIcon(d, icon) == [d EXCEPT !.icons = @ \cup {icon}]

DropIcon(d, icon) == [d EXCEPT !.icons = @ \ {icon}]

(* updateVirtualHostConfig.  RemoveVirtualHost passes the domain as the new *)
(* one and no server, which rewrites the file as it was.                    *)
PutHost(d, domain, n) ==
    IF domain \in NetDomains
    THEN [d EXCEPT !.hosts = Put(@, domain, n)] ELSE d

RenameMotd(d, pn, o, n, domain, own) ==
    LET e == IF o \in DOMAIN d.extra
             THEN PutExtra(DropExtra(d, o), pn, n, own) ELSE d
        f == IF <<"server", o>> \in e.icons
             THEN CopyIcon(DropIcon(e, <<"server", o>>), <<"server", n>>)
             ELSE e
    IN  PutHost(f, domain, n)

OwnIcon(n) == dirs[n] # NetNone /\ dirs[n].icon

-----------------------------------------------------------------------------
(* Steps *)

Idle(t) == todo[t] = <<>>

AllIdle == \A t \in NetThreads : Idle(t)

(* A request of the given kind begins with the steps it will take. *)
Begin(t, kind, steps) ==
    /\ kind \in users.ops
    /\ t \in users.threads /\ Idle(t)
    /\ asked < users.most
    /\ asked' = asked + 1
    /\ todo' = [todo EXCEPT ![t] = steps]
    /\ UNCHANGED users

At(t, do) == todo[t] # <<>> /\ Head(todo[t]).do = do

Continue(t) ==
    /\ todo' = [todo EXCEPT ![t] = Tail(@)]
    /\ UNCHANGED <<asked, users>>

GoOn(t, steps) ==
    /\ todo' = [todo EXCEPT ![t] = steps \o Tail(@)]
    /\ UNCHANGED <<asked, users>>

Abort(t) ==
    /\ todo' = [todo EXCEPT ![t] = <<>>]
    /\ UNCHANGED <<asked, users>>

Now(t) == Head(todo[t])

containers == <<up, news, strayed>>

rows == <<servers, proxies>>

SyncStep(p) == [do |-> "sync", proxy |-> p]

(* SyncProxyConfig reads the rows, then writes the file; no lock is held.   *)
SyncRead(t) ==
    LET p == Now(t).proxy
    IN  /\ At(t, "sync")
        /\ IF p \in LiveProxies
           THEN GoOn(t, <<[do |-> "toml", name |-> proxies[p].name,
                                   config |-> VelocityOf(p)]>>)
           ELSE Continue(t)
        /\ UNCHANGED <<rows, dirs, containers>>

SyncWrite(t) ==
    /\ At(t, "toml")
    /\ Continue(t)
    /\ dirs' = [dirs EXCEPT ![Now(t).name] =
                    IF @ = NetNone THEN @ ELSE [@ EXCEPT !.toml = Now(t).config]]
    /\ UNCHANGED <<rows, containers>>

(* server.properties.  NanoLimbo takes port and secret from settings.yml,   *)
(* which a server created behind a proxy gets and nothing writes again.     *)
Properties(d, limbo, port, online) ==
    [d EXCEPT !.online = online, !.port = IF limbo THEN @ ELSE port]

Settings(d, row) ==
    IF d = NetNone THEN d ELSE [d EXCEPT !.port = row.port, !.secret = row.proxy]

(* ConfigureServerProxy and RevertServerProxyConfig: the forwarding secret  *)
(* in the server's own configuration, its directory made if it has gone;    *)
(* neither has a case for NanoLimbo.                                        *)
Configured(d, limbo, secret) ==
    IF limbo THEN d ELSE [Made(d) EXCEPT !.secret = secret]

Reverted(d, limbo) ==
    IF d = NetNone THEN d
    ELSE [d EXCEPT !.online = TRUE, !.secret = IF limbo THEN @ ELSE 0]

-----------------------------------------------------------------------------
(* Creating a server *)

CreateServer(t) ==
    \E n \in NetNames, p \in LiveProxies \cup {0}, h \in NetPorts,
       force \in BOOLEAN, domain \in NetDomains \cup {NetNone},
       lines \in users.lines, limbo \in users.limbo :
        /\ ~ServerNamed(n) /\ ~ProxyNamed(n)
        /\ p = 0 => (force \/ ~HostPortTaken(h)) /\ domain = NetNone
        /\ Begin(t, "create", <<[do |-> "insert",
                row |-> [name |-> n, proxy |-> p, udp |-> 0, domain |-> domain,
                         port |-> IF p = 0 THEN h ELSE NextPort(p),
                         lines |-> lines, limbo |-> limbo]]>>)
        /\ UNCHANGED <<rows, dirs, containers>>

(* The column name is UNIQUE.  sanitized_name has a unique index only in a  *)
(* database that is older than the column: without it two names that differ *)
(* as written may get one sanitized name.                                   *)
InsertServer(t) ==
    LET row == Now(t).row
    IN  /\ At(t, "insert")
        /\ \E refused \in Refusals(ServerNamed(row.name)) :
            IF refused THEN Abort(t) /\ UNCHANGED servers
            ELSE /\ GoOn(t, <<[do |-> "files", row |-> row]>> \o
                     IF row.proxy = 0 THEN <<>>
                     ELSE <<[do |-> "configure", row |-> row]>>)
                 /\ servers' = Append(servers, row)
        /\ UNCHANGED <<proxies, dirs, containers>>

(* mkdir, the jar's download, server.properties, eula.txt: a failure leaves *)
(* the row, with or without the directory.                                  *)
ServerFiles(t) ==
    LET row == Now(t).row
    IN  /\ At(t, "files")
        /\ \/ /\ Continue(t)
              /\ dirs' = [dirs EXCEPT ![row.name] =
                    Properties(Made(@), row.limbo, row.port, row.proxy = 0)]
           \/ /\ users.failing
              /\ Abort(t)
              /\ \/ UNCHANGED dirs
                 \/ dirs' = [dirs EXCEPT ![row.name] = Made(@)]
        /\ UNCHANGED <<rows, containers>>

(* A settings.yml that is not written is logged, any other configuration    *)
(* that is not ends the request.                                            *)
ConfigureServer(t) ==
    LET row == Now(t).row
        next == <<SyncStep(row.proxy),
                  [do |-> "motd", at |-> ProxyName(row.proxy), row |-> row]>>
    IN  /\ At(t, "configure")
        /\ \/ /\ row.proxy \in LiveProxies
              /\ GoOn(t, next)
              /\ dirs' = [dirs EXCEPT ![row.name] =
                    IF row.limbo THEN Settings(@, row)
                    ELSE Configured(@, row.limbo, row.proxy)]
           \/ /\ row.proxy \in LiveProxies /\ row.limbo /\ users.failing
              /\ GoOn(t, next) /\ UNCHANGED dirs
           \/ /\ row.proxy \notin LiveProxies \/ (~row.limbo /\ users.failing)
              /\ Abort(t) /\ UNCHANGED dirs
        /\ UNCHANGED <<rows, containers>>

(* An extra config if a line is not empty; the domain's host entry anyway. *)
CreateMotd(t) ==
    LET row == Now(t).row
        pn == Now(t).at
        own == OwnIcon(row.name)
        extra(d) == IF row.lines # "set" THEN d
                    ELSE IF own
                    THEN CopyIcon(PutExtra(Made(d), pn, row.name, own),
                                  <<"server", row.name>>)
                    ELSE PutExtra(Made(d), pn, row.name, own)
        host(d) == IF row.domain \in NetDomains
                   THEN PutHost(Made(d), row.domain, row.name) ELSE d
    IN  /\ At(t, "motd")
        /\ Continue(t)
        /\ dirs' = [dirs EXCEPT ![pn] = host(extra(@))]
        /\ UNCHANGED <<rows, containers>>

-----------------------------------------------------------------------------
(* Deleting a server *)

DeleteServer(t) ==
    \E i \in LiveServers :
        LET cur == servers[i]
        IN  /\ Begin(t, "delete",
                <<[do |-> "rmdir", name |-> cur.name],
                  [do |-> "deleteServer", id |-> i]>> \o
                IF cur.proxy = 0 THEN <<>>
                ELSE <<SyncStep(cur.proxy),
                       [do |-> "forget", name |-> cur.name, proxy |-> cur.proxy]>>)
            /\ UNCHANGED <<rows, dirs, containers>>

RemoveDir(t) ==
    /\ At(t, "rmdir")
    /\ Continue(t)
    /\ dirs' = [dirs EXCEPT ![Now(t).name] = NetNone]
    /\ UNCHANGED <<rows, containers>>

DeleteServerRow(t) ==
    LET i == Now(t).id
    IN  /\ At(t, "deleteServer")
        /\ IF i \in LiveServers
           THEN /\ Continue(t)
                /\ servers' = [servers EXCEPT ![i] = NetNone]
           ELSE Abort(t) /\ UNCHANGED servers
        /\ UNCHANGED <<proxies, dirs, containers>>

ForgetServer(t) ==
    LET n == Now(t).name
        pn == ProxyName(Now(t).proxy)
    IN  /\ At(t, "forget")
        /\ Continue(t)
        /\ dirs' = [x \in NetNames |->
                IF x = pn /\ dirs[x] # NetNone
                THEN DropIcon(DropExtra(dirs[x], n), <<"server", n>>)
                ELSE dirs[x]]
        /\ UNCHANGED <<rows, containers>>

-----------------------------------------------------------------------------
(* Updating a server *)

NoField == [name |-> NetNone, lines |-> NetNone, udp |-> NetNone,
            proxy |-> NetNone, domain |-> NetNone]

(* The directory moves before the row does, unless the new one exists; a    *)
(* name that is sent as it is moves nothing.                                *)
MoveDir(o, n) ==
    IF o = n \/ dirs[o] = NetNone THEN UNCHANGED dirs
    ELSE /\ dirs[n] = NetNone
         /\ dirs' = [dirs EXCEPT ![n] = dirs[o], ![o] = NetNone]

UpdateServer(t, kind, f, i) ==
    LET cur == servers[i]
        new == IF f.name = NetNone THEN cur.name ELSE f.name
    IN  /\ new # cur.name =>
            /\ ~\E j \in LiveServers \ {i} : servers[j].name = new
            /\ ~ProxyNamed(new)
        /\ MoveDir(cur.name, new)
        /\ Begin(t, kind,
            <<[do |-> "row", id |-> i, new |-> new, lines |-> f.lines]>> \o
            (IF f.udp = NetNone THEN <<>>
             ELSE <<[do |-> "udp", server |-> i, proxy |-> 0, port |-> f.udp]>>) \o
            <<[do |-> "change", id |-> i, cur |-> cur, fields |-> f,
               at |-> ProxyName(cur.proxy)]>>)
        /\ UNCHANGED <<rows, containers>>

RenameServer(t) ==
    \E i \in LiveServers, n \in NetNames :
        UpdateServer(t, "rename", [NoField EXCEPT !.name = n], i)

SetLines(t) ==
    \E i \in LiveServers, l \in {"empty", "set"} :
        UpdateServer(t, "lines", [NoField EXCEPT !.lines = l], i)

SetServerUdp(t) ==
    \E i \in LiveServers, h \in NetPorts \cup {0} :
        UpdateServer(t, "udp", [NoField EXCEPT !.udp = h], i)

LeaveProxy(t) ==
    \E i \in LiveServers :
        UpdateServer(t, "leave", [NoField EXCEPT !.proxy = 0], i)

(* A server joins a proxy, or moves to another when the kind is allowed. *)
JoinProxy(t) ==
    \E i \in LiveServers, p \in LiveProxies :
        UpdateServer(t, IF servers[i].proxy \in {0, p} THEN "join" ELSE "move",
                     [NoField EXCEPT !.proxy = p], i)

SetDomain(t) ==
    \E i \in LiveServers, d \in NetDomains \cup {""} :
        UpdateServer(t, "domain", [NoField EXCEPT !.domain = d], i)

(* Mutant: the column is not unique. *)
UpdateRowTaken(t) ==
    LET i == Now(t).id
    IN  /\ At(t, "row")
        /\ Continue(t)
        /\ servers' = [j \in DOMAIN servers |->
                IF j # i \/ servers[j] = NetNone THEN servers[j]
                ELSE [servers[j] EXCEPT
                        !.name = Now(t).new,
                        !.lines = IF Now(t).lines = NetNone THEN @ ELSE Now(t).lines]]
        /\ UNCHANGED <<proxies, dirs, containers>>

(* An UPDATE that breaks a constraint fails and nobody looks. *)
UpdateRow(t) ==
    LET i == Now(t).id
        taken == \E j \in LiveServers \ {i} : servers[j].name = Now(t).new
    IN  /\ At(t, "row")
        /\ Continue(t)
        /\ \E kept \in Refusals(taken) :
            servers' = [j \in DOMAIN servers |->
                IF j # i \/ servers[j] = NetNone THEN servers[j]
                ELSE [servers[j] EXCEPT
                        !.name = IF kept THEN @ ELSE Now(t).new,
                        !.lines = IF Now(t).lines = NetNone THEN @ ELSE Now(t).lines]]
        /\ UNCHANGED <<proxies, dirs, containers>>

(* A refused UDP port ends the request with the earlier columns written. *)
SetUdp(t) ==
    LET h == Now(t).port
        s == Now(t).server
        p == Now(t).proxy
    IN  /\ At(t, "udp")
        /\ IF h # 0 /\ UdpTaken(h, s, p)
           THEN Abort(t) /\ UNCHANGED rows
           ELSE /\ Continue(t)
                /\ servers' = IF s \in LiveServers
                              THEN [servers EXCEPT ![s].udp = h] ELSE servers
                /\ proxies' = IF p \in LiveProxies
                              THEN [proxies EXCEPT ![p].udp = h] ELSE proxies
        /\ UNCHANGED <<dirs, containers>>

(* The rest of the handler: hasConfig, a line is not NULL, is read here and *)
(* the row's proxy, name and domain come from the read at the beginning.    *)
ChangeServer(t) ==
    LET i == Now(t).id
        cur == Now(t).cur
        f == Now(t).fields
        at == Now(t).at
        has == i \in LiveServers /\ servers[i].lines # "null"
        files(do, pn) == [do |-> do, at |-> pn, from |-> at, cur |-> cur, fields |-> f]
        proxied == cur.proxy # 0
        leave == IF proxied /\ has THEN <<files("unmotd", at)>> ELSE <<>>
        join == IF f.proxy \in LiveProxies /\ has
                THEN <<files("moveMotd", ProxyName(f.proxy))>> ELSE <<>>
    IN  /\ At(t, "change")
        /\ GoOn(t, (CASE f.proxy = NetNone -> <<>>
               [] f.proxy = 0 -> leave \o <<[do |-> "leave", id |-> i]>>
               [] OTHER -> join \o <<[do |-> "assign", id |-> i, proxy |-> f.proxy]>>) \o
            (IF f.domain = NetNone THEN <<>>
             ELSE <<[do |-> "domain", id |-> i, at |-> at, has |-> has,
                     name |-> cur.name, domain |-> f.domain]>>) \o
            (IF f.name # NetNone /\ has /\ proxied
             THEN <<files("renameMotd", at)>> ELSE <<>>) \o
            (IF f.name # NetNone /\ proxied
             THEN <<SyncStep(cur.proxy)>> ELSE <<>>) \o
            (IF f.lines # NetNone /\ proxied
             THEN <<files("lines", at)>> ELSE <<>>))
        /\ UNCHANGED <<rows, dirs, containers>>

(* The MiniMOTD files a server's update touches: at the proxy it had, at    *)
(* the one it moves to, under its new name, with its new lines.             *)
Change(d, Op(_)) == IF d = NetNone THEN d ELSE Op(d)

LeaveMotd(t) ==
    /\ At(t, "unmotd")
    /\ Continue(t)
    /\ dirs' = [dirs EXCEPT ![Now(t).at] =
                    Change(@, LAMBDA d : DropExtra(d, Now(t).cur.name))]
    /\ UNCHANGED <<rows, containers>>

MoveMotd(t) ==
    LET s == Now(t)
        n == s.cur.name
        own == OwnIcon(n)
        left(d) == DropIcon(DropExtra(d, n), <<"server", n>>)
        put(d) == PutExtra(Made(d), s.at, n, own)
        joined(d) == IF own THEN CopyIcon(put(d), <<"server", n>>) ELSE put(d)
        without == IF s.from = NetNone THEN dirs
                   ELSE [dirs EXCEPT ![s.from] = Change(@, left)]
    IN  /\ At(t, "moveMotd")
        /\ Continue(t)
        /\ dirs' = [without EXCEPT ![s.at] = PutHost(joined(@), s.cur.domain, n)]
        /\ UNCHANGED <<rows, containers>>

(* The icon is looked for in the directory's old name. *)
RenameMotdFiles(t) ==
    LET s == Now(t)
        new(d) == RenameMotd(d, s.at, s.cur.name, s.fields.name, s.cur.domain,
                             OwnIcon(s.cur.name))
    IN  /\ At(t, "renameMotd")
        /\ Continue(t)
        /\ dirs' = [dirs EXCEPT ![s.at] = Change(@, new)]
        /\ UNCHANGED <<rows, containers>>

LinesMotd(t) ==
    LET s == Now(t)
        n == s.cur.name
    IN  /\ At(t, "lines")
        /\ Continue(t)
        /\ dirs' = [dirs EXCEPT ![s.at] =
                IF s.fields.lines = "set" THEN PutExtra(Made(@), s.at, n, OwnIcon(n))
                ELSE Change(@, LAMBDA d : DropExtra(d, n))]
        /\ UNCHANGED <<rows, containers>>

(* AssignServerToProxy: the row, then server.properties and, but for        *)
(* NanoLimbo, the secret; an error there skips the sync.  Only the new      *)
(* proxy is synced.                                                         *)
AssignServer(t) ==
    LET i == Now(t).id
        p == Now(t).proxy
    IN  /\ At(t, "assign")
        /\ IF i \in LiveServers /\ p \in LiveProxies
           THEN /\ GoOn(t, <<[do |-> "joinFiles", name |-> servers[i].name,
                       limbo |-> servers[i].limbo, port |-> NextPort(p),
                       proxy |-> p]>>)
                /\ servers' = [servers EXCEPT ![i].proxy = p,
                                ![i].port = NextPort(p), ![i].domain = NetNone]
           ELSE Continue(t) /\ UNCHANGED servers
        /\ UNCHANGED <<proxies, dirs, containers>>

JoinFiles(t) ==
    LET s == Now(t)
        properties(d) == Properties(d, s.limbo, s.port, FALSE)
    IN  /\ At(t, "joinFiles")
        /\ IF dirs[s.name] = NetNone
           THEN Continue(t) /\ UNCHANGED dirs
           ELSE \/ /\ GoOn(t, <<SyncStep(s.proxy)>>)
                   /\ dirs' = [dirs EXCEPT ![s.name] =
                                  Configured(properties(@), s.limbo, s.proxy)]
                \/ /\ users.failing
                   /\ Continue(t)
                   /\ \/ UNCHANGED dirs
                      \/ dirs' = [dirs EXCEPT ![s.name] = properties(@)]
        /\ UNCHANGED <<rows, containers>>

(* Mutant: no sync of the proxy that is left. *)
LeaveRowUnsynced(t) ==
    LET i == Now(t).id
    IN  /\ At(t, "leave")
        /\ Continue(t)
        /\ IF i \in LiveServers /\ servers[i].proxy # 0
           THEN /\ servers' = [servers EXCEPT ![i].proxy = 0, ![i].port = 0]
                /\ dirs' = [dirs EXCEPT ![servers[i].name] =
                                Reverted(@, servers[i].limbo)]
           ELSE UNCHANGED <<servers, dirs>>
        /\ UNCHANGED <<proxies, containers>>

(* RemoveServerFromProxy *)
LeaveRow(t) ==
    LET i == Now(t).id
        old == servers[i].proxy
    IN  /\ At(t, "leave")
        /\ IF i \in LiveServers /\ old # 0
           THEN /\ GoOn(t, <<SyncStep(old)>>)
                /\ servers' = [servers EXCEPT ![i].proxy = 0, ![i].port = 0]
                /\ dirs' = [dirs EXCEPT ![servers[i].name] =
                                Reverted(@, servers[i].limbo)]
           ELSE Continue(t) /\ UNCHANGED <<servers, dirs>>
        /\ UNCHANGED <<proxies, containers>>

DomainRow(t) ==
    LET s == Now(t)
        proxied == s.id \in LiveServers /\ servers[s.id].proxy # 0
    IN  /\ At(t, "domain")
        /\ IF proxied
           THEN GoOn(t, <<SyncStep(servers[s.id].proxy)>>)
           ELSE Continue(t)
        /\ servers' = IF s.id \in LiveServers
                      THEN [servers EXCEPT ![s.id].domain = s.domain] ELSE servers
        /\ dirs' = IF proxied /\ s.has /\ s.at # NetNone
                   THEN [dirs EXCEPT ![s.at] = PutHost(Made(@), s.domain, s.name)]
                   ELSE dirs
        /\ UNCHANGED <<proxies, containers>>

-----------------------------------------------------------------------------
(* Proxies *)

CreateProxy(t) ==
    \E n \in NetNames, h \in NetPorts, force \in BOOLEAN :
        /\ force \/ ~HostPortTaken(h)
        /\ ~ProxyNamed(n) /\ ~ServerNamed(n)
        /\ Begin(t, "createProxy", <<[do |-> "insertProxy", name |-> n, port |-> h]>>)
        /\ UNCHANGED <<rows, dirs, containers>>

(* The host port is UNIQUE among proxies, whatever force says. *)
InsertProxy(t) ==
    LET s == Now(t)
        p == Len(proxies) + 1
    IN  /\ At(t, "insertProxy")
        /\ \E refused \in Refusals(ProxyNamed(s.name)) :
            IF refused \/ \E q \in LiveProxies : proxies[q].port = s.port
            THEN Abort(t) /\ UNCHANGED proxies
            ELSE /\ GoOn(t, <<[do |-> "proxyFiles", id |-> p, name |-> s.name]>>)
                 /\ proxies' = Append(proxies,
                        [name |-> s.name, port |-> s.port, udp |-> 0, run |-> FALSE])
        /\ UNCHANGED <<servers, dirs, containers>>

(* The jar, forwarding.secret and a velocity.toml without servers; plugins  *)
(* are installed without looking at the result.                             *)
ProxyFiles(t) ==
    LET s == Now(t)
        empty == [servers |-> {}, try |-> NetNone, hosts |-> NoFiles]
    IN  /\ At(t, "proxyFiles")
        /\ \/ /\ Continue(t)
              /\ dirs' = [dirs EXCEPT ![s.name] =
                    [Made(@) EXCEPT !.secret = s.id, !.toml = empty]]
           \/ /\ users.failing
              /\ Abort(t)
              /\ \/ UNCHANGED dirs
                 \/ dirs' = [dirs EXCEPT ![s.name] = Made(@)]
        /\ UNCHANGED <<rows, containers>>

(* Mutant: the container runs on. *)
DeleteProxyRunning(t) ==
    \E p \in LiveProxies :
        /\ Begin(t, "deleteProxy",
            <<[do |-> "rmdir", name |-> proxies[p].name],
              [do |-> "unassign", id |-> p],
              [do |-> "deleteProxy", id |-> p]>>)
        /\ UNCHANGED <<rows, dirs, containers>>

DeleteProxy(t) ==
    \E p \in LiveProxies :
        /\ Begin(t, "deleteProxy",
            <<[do |-> "kill", name |-> proxies[p].name],
              [do |-> "rmdir", name |-> proxies[p].name],
              [do |-> "unassign", id |-> p],
              [do |-> "deleteProxy", id |-> p]>>)
        /\ UNCHANGED <<rows, dirs, containers>>

(* The members keep port, secret and online-mode of the proxy that goes. *)
Unassign(t) ==
    /\ At(t, "unassign")
    /\ Continue(t)
    /\ servers' = [i \in DOMAIN servers |->
            IF i \in Members(Now(t).id) THEN [servers[i] EXCEPT !.proxy = 0]
            ELSE servers[i]]
    /\ UNCHANGED <<proxies, dirs, containers>>

DeleteProxyRow(t) ==
    /\ At(t, "deleteProxy")
    /\ Continue(t)
    /\ proxies' = IF Now(t).id \in LiveProxies
                  THEN [proxies EXCEPT ![Now(t).id] = NetNone] ELSE proxies
    /\ UNCHANGED <<servers, dirs, containers>>

(* A proxy may be renamed while it runs: its container keeps the old name.  *)
RenameProxy(t) ==
    \E p \in LiveProxies, n \in NetNames :
        LET old == proxies[p].name
        IN  /\ ~\E q \in LiveProxies \ {p} : proxies[q].name = n
            /\ ~ServerNamed(n)
            /\ MoveDir(old, n)
            /\ Begin(t, "renameProxy", <<[do |-> "proxyRow", id |-> p, name |-> n]>>)
            /\ strayed' = (strayed \/ (old # n /\ old \in up))
            /\ UNCHANGED <<rows, up, news>>

ProxyRow(t) ==
    LET s == Now(t)
        taken == \E q \in LiveProxies \ {s.id} : proxies[q].name = s.name
    IN  /\ At(t, "proxyRow")
        /\ Continue(t)
        /\ \E refused \in Refusals(taken) :
            proxies' = IF s.id \in LiveProxies /\ ~refused
                       THEN [proxies EXCEPT ![s.id].name = s.name] ELSE proxies
        /\ UNCHANGED <<servers, dirs, containers>>

SetProxyUdp(t) ==
    \E p \in LiveProxies, h \in NetPorts \cup {0} :
        /\ Begin(t, "udp", <<[do |-> "udp", server |-> 0, proxy |-> p, port |-> h]>>)
        /\ UNCHANGED <<rows, dirs, containers>>

-----------------------------------------------------------------------------
(* Icons *)

(* A server's upload writes its icon; one with MOTD lines behind a proxy is *)
(* copied there too, and its extra config names it.                         *)
ServerIcon(t, kind, own) ==
    \E i \in LiveServers :
        LET n == servers[i].name
            pn == ProxyName(servers[i].proxy)
            has == servers[i].lines # "null"
            copied(d) == IF own THEN IF has THEN CopyIcon(d, <<"server", n>>) ELSE d
                         ELSE DropIcon(d, <<"server", n>>)
            config(d) == IF has THEN PutExtra(d, pn, n, own) ELSE d
        IN  /\ dirs[n] # NetNone
            /\ own \/ dirs[n].icon
            /\ Begin(t, kind, <<>>)
            /\ dirs' = [x \in NetNames |->
                    CASE x = n -> [dirs[n] EXCEPT !.icon = own]
                      [] x = pn /\ x # n -> config(copied(Made(dirs[x])))
                      [] OTHER -> dirs[x]]
            /\ UNCHANGED <<rows, containers>>

UploadServerIcon(t) == ServerIcon(t, "icons", TRUE)

DeleteServerIcon(t) == ServerIcon(t, "icons", FALSE)

(* Servers without an icon of their own take the proxy's, or lose it. *)
Refreshed(d, pn, ps) ==
    [d EXCEPT !.extra = [n \in DOMAIN d.extra |->
        IF \E p \in ps : \E i \in Members(p) : servers[i].name = n
        THEN SyncExtra(d, pn, n, OwnIcon(n)).extra[n]
        ELSE d.extra[n]]]

UploadProxyIcon(t) ==
    \E p \in LiveProxies :
        LET n == proxies[p].name
        IN  /\ dirs[n] # NetNone
            /\ Begin(t, "icons", <<[do |-> "refresh", id |-> p, name |-> n]>>)
            /\ dirs' = [dirs EXCEPT ![n] =
                            CopyIcon([@ EXCEPT !.icon = TRUE], <<"proxy", n>>)]
            /\ UNCHANGED <<rows, containers>>

DeleteProxyIcon(t) ==
    \E p \in LiveProxies :
        LET n == proxies[p].name
        IN  /\ dirs[n] # NetNone /\ dirs[n].icon
            /\ Begin(t, "icons", <<[do |-> "refresh", id |-> p, name |-> n]>>)
            /\ dirs' = [dirs EXCEPT ![n] =
                            DropIcon([@ EXCEPT !.icon = FALSE], <<"proxy", n>>)]
            /\ UNCHANGED <<rows, containers>>

RefreshIcons(t) ==
    LET s == Now(t)
    IN  /\ At(t, "refresh")
        /\ Continue(t)
        /\ dirs' = [dirs EXCEPT ![s.name] =
                IF @ = NetNone \/ s.id \notin LiveProxies THEN @
                ELSE Refreshed(@, s.name, {s.id})]
        /\ UNCHANGED <<rows, containers>>

(* Mutant: a boot does not refresh the configs. *)
RebootUnsynced ==
    /\ "crash" \in users.ops /\ asked < users.most
    /\ asked' = asked + 1
    /\ todo' = [t \in NetThreads |-> <<>>]
    /\ UNCHANGED <<rows, dirs, containers, users>>

(* The manager crashes and boots: what was under way is lost, and           *)
(* syncMiniMOTDConfigs refreshes the extra config of every member.          *)
Reboot ==
    /\ "crash" \in users.ops /\ asked < users.most
    /\ asked' = asked + 1
    /\ todo' = [t \in NetThreads |-> <<>>]
    /\ dirs' = [n \in NetNames |->
            IF ProxyNamed(n) /\ dirs[n] # NetNone
            THEN Refreshed(dirs[n], n, {p \in LiveProxies : proxies[p].name = n})
            ELSE dirs[n]]
    /\ UNCHANGED <<rows, containers, users>>

-----------------------------------------------------------------------------
(* Containers of proxies *)

Mark(p, run) == [do |-> "mark", id |-> p, run |-> run]

StartProxy(t) ==
    \E p \in LiveProxies :
        /\ Begin(t, "run", <<[do |-> "start", name |-> proxies[p].name], Mark(p, TRUE)>>)
        /\ UNCHANGED <<rows, dirs, containers>>

StopProxy(t) ==
    \E p \in LiveProxies :
        /\ Begin(t, "run", <<[do |-> "stop", name |-> proxies[p].name], Mark(p, FALSE)>>)
        /\ UNCHANGED <<rows, dirs, containers>>

(* A restart fails when there is nothing to stop; it removes the container  *)
(* before it creates a new one.                                             *)
RestartProxy(t) ==
    \E p \in LiveProxies :
        LET n == proxies[p].name
        IN  /\ n \in up
            /\ Begin(t, "run", <<[do |-> "stop", name |-> n], Mark(p, FALSE),
                                 [do |-> "start", name |-> n], Mark(p, TRUE)>>)
            /\ UNCHANGED <<rows, dirs, containers>>

Event(n, run) == Append(news, [name |-> n, run |-> run])

StartContainer(t) ==
    LET n == Now(t).name
    IN  /\ At(t, "start")
        /\ UNCHANGED <<rows, dirs, strayed>>
        /\ \/ /\ Continue(t)
              /\ up' = up \cup {n}
              /\ news' = IF n \in up THEN news ELSE Event(n, TRUE)
           \/ users.failing /\ Abort(t) /\ UNCHANGED <<up, news>>

(* Stop takes "No such container" for success, Delete ignores every error. *)
StopContainer(t) ==
    LET n == Now(t).name
    IN  /\ At(t, "stop") \/ At(t, "kill")
        /\ Continue(t)
        /\ up' = up \ {n}
        /\ news' = IF n \in up THEN Event(n, FALSE) ELSE news
        /\ UNCHANGED <<rows, dirs, strayed>>

MarkProxy(t) ==
    LET s == Now(t)
    IN  /\ At(t, "mark")
        /\ Continue(t)
        /\ proxies' = IF s.id \in LiveProxies
                      THEN [proxies EXCEPT ![s.id].run = s.run] ELSE proxies
        /\ UNCHANGED <<servers, dirs, containers>>

ProxyDies ==
    \E n \in up :
        /\ "run" \in users.ops /\ asked < users.most
        /\ asked' = asked + 1
        /\ up' = up \ {n}
        /\ news' = Event(n, FALSE)
        /\ UNCHANGED <<rows, dirs, todo, strayed, users>>

(* processEvent finds the row by the name the container was created with.   *)
ProxyEvent ==
    /\ news # <<>>
    /\ news' = Tail(news)
    /\ proxies' = [p \in DOMAIN proxies |->
            IF p \in LiveProxies /\ proxies[p].name = Head(news).name
            THEN [proxies[p] EXCEPT !.run = Head(news).run] ELSE proxies[p]]
    /\ UNCHANGED <<servers, dirs, up, todo, asked, strayed, users>>

-----------------------------------------------------------------------------
(* A proxy and a server behind it, each as its creation leaves it. *)
NetInit ==
    /\ users \in NetUsers
    /\ \E pn, sn \in NetNames, h \in NetPorts, limbo \in users.limbo :
        /\ pn # sn
        /\ servers = <<[name |-> sn, proxy |-> 1, port |-> BasePort(1) + 1,
                        udp |-> 0, domain |-> NetNone, lines |-> "null",
                        limbo |-> limbo]>>
        /\ proxies = <<[name |-> pn, port |-> h, udp |-> 0, run |-> FALSE]>>
        /\ dirs = [n \in NetNames |->
            CASE n = sn -> [NewDir EXCEPT !.online = FALSE, !.secret = 1,
                                          !.port = BasePort(1) + 1]
              [] n = pn -> [NewDir EXCEPT !.secret = 1,
                    !.toml = [servers |-> {<<sn, BasePort(1) + 1>>}, try |-> sn,
                              hosts |-> NoFiles]]
              [] OTHER -> NetNone]
    /\ up = {} /\ news = <<>> /\ asked = 0 /\ strayed = FALSE
    /\ todo = [t \in NetThreads |-> <<>>]

NetRequest(t) ==
    \/ CreateServer(t) \/ DeleteServer(t) \/ RenameServer(t) \/ SetLines(t)
    \/ SetServerUdp(t) \/ LeaveProxy(t) \/ JoinProxy(t) \/ SetDomain(t)
    \/ CreateProxy(t) \/ DeleteProxy(t) \/ RenameProxy(t) \/ SetProxyUdp(t)
    \/ UploadServerIcon(t) \/ DeleteServerIcon(t)
    \/ UploadProxyIcon(t) \/ DeleteProxyIcon(t)
    \/ StartProxy(t) \/ StopProxy(t) \/ RestartProxy(t)

NetStep(t) ==
    \/ SyncRead(t) \/ SyncWrite(t)
    \/ InsertServer(t) \/ ServerFiles(t) \/ ConfigureServer(t) \/ CreateMotd(t)
    \/ RemoveDir(t) \/ DeleteServerRow(t) \/ ForgetServer(t)
    \/ UpdateRow(t) \/ SetUdp(t) \/ ChangeServer(t) \/ LeaveMotd(t) \/ MoveMotd(t)
    \/ RenameMotdFiles(t) \/ LinesMotd(t)
    \/ AssignServer(t) \/ JoinFiles(t) \/ LeaveRow(t) \/ DomainRow(t)
    \/ InsertProxy(t) \/ ProxyFiles(t) \/ Unassign(t) \/ DeleteProxyRow(t)
    \/ ProxyRow(t) \/ RefreshIcons(t)
    \/ StartContainer(t) \/ StopContainer(t) \/ MarkProxy(t)

NetNext ==
    \/ \E t \in NetThreads : NetRequest(t) \/ NetStep(t)
    \/ Reboot \/ ProxyDies \/ ProxyEvent

NetSpec == NetInit /\ [][NetNext]_netVars

-----------------------------------------------------------------------------
(* Properties *)

NetTypeOK ==
    /\ \A i \in LiveServers :
        /\ servers[i].name \in NetNames /\ servers[i].proxy \in Nat
        /\ servers[i].lines \in {"null", "empty", "set"}
    /\ \A p \in LiveProxies : proxies[p].name \in NetNames
    /\ DOMAIN dirs = NetNames /\ up \subseteq NetNames
    /\ users.threads \subseteq NetThreads /\ asked \in 0 .. users.most

(* Whatever overlaps, fails or crashes, no two proxies have one host port   *)
(* and, where sanitized names are indexed, no two servers and no two        *)
(* proxies one name; a server's proxy has been created (the UNIQUE columns  *)
(* behind the handlers' unlocked checks).                                   *)
NetInv ==
    /\ NetTypeOK
    /\ \A p, q \in LiveProxies : proxies[p].port = proxies[q].port => p = q
    /\ users.indexed =>
        /\ \A i, j \in LiveServers : servers[i].name = servers[j].name => i = j
        /\ \A p, q \in LiveProxies : proxies[p].name = proxies[q].name => p = q
    /\ \A i \in LiveServers : servers[i].proxy \in 0 .. Len(proxies)

(* Requests come one at a time. *)
OneThread == \E t \in NetThreads : users.threads = {t}

Serial == OneThread /\ "crash" \notin users.ops

AtRest == Serial /\ AllIdle

Behind(i) == servers[i].proxy \in LiveProxies

Joins == {"join", "move"} \cap users.ops # {}

(* A NanoLimbo server that joins by an update keeps the settings it has.    *)
Follows(i) == ~(servers[i].limbo /\ Joins)

(* With one request at a time and no failing step, velocity.toml of every   *)
(* proxy lists its members, their ports and domains, unless a server has    *)
(* moved straight from one proxy to another, which leaves it in the old     *)
(* proxy's file (AssignServerToProxy syncs only the new one); every         *)
(* member's server.properties has online-mode off; and the configuration it *)
(* reads has its port and the proxy's secret, NanoLimbo servers aside where *)
(* servers join by an update (ConfigureServerProxy has no case for them).   *)
SerialFilesAgree ==
    AtRest /\ ~users.failing =>
        /\ "move" \notin users.ops =>
            \A p \in LiveProxies : dirs[proxies[p].name].toml = VelocityOf(p)
        /\ \A i \in {j \in LiveServers : Behind(j)} :
            LET d == dirs[servers[i].name]
            IN  /\ ~d.online
                /\ Follows(i) => d.secret = servers[i].proxy /\ d.port = servers[i].port

(* With one request at a time, a proxy has a MiniMOTD config for every      *)
(* member with a MOTD line and for no server that is not a member or never  *)
(* had one, through moves, renames, icons and deletions.                    *)
SerialMotdFollowsRows ==
    AtRest /\ ~users.failing =>
        \A p \in LiveProxies :
            LET ms == Members(p)
                with(L) == {servers[i].name : i \in {j \in ms : servers[j].lines \in L}}
                extra == DOMAIN dirs[proxies[p].name].extra
            IN  with({"set"}) \subseteq extra /\ extra \subseteq with({"empty", "set"})

(* Where icons come and go and the manager crashes between the removal of a *)
(* proxy's icon and the refresh of the configs that inherit it, no config   *)
(* names a proxy icon that is not there: a boot heals what a crash left.    *)
SerialIconsResolve ==
    AllIdle /\ OneThread =>
        \A p \in LiveProxies :
            dirs[proxies[p].name] # NetNone =>
                LET d == dirs[proxies[p].name]
                IN  \A n \in DOMAIN d.extra :
                        d.extra[n] # NetNone /\ d.extra[n][1] = "proxy" =>
                            d.extra[n] \in d.icons

(* MiniMOTD shows what the rows and the uploads say. *)
SerialMotdRight == SerialMotdFollowsRows /\ SerialIconsResolve

(* With one request at a time, even when file steps fail half way, no       *)
(* server shares its directory with a proxy, no directory is left without   *)
(* a row, the members of a proxy have ports of their own and no UDP port is *)
(* given twice.                                                             *)
SerialOwnDirectory ==
    AtRest =>
        /\ {servers[i].name : i \in LiveServers}
             \cap {proxies[p].name : p \in LiveProxies} = {}
        /\ {n \in NetNames : dirs[n] # NetNone}
             \subseteq {servers[i].name : i \in LiveServers}
                       \cup {proxies[p].name : p \in LiveProxies}
        /\ \A i, j \in {k \in LiveServers : Behind(k)} :
            servers[i].proxy = servers[j].proxy /\ servers[i].port = servers[j].port
                => i = j
        /\ \A i, j \in LiveServers : servers[i].udp = servers[j].udp /\ servers[i].udp # 0 => i = j
        /\ \A i \in LiveServers, p \in LiveProxies :
            servers[i].udp = 0 \/ servers[i].udp # proxies[p].udp

(* With one request at a time and every event handled, a proxy the manager  *)
(* calls stopped has no running container, unless it was renamed while it   *)
(* ran: the container then keeps a name no row has.                         *)
ProxyStatusSettles ==
    AtRest /\ news = <<>> /\ ~strayed =>
        /\ \A p \in LiveProxies : proxies[p].name \in up => proxies[p].run
        /\ up \subseteq {proxies[p].name : p \in LiveProxies}

=============================================================================
