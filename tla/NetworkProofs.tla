---------------------------- MODULE NetworkProofs -----------------------------
(***************************************************************************)
(* What is proved of the servers and proxies of Network: their rows, and    *)
(* what one request at a time makes of their directories, ports and         *)
(* containers.                                                              *)
(***************************************************************************)
EXTENDS Network, SequenceTheorems, WellFoundedInduction, TLAPS

-----------------------------------------------------------------------------
(***************************************************************************)
(* NetInv, for any names, ports, requests and failures.  What the UNIQUE    *)
(* columns promise rests on the rows alone, but that a row has a name and a *)
(* proxy that was created rests on the steps that are under way: they hold  *)
(* rows and names that they read, or checked, long before.                  *)
(***************************************************************************)
Sequence(s) == \E S : s \in Seq(S)

Lines == {"null", "empty", "set"}

(* A server's row, when n proxies have been created. *)
ServerRowOK(r, n) ==
    /\ {"name", "proxy", "port", "udp", "domain", "lines", "limbo"} \subseteq DOMAIN r
    /\ r.name \in NetNames /\ r.proxy \in 0 .. n /\ r.lines \in Lines

ProxyRowOK(r) ==
    /\ {"name", "port", "udp", "run"} \subseteq DOMAIN r
    /\ r.name \in NetNames

(* A step that puts a row or a name somewhere has one. *)
StepOK(s, n) ==
    /\ s.do = "insert" => ServerRowOK(s.row, n)
    /\ s.do = "row" => s.new \in NetNames /\ s.lines \in Lines \cup {NetNone}
    /\ s.do \in {"insertProxy", "proxyRow", "start"} => s.name \in NetNames

AllOK(q, n) == Sequence(q) /\ \A i \in DOMAIN q : StepOK(q[i], n)

ServersOK ==
    /\ Sequence(servers)
    /\ \A i \in LiveServers : ServerRowOK(servers[i], Len(proxies))
    /\ users.indexed =>
        \A i, j \in LiveServers : servers[i].name = servers[j].name => i = j

ProxiesOK ==
    /\ Sequence(proxies)
    /\ \A p \in LiveProxies : ProxyRowOK(proxies[p])
    /\ \A p, q \in LiveProxies : proxies[p].port = proxies[q].port => p = q
    /\ users.indexed =>
        \A p, q \in LiveProxies : proxies[p].name = proxies[q].name => p = q

StepsOK ==
    /\ DOMAIN todo = NetThreads
    /\ \A t \in NetThreads : AllOK(todo[t], Len(proxies))

RestOK ==
    /\ DOMAIN dirs = NetNames /\ up \subseteq NetNames
    /\ users \in NetUsers /\ asked \in 0 .. users.most

NetIInv == ServersOK /\ ProxiesOK /\ StepsOK /\ RestOK

(* Sequences of steps. *)
LEMMA Sequences ==
    ASSUME NEW s, Sequence(s)
    PROVE  /\ Len(s) \in Nat /\ DOMAIN s = 1 .. Len(s)
           /\ s = [i \in 1 .. Len(s) |-> s[i]]
  BY DEF Sequence

LEMMA IsSequence ==
    ASSUME NEW s, NEW n \in Nat, s = [i \in 1 .. n |-> s[i]]
    PROVE  Sequence(s) /\ Len(s) = n
  <1> DEFINE S == {s[i] : i \in 1 .. n}
  <1>1. \A i \in 1 .. n : s[i] \in S
    OBVIOUS
  <1> HIDE DEF S
  <1>2. s \in [1 .. n -> S]
    BY <1>1
  <1>3. s \in Seq(S)
    BY <1>2
  <1> QED
    BY <1>2, <1>3 DEF Sequence

LEMMA Concatenated ==
    ASSUME NEW n, NEW p, NEW q, AllOK(p, n), AllOK(q, n)
    PROVE  AllOK(p \o q, n)
  <1>1. PICK S : p \in Seq(S)
    BY DEF AllOK, Sequence
  <1>2. PICK T : q \in Seq(T)
    BY DEF AllOK, Sequence
  <1>3. p \in Seq(S \cup T) /\ q \in Seq(S \cup T)
    BY <1>1, <1>2
  <1>4. /\ p \o q \in Seq(S \cup T) /\ Len(p \o q) = Len(p) + Len(q)
        /\ \A i \in 1 .. Len(p) + Len(q) :
             (p \o q)[i] = IF i <= Len(p) THEN p[i] ELSE q[i - Len(p)]
    BY <1>3
  <1>5. /\ Len(p) \in Nat /\ Len(q) \in Nat
        /\ DOMAIN p = 1 .. Len(p) /\ DOMAIN q = 1 .. Len(q)
        /\ DOMAIN (p \o q) = 1 .. Len(p) + Len(q)
    BY <1>3, <1>4
  <1>6. \A i \in DOMAIN (p \o q) : StepOK((p \o q)[i], n)
    <2>1. ASSUME NEW i \in 1 .. Len(p) + Len(q) PROVE StepOK((p \o q)[i], n)
      <3>1. CASE i <= Len(p)
        <4>1. i \in DOMAIN p /\ (p \o q)[i] = p[i]
          BY <1>4, <1>5, <2>1, <3>1
        <4> QED
          BY <4>1 DEF AllOK
      <3>2. CASE ~(i <= Len(p))
        <4>1. i - Len(p) \in DOMAIN q /\ (p \o q)[i] = q[i - Len(p)]
          BY <1>4, <1>5, <2>1, <3>2
        <4> QED
          BY <4>1 DEF AllOK
      <3> QED
        BY <3>1, <3>2
    <2> QED
      BY <1>5, <2>1
  <1> QED
    BY <1>4, <1>6 DEF AllOK, Sequence

LEMMA FewSteps ==
    ASSUME NEW n
    PROVE  /\ AllOK(<<>>, n)
           /\ \A x : StepOK(x, n) => AllOK(<<x>>, n)
           /\ \A x, y : StepOK(x, n) /\ StepOK(y, n) => AllOK(<<x, y>>, n)
  <1>1. AllOK(<<>>, n)
    <2>1. <<>> \in Seq({})
      OBVIOUS
    <2>2. \A i : i \notin DOMAIN <<>>
      OBVIOUS
    <2> QED
      BY <2>1, <2>2 DEF AllOK, Sequence
  <1>2. ASSUME NEW x, StepOK(x, n) PROVE AllOK(<<x>>, n)
    <2>1. <<x>> \in Seq({x}) /\ DOMAIN <<x>> = {1} /\ <<x>>[1] = x
      OBVIOUS
    <2> QED
      BY <1>2, <2>1 DEF AllOK, Sequence
  <1>3. ASSUME NEW x, NEW y, StepOK(x, n), StepOK(y, n) PROVE AllOK(<<x, y>>, n)
    <2>1. <<x, y>> \in Seq({x, y}) /\ DOMAIN <<x, y>> = {1, 2} /\ <<x, y>>[1] = x /\ <<x, y>>[2] = y
      OBVIOUS
    <2> QED
      BY <1>3, <2>1 DEF AllOK, Sequence
  <1> QED
    BY <1>1, <1>2, <1>3

LEMMA FourSteps ==
    ASSUME NEW n, NEW w, NEW x, NEW y, NEW z,
           StepOK(w, n), StepOK(x, n), StepOK(y, n), StepOK(z, n)
    PROVE  AllOK(<<w, x, y, z>>, n)
  <1> DEFINE q == <<w, x, y, z>>
  <1>1. q \in Seq({w, x, y, z}) /\ DOMAIN q = 1 .. 4
    OBVIOUS
  <1>2. q[1] = w /\ q[2] = x /\ q[3] = y /\ q[4] = z
    OBVIOUS
  <1> HIDE DEF q
  <1>3. \A i \in DOMAIN q : StepOK(q[i], n)
    <2>1. \A i \in DOMAIN q : i = 1 \/ i = 2 \/ i = 3 \/ i = 4
      BY <1>1
    <2> QED
      BY <1>2, <2>1
  <1>4. AllOK(q, n)
    BY <1>1, <1>3 DEF AllOK, Sequence
  <1> QED
    BY <1>4 DEF q

LEMMA FirstAndOthers ==
    ASSUME NEW n, NEW q, AllOK(q, n), q # <<>>
    PROVE  StepOK(Head(q), n) /\ AllOK(Tail(q), n)
  <1>1. PICK S : q \in Seq(S)
    BY DEF AllOK, Sequence
  <1>2. /\ 1 \in DOMAIN q /\ Head(q) = q[1] /\ Tail(q) \in Seq(S)
        /\ DOMAIN Tail(q) = 1 .. Len(q) - 1 /\ DOMAIN q = 1 .. Len(q) /\ Len(q) \in Nat
        /\ \A i \in 1 .. Len(q) - 1 : Tail(q)[i] = q[i + 1]
    BY <1>1
  <1>3. \A i \in DOMAIN Tail(q) : i + 1 \in DOMAIN q
    BY <1>2
  <1> QED
    BY <1>2, <1>3 DEF AllOK, Sequence

(* Proxies are only ever added. *)
LEMMA MoreProxies ==
    ASSUME NEW n \in Nat, NEW m \in Nat, n <= m
    PROVE  /\ \A r : ServerRowOK(r, n) => ServerRowOK(r, m)
           /\ \A s : StepOK(s, n) => StepOK(s, m)
           /\ \A q : AllOK(q, n) => AllOK(q, m)
  <1>1. \A r : ServerRowOK(r, n) => ServerRowOK(r, m)
    BY DEF ServerRowOK
  <1>2. \A s : StepOK(s, n) => StepOK(s, m)
    BY <1>1 DEF StepOK
  <1> QED
    BY <1>1, <1>2 DEF AllOK

(* What a step leaves to do. *)
LEMMA TodoBecomes ==
    ASSUME StepsOK, NEW t \in NetThreads, NEW q, AllOK(q, Len(proxies')),
           todo' = [todo EXCEPT ![t] = q],
           Len(proxies) \in Nat, Len(proxies') \in Nat, Len(proxies) <= Len(proxies')
    PROVE  StepsOK'
  <1>1. \A u \in NetThreads : AllOK(todo[u], Len(proxies'))
    BY MoreProxies DEF StepsOK
  <1>2. DOMAIN todo' = NetThreads /\ \A u \in NetThreads : todo'[u] = IF u = t THEN q ELSE todo[u]
    BY DEF StepsOK
  <1>3. \A u \in NetThreads : AllOK(todo'[u], Len(proxies'))
    BY <1>1, <1>2
  <1> QED
    BY <1>2, <1>3 DEF StepsOK

LEMMA Onward ==
    ASSUME StepsOK, NEW t \in NetThreads, todo[t] # <<>>,
           Len(proxies) \in Nat, Len(proxies') \in Nat, Len(proxies) <= Len(proxies')
    PROVE  /\ Continue(t) => StepsOK'
           /\ \A q : AllOK(q, Len(proxies')) /\ GoOn(t, q) => StepsOK'
           /\ Abort(t) => StepsOK'
  <1>1. AllOK(Tail(todo[t]), Len(proxies'))
    BY FirstAndOthers, MoreProxies DEF StepsOK
  <1>2. ASSUME Continue(t) PROVE StepsOK'
    <2>1. todo' = [todo EXCEPT ![t] = Tail(todo[t])]
      BY <1>2 DEF Continue
    <2> QED
      BY <1>1, <2>1, TodoBecomes
  <1>3. ASSUME NEW q, AllOK(q, Len(proxies')), GoOn(t, q) PROVE StepsOK'
    <2>1. todo' = [todo EXCEPT ![t] = q \o Tail(todo[t])]
      BY <1>3 DEF GoOn
    <2>2. AllOK(q \o Tail(todo[t]), Len(proxies'))
      BY <1>1, <1>3, Concatenated
    <2> QED
      BY <2>1, <2>2, TodoBecomes
  <1>4. ASSUME Abort(t) PROVE StepsOK'
    <2>1. todo' = [todo EXCEPT ![t] = <<>>]
      BY <1>4 DEF Abort
    <2> QED
      BY <2>1, FewSteps, TodoBecomes
  <1> QED
    BY <1>2, <1>3, <1>4

LEMMA Begun ==
    ASSUME StepsOK, NEW t \in NetThreads, NEW kind, NEW q, AllOK(q, Len(proxies)),
           Begin(t, kind, q), Len(proxies) \in Nat, UNCHANGED proxies
    PROVE  StepsOK'
  <1>1. todo' = [todo EXCEPT ![t] = q] /\ Len(proxies') = Len(proxies)
    BY DEF Begin
  <1>2. AllOK(q, Len(proxies'))
    BY <1>1
  <1>3. Len(proxies') \in Nat /\ Len(proxies) <= Len(proxies')
    BY <1>1
  <1> QED
    BY <1>1, <1>2, <1>3, TodoBecomes

(* The rest: no step looks at more than the names. *)
LEMMA AskedOnce ==
    ASSUME RestOK
    PROVE  \A t, kind, q : Begin(t, kind, q) => users' = users /\ asked' \in 0 .. users.most
  <1>1. users.most \in Nat
    BY NetAssumption DEF RestOK
  <1> QED
    BY <1>1 DEF RestOK, Begin

LEMMA Moved ==
    ASSUME NEW o, NEW n, MoveDir(o, n)
    PROVE  DOMAIN dirs' = DOMAIN dirs
  BY DEF MoveDir

(* A request begins with its steps and leaves rows and containers to them. *)
LEMMA RequestBegins ==
    ASSUME NEW t, NetRequest(t)
    PROVE  /\ UNCHANGED <<servers, proxies, up, news, users>>
           /\ \E kind, q : Begin(t, kind, q)
  <1>1. \E kind, q : Begin(t, kind, q)
    BY ZenonT(60) DEF NetRequest, CreateServer, DeleteServer, RenameServer, SetLines, SetServerUdp,
       LeaveProxy, JoinProxy, SetDomain, UpdateServer, CreateProxy, DeleteProxy, RenameProxy,
       SetProxyUdp, UploadServerIcon, DeleteServerIcon, ServerIcon, UploadProxyIcon,
       DeleteProxyIcon, StartProxy, StopProxy, RestartProxy
  <1>2. UNCHANGED <<servers, proxies, up, news>>
    BY ZenonT(60) DEF NetRequest, CreateServer, DeleteServer, RenameServer, SetLines, SetServerUdp,
       LeaveProxy, JoinProxy, SetDomain, UpdateServer, CreateProxy, DeleteProxy, RenameProxy,
       SetProxyUdp, UploadServerIcon, DeleteServerIcon, ServerIcon, UploadProxyIcon,
       DeleteProxyIcon, StartProxy, StopProxy, RestartProxy, rows,
       containers
  <1> QED
    BY <1>1, <1>2 DEF Begin

(* A step is the first of those a thread has left. *)
LEMMA StepBusy ==
    ASSUME NEW t, NetStep(t)
    PROVE  todo[t] # <<>>
  BY Zenon DEF NetStep, SyncRead, SyncWrite, InsertServer, ServerFiles, ConfigureServer,
     CreateMotd, RemoveDir, DeleteServerRow, ForgetServer, UpdateRow, SetUdp, ChangeServer,
     LeaveMotd, MoveMotd, RenameMotdFiles, LinesMotd, AssignServer, JoinFiles, LeaveRow,
     DomainRow, InsertProxy, ProxyFiles, Unassign, DeleteProxyRow, ProxyRow, RefreshIcons,
     StartContainer, StopContainer, MarkProxy, At

LEMMA RestRequest ==
    ASSUME RestOK, NEW t \in NetThreads, NetRequest(t)
    PROVE  RestOK'
  <1>1. \E kind, q : Begin(t, kind, q)
    BY RequestBegins
  <1>2. up' = up
    BY RequestBegins
  <1>3. DOMAIN dirs' = NetNames
    <2>1. DOMAIN dirs = NetNames
      BY DEF RestOK
    <2>2. ASSUME RenameServer(t) \/ SetLines(t) \/ SetServerUdp(t) \/ LeaveProxy(t)
                 \/ JoinProxy(t) \/ SetDomain(t) \/ RenameProxy(t)
          PROVE  DOMAIN dirs' = NetNames
      BY <2>1, <2>2, Moved DEF RenameServer, SetLines, SetServerUdp, LeaveProxy, JoinProxy,
         SetDomain, UpdateServer, RenameProxy
    <2>3. ASSUME UploadServerIcon(t) \/ DeleteServerIcon(t) PROVE DOMAIN dirs' = NetNames
      BY <2>1, <2>3 DEF UploadServerIcon, DeleteServerIcon, ServerIcon
    <2>4. ASSUME UploadProxyIcon(t) \/ DeleteProxyIcon(t) PROVE DOMAIN dirs' = NetNames
      BY <2>1, <2>4 DEF UploadProxyIcon, DeleteProxyIcon
    <2>5. ASSUME CreateServer(t) \/ DeleteServer(t) \/ CreateProxy(t) \/ DeleteProxy(t)
                 \/ SetProxyUdp(t) \/ StartProxy(t) \/ StopProxy(t) \/ RestartProxy(t)
          PROVE  DOMAIN dirs' = NetNames
      BY <2>1, <2>5 DEF CreateServer, DeleteServer, CreateProxy, DeleteProxy,
         SetProxyUdp, StartProxy, StopProxy, RestartProxy
    <2> QED
      BY <2>2, <2>3, <2>4, <2>5 DEF NetRequest
  <1> QED
    BY <1>1, <1>2, <1>3, AskedOnce DEF RestOK

LEMMA AskedMore ==
    ASSUME RestOK, asked < users.most, asked' = asked + 1
    PROVE  asked' \in 0 .. users.most
  BY NetAssumption DEF RestOK

LEMMA StepUsers ==
    ASSUME NEW t, NetStep(t)
    PROVE  UNCHANGED <<asked, users>>
  <1>1. Continue(t) \/ Abort(t) \/ \E q : GoOn(t, q)
    BY ZenonT(60) DEF NetStep, SyncRead, SyncWrite, InsertServer, ServerFiles, ConfigureServer,
       CreateMotd, RemoveDir, DeleteServerRow, ForgetServer, UpdateRow, SetUdp, ChangeServer,
       LeaveMotd, MoveMotd, RenameMotdFiles, LinesMotd, AssignServer, JoinFiles, LeaveRow,
       DomainRow, InsertProxy, ProxyFiles, Unassign, DeleteProxyRow, ProxyRow, RefreshIcons,
       StartContainer, StopContainer, MarkProxy
  <1> QED
    BY <1>1 DEF Continue, Abort, GoOn

LEMMA RestStep ==
    ASSUME RestOK, StepsOK, NEW t \in NetThreads, NetStep(t)
    PROVE  RestOK'
  <1>1. users' = users /\ asked' \in 0 .. users.most
    BY StepUsers DEF RestOK
  <1>2. DOMAIN dirs = NetNames /\ up \subseteq NetNames
    BY DEF RestOK
  <1>3. up' \subseteq NetNames
    <2>1. CASE StartContainer(t)
      <3>1. Head(todo[t]).name \in NetNames
        BY <2>1, FirstAndOthers DEF StartContainer, At, StepsOK, StepOK
      <3> QED
        BY <1>2, <2>1, <3>1 DEF StartContainer, Now
    <2>2. CASE StopContainer(t)
      BY <1>2, <2>2 DEF StopContainer
    <2>3. CASE ~StartContainer(t) /\ ~StopContainer(t)
      <3>1. up' = up
        BY <2>3 DEF NetStep, SyncRead, SyncWrite, InsertServer, ServerFiles, ConfigureServer,
           CreateMotd, RemoveDir, DeleteServerRow, ForgetServer, UpdateRow, SetUdp, ChangeServer,
           LeaveMotd, MoveMotd, RenameMotdFiles, LinesMotd, AssignServer, JoinFiles, LeaveRow,
           DomainRow, InsertProxy, ProxyFiles, Unassign, DeleteProxyRow, ProxyRow, RefreshIcons,
           MarkProxy, containers
      <3> QED
        BY <1>2, <3>1
    <2> QED
      BY <2>1, <2>2, <2>3
  <1>4. DOMAIN dirs' = NetNames
    <2>1. ASSUME LeaveMotd(t) PROVE DOMAIN dirs' = NetNames
      BY <1>2, <2>1 DEF LeaveMotd, Change
    <2>2. ASSUME MoveMotd(t) PROVE DOMAIN dirs' = NetNames
      BY <1>2, <2>2 DEF MoveMotd, Change
    <2>3. ASSUME RenameMotdFiles(t) PROVE DOMAIN dirs' = NetNames
      BY <1>2, <2>3 DEF RenameMotdFiles, Change
    <2>4. ASSUME LinesMotd(t) PROVE DOMAIN dirs' = NetNames
      BY <1>2, <2>4 DEF LinesMotd, Change
    <2>5. ASSUME CreateMotd(t) PROVE DOMAIN dirs' = NetNames
      BY <1>2, <2>5 DEF CreateMotd
    <2>6. ASSUME SyncWrite(t) \/ ServerFiles(t) \/ ConfigureServer(t) \/ RemoveDir(t) \/ ForgetServer(t)
          PROVE  DOMAIN dirs' = NetNames
      BY <1>2, <2>6 DEF SyncWrite, ServerFiles, ConfigureServer, RemoveDir, ForgetServer
    <2>7. ASSUME JoinFiles(t) \/ LeaveRow(t) \/ DomainRow(t) \/ ProxyFiles(t) \/ RefreshIcons(t)
          PROVE  DOMAIN dirs' = NetNames
      BY <1>2, <2>7 DEF JoinFiles, LeaveRow, DomainRow, ProxyFiles, RefreshIcons
    <2>8. ASSUME \/ SyncRead(t) \/ InsertServer(t) \/ DeleteServerRow(t) \/ UpdateRow(t)
                 \/ SetUdp(t) \/ ChangeServer(t) \/ AssignServer(t) \/ InsertProxy(t)
                 \/ Unassign(t) \/ DeleteProxyRow(t) \/ ProxyRow(t)
                 \/ StartContainer(t) \/ StopContainer(t) \/ MarkProxy(t)
          PROVE  DOMAIN dirs' = NetNames
      BY <1>2, <2>8 DEF SyncRead, InsertServer, DeleteServerRow, UpdateRow, SetUdp,
         ChangeServer, AssignServer, InsertProxy, Unassign, DeleteProxyRow, ProxyRow,
         StartContainer, StopContainer, MarkProxy
    <2> QED
      BY <2>1, <2>2, <2>3, <2>4, <2>5, <2>6, <2>7, <2>8 DEF NetStep
  <1> QED
    BY <1>1, <1>3, <1>4 DEF RestOK

(* The proxies' rows. *)
Grown == Len(proxies) \in Nat /\ Len(proxies') \in Nat /\ Len(proxies) <= Len(proxies')

LEMMA ProxiesStay == ProxiesOK /\ UNCHANGED <<proxies, users>> => ProxiesOK' /\ Grown
  BY Sequences DEF ProxiesOK, LiveProxies, Grown

LEMMA ProxyAltered ==
    ASSUME ProxiesOK, NEW p \in LiveProxies, NEW z, proxies' = [proxies EXCEPT ![p] = z],
           UNCHANGED users,
           z # NetNone => ProxyRowOK(z) /\ z.port = proxies[p].port,
           z # NetNone /\ users.indexed =>
             \A q \in LiveProxies \ {p} : proxies[q].name # z.name
    PROVE  ProxiesOK' /\ Grown
  <1>1. /\ Len(proxies) \in Nat /\ DOMAIN proxies = 1 .. Len(proxies)
        /\ proxies = [q \in 1 .. Len(proxies) |-> proxies[q]]
    BY Sequences DEF ProxiesOK
  <1>2. /\ proxies' = [q \in 1 .. Len(proxies) |-> proxies'[q]]
        /\ \A q \in 1 .. Len(proxies) : proxies'[q] = IF q = p THEN z ELSE proxies[q]
    BY <1>1 DEF LiveProxies
  <1>3. Sequence(proxies') /\ Len(proxies') = Len(proxies)
    BY <1>1, <1>2, IsSequence
  <1>4. DOMAIN proxies' = DOMAIN proxies
    BY <1>1
  <1>5. \A q \in LiveProxies' : q \in LiveProxies /\ proxies'[q] = IF q = p THEN z ELSE proxies[q]
    BY <1>1, <1>2, <1>4 DEF LiveProxies
  <1>6. p \in LiveProxies' => z # NetNone
    BY <1>1, <1>2 DEF LiveProxies
  <1>7. \A q \in LiveProxies' : ProxyRowOK(proxies'[q]) /\ proxies'[q].port = proxies[q].port
    BY <1>5, <1>6 DEF ProxiesOK
  <1>8. \A q, r \in LiveProxies' : proxies'[q].port = proxies'[r].port => q = r
    BY <1>5, <1>7 DEF ProxiesOK
  <1>9. ASSUME users.indexed, NEW q \in LiveProxies', NEW r \in LiveProxies', proxies'[q].name = proxies'[r].name
        PROVE  q = r
    <2>1. CASE q = p /\ r # p
      BY <1>5, <1>6, <1>9, <2>1
    <2>2. CASE q # p /\ r = p
      BY <1>5, <1>6, <1>9, <2>2
    <2>3. CASE q # p /\ r # p
      BY <1>5, <1>9, <2>3 DEF ProxiesOK
    <2> QED
      BY <2>1, <2>2, <2>3
  <1>10. ProxiesOK'
    BY <1>3, <1>7, <1>8, <1>9 DEF ProxiesOK
  <1> QED
    BY <1>1, <1>3, <1>10 DEF Grown

LEMMA ProxyAdded ==
    ASSUME ProxiesOK, NEW z, proxies' = Append(proxies, z), UNCHANGED users, ProxyRowOK(z),
           \A q \in LiveProxies : proxies[q].port # z.port,
           users.indexed => \A q \in LiveProxies : proxies[q].name # z.name
    PROVE  ProxiesOK' /\ Grown
  <1>1. PICK S : proxies \in Seq(S)
    BY DEF ProxiesOK, Sequence
  <1>2. /\ proxies' \in Seq(S \cup {z}) /\ Len(proxies) \in Nat
        /\ Len(proxies') = Len(proxies) + 1
        /\ \A q \in 1 .. Len(proxies) : proxies'[q] = proxies[q]
        /\ proxies'[Len(proxies) + 1] = z
        /\ DOMAIN proxies = 1 .. Len(proxies) /\ DOMAIN proxies' = 1 .. Len(proxies) + 1
    BY <1>1
  <1>3. \A q \in LiveProxies' :
          IF q = Len(proxies) + 1 THEN proxies'[q] = z
          ELSE q \in LiveProxies /\ proxies'[q] = proxies[q]
    BY <1>2 DEF LiveProxies
  <1>4. \A q \in LiveProxies' : ProxyRowOK(proxies'[q])
    BY <1>3 DEF ProxiesOK
  <1>5. \A q, r \in LiveProxies : proxies[q].port = proxies[r].port => q = r
    BY DEF ProxiesOK
  <1>6. users.indexed => \A q, r \in LiveProxies : proxies[q].name = proxies[r].name => q = r
    BY DEF ProxiesOK
  <1>7. \A q, r \in LiveProxies' : proxies'[q].port = proxies'[r].port => q = r
    BY <1>3, <1>5, ZenonT(60)
  <1>8. ASSUME users.indexed, NEW q \in LiveProxies', NEW r \in LiveProxies', proxies'[q].name = proxies'[r].name
        PROVE  q = r
    <2>1. \A x, y \in LiveProxies : proxies[x].name = proxies[y].name => x = y
      BY <1>6, <1>8
    <2>2. \A x \in LiveProxies : proxies[x].name # z.name
      BY <1>8
    <2>3. proxies'[q].name = proxies'[r].name
      BY <1>8
    <2> HIDE <1>8
    <2> QED
      BY <1>3, <2>1, <2>2, <2>3
  <1>9. ProxiesOK'
    BY <1>2, <1>4, <1>7, <1>8 DEF ProxiesOK, Sequence
  <1> QED
    BY <1>2, <1>9 DEF Grown

LEMMA ProxiesEvent ==
    ASSUME ProxiesOK, ProxyEvent
    PROVE  ProxiesOK' /\ Grown
  <1>1. /\ Len(proxies) \in Nat /\ DOMAIN proxies = 1 .. Len(proxies)
        /\ proxies = [q \in 1 .. Len(proxies) |-> proxies[q]]
    BY Sequences DEF ProxiesOK
  <1>2. /\ proxies' = [q \in 1 .. Len(proxies) |-> proxies'[q]]
        /\ \A q \in 1 .. Len(proxies) :
             \/ proxies'[q] = proxies[q]
             \/ /\ q \in LiveProxies
                /\ proxies'[q] = [proxies[q] EXCEPT !.run = Head(news).run]
    BY <1>1 DEF ProxyEvent
  <1>3. Sequence(proxies') /\ Len(proxies') = Len(proxies) /\ DOMAIN proxies' = DOMAIN proxies
    BY <1>1, <1>2, IsSequence
  <1>4. ASSUME NEW q \in LiveProxies'
        PROVE  /\ q \in LiveProxies /\ ProxyRowOK(proxies'[q])
               /\ proxies'[q].port = proxies[q].port /\ proxies'[q].name = proxies[q].name
    <2>1. q \in 1 .. Len(proxies) /\ proxies'[q] # NetNone
      BY <1>1, <1>3 DEF LiveProxies
    <2>2. CASE proxies'[q] = proxies[q]
      BY <1>1, <2>1, <2>2 DEF LiveProxies, ProxiesOK
    <2>3. CASE q \in LiveProxies /\ proxies'[q] = [proxies[q] EXCEPT !.run = Head(news).run]
      <3>1. ProxyRowOK(proxies[q])
        BY <2>3 DEF ProxiesOK
      <3> QED
        BY <2>3, <3>1 DEF ProxyRowOK
    <2> QED
      BY <1>2, <2>1, <2>2, <2>3
  <1>5. /\ \A p, q \in LiveProxies' : proxies'[p].port = proxies'[q].port => p = q
        /\ users.indexed => \A p, q \in LiveProxies' : proxies'[p].name = proxies'[q].name => p = q
    BY <1>4 DEF ProxiesOK
  <1>6. ProxiesOK'
    BY <1>3, <1>4, <1>5 DEF ProxiesOK, ProxyEvent
  <1> QED
    BY <1>1, <1>3, <1>6 DEF Grown

LEMMA ProxiesStep ==
    ASSUME ProxiesOK, StepsOK, NEW t \in NetThreads, NetStep(t), UNCHANGED users
    PROVE  ProxiesOK' /\ Grown
  <1>1. CASE SetUdp(t)
    <2>1. ASSUME NEW p \in LiveProxies, NEW h, proxies' = [proxies EXCEPT ![p].udp = h]
          PROVE  ProxiesOK' /\ Grown
      <3> DEFINE z == [proxies[p] EXCEPT !.udp = h]
      <3>1. proxies' = [proxies EXCEPT ![p] = z]
        BY <2>1
      <3>2. ProxyRowOK(proxies[p])
        BY DEF ProxiesOK
      <3>3. ProxyRowOK(z) /\ z.port = proxies[p].port /\ z.name = proxies[p].name
        BY <3>2 DEF ProxyRowOK
      <3> HIDE DEF z
      <3> QED
        BY <3>1, <3>3, ProxyAltered DEF ProxiesOK
    <2> QED
      BY <1>1, <2>1, ProxiesStay DEF SetUdp, rows
  <1>2. CASE MarkProxy(t)
    <2>1. ASSUME NEW p \in LiveProxies, NEW h, proxies' = [proxies EXCEPT ![p].run = h]
          PROVE  ProxiesOK' /\ Grown
      <3> DEFINE z == [proxies[p] EXCEPT !.run = h]
      <3>1. proxies' = [proxies EXCEPT ![p] = z]
        BY <2>1
      <3>2. ProxyRowOK(proxies[p])
        BY DEF ProxiesOK
      <3>3. ProxyRowOK(z) /\ z.port = proxies[p].port /\ z.name = proxies[p].name
        BY <3>2 DEF ProxyRowOK
      <3> HIDE DEF z
      <3> QED
        BY <3>1, <3>3, ProxyAltered DEF ProxiesOK
    <2> QED
      BY <1>2, <2>1, ProxiesStay DEF MarkProxy
  <1>3. CASE DeleteProxyRow(t)
    BY <1>3, ProxyAltered, ProxiesStay DEF DeleteProxyRow
  <1>4. CASE ProxyRow(t)
    <2>1. ASSUME NEW p \in LiveProxies, NEW n \in NetNames, proxies' = [proxies EXCEPT ![p].name = n],
                 users.indexed => ~\E q \in LiveProxies \ {p} : proxies[q].name = n
          PROVE  ProxiesOK' /\ Grown
      <3> DEFINE z == [proxies[p] EXCEPT !.name = n]
      <3>1. proxies' = [proxies EXCEPT ![p] = z]
        BY <2>1
      <3>2. ProxyRowOK(proxies[p])
        BY DEF ProxiesOK
      <3>3. ProxyRowOK(z) /\ z.port = proxies[p].port /\ z.name = n
        BY <3>2 DEF ProxyRowOK
      <3> HIDE DEF z
      <3> QED
        BY <2>1, <3>1, <3>3, ProxyAltered
    <2>2. Now(t).name \in NetNames
      BY <1>4, FirstAndOthers DEF ProxyRow, At, Now, StepsOK, StepOK
    <2>3. PICK refused \in BOOLEAN :
            /\ users.indexed =>
                 (~refused => ~\E q \in LiveProxies \ {Now(t).id} : proxies[q].name = Now(t).name)
            /\ proxies' = IF Now(t).id \in LiveProxies /\ ~refused
                          THEN [proxies EXCEPT ![Now(t).id].name = Now(t).name] ELSE proxies
      BY <1>4 DEF ProxyRow, Refusals
    <2> QED
      BY <2>1, <2>2, <2>3, ProxiesStay
  <1>5. CASE InsertProxy(t)
    <2>1. Now(t).name \in NetNames
      BY <1>5, FirstAndOthers DEF InsertProxy, At, Now, StepsOK, StepOK
    <2>2. CASE UNCHANGED proxies
      BY <2>2, ProxiesStay
    <2>3. CASE ~UNCHANGED proxies
      <3> DEFINE z == [name |-> Now(t).name, port |-> Now(t).port, udp |-> 0, run |-> FALSE]
      <3>1. /\ users.indexed => ~ProxyNamed(Now(t).name)
            /\ ~\E q \in LiveProxies : proxies[q].port = Now(t).port
            /\ proxies' = Append(proxies, z)
        BY <1>5, <2>3 DEF InsertProxy, Refusals
      <3>2. ProxyRowOK(z) /\ z.port = Now(t).port /\ z.name = Now(t).name
        BY <2>1 DEF ProxyRowOK
      <3> HIDE DEF z
      <3> QED
        BY <3>1, <3>2, ProxyAdded DEF ProxyNamed
    <2> QED
      BY <2>2, <2>3
  <1>6. ASSUME ~SetUdp(t), ~MarkProxy(t), ~DeleteProxyRow(t), ~ProxyRow(t), ~InsertProxy(t)
        PROVE  UNCHANGED proxies
    BY <1>6 DEF NetStep, SyncRead, SyncWrite, InsertServer, ServerFiles, ConfigureServer,
       CreateMotd, RemoveDir, DeleteServerRow, ForgetServer, UpdateRow, ChangeServer,
       LeaveMotd, MoveMotd, RenameMotdFiles, LinesMotd, AssignServer, JoinFiles, LeaveRow,
       DomainRow, ProxyFiles, Unassign, RefreshIcons, StartContainer, StopContainer, rows
  <1> QED
    BY <1>1, <1>2, <1>3, <1>4, <1>5, <1>6, ProxiesStay

(* The servers' rows. *)
LEMMA ServersStay ==
    ASSUME ServersOK, Grown, UNCHANGED <<servers, users>>
    PROVE  ServersOK'
  <1>1. \A i \in LiveServers : ServerRowOK(servers[i], Len(proxies'))
    BY MoreProxies DEF ServersOK, Grown
  <1>2. LiveServers' = LiveServers
    BY DEF LiveServers
  <1> QED
    BY <1>1, <1>2 DEF ServersOK

(* Rows that are there keep their names, or get one that is free. *)
LEMMA ServersAltered ==
    ASSUME ServersOK, Grown, UNCHANGED users, DOMAIN servers' = DOMAIN servers,
           servers' = [i \in DOMAIN servers |-> servers'[i]],
           \A i \in LiveServers' : i \in LiveServers /\ ServerRowOK(servers'[i], Len(proxies')),
           users.indexed =>
             \/ \A i \in LiveServers' : servers'[i].name = servers[i].name
             \/ \E i \in LiveServers :
                  /\ \A j \in LiveServers' \ {i} : servers'[j].name = servers[j].name
                  /\ \A j \in LiveServers \ {i} : servers[j].name # servers'[i].name
    PROVE  ServersOK'
  <1>1. Len(servers) \in Nat /\ DOMAIN servers = 1 .. Len(servers)
    BY Sequences DEF ServersOK
  <1>2. Sequence(servers')
    BY <1>1, IsSequence
  <1>3. users.indexed => \A i, j \in LiveServers : servers[i].name = servers[j].name => i = j
    BY DEF ServersOK
  <1>4. ASSUME users.indexed, NEW i \in LiveServers', NEW j \in LiveServers',
               servers'[i].name = servers'[j].name
        PROVE  i = j
    BY <1>3, <1>4
  <1> QED
    BY <1>2, <1>4 DEF ServersOK

LEMMA OneServerAltered ==
    ASSUME ServersOK, Grown, UNCHANGED users, NEW i \in LiveServers, NEW z,
           servers' = [servers EXCEPT ![i] = z],
           z # NetNone => ServerRowOK(z, Len(proxies')) /\ z.name = servers[i].name
    PROVE  ServersOK'
  <1>1. /\ Len(servers) \in Nat /\ DOMAIN servers = 1 .. Len(servers)
        /\ servers = [j \in 1 .. Len(servers) |-> servers[j]]
    BY Sequences DEF ServersOK
  <1>2. /\ servers' = [j \in DOMAIN servers |-> servers'[j]] /\ DOMAIN servers' = DOMAIN servers
        /\ \A j \in DOMAIN servers : servers'[j] = IF j = i THEN z ELSE servers[j]
    BY <1>1 DEF LiveServers
  <1>3. \A j \in LiveServers' : /\ j \in LiveServers
                                /\ ServerRowOK(servers'[j], Len(proxies'))
                                /\ servers'[j].name = servers[j].name
    BY <1>2, MoreProxies DEF LiveServers, ServersOK, Grown
  <1> QED
    BY <1>2, <1>3, ServersAltered

LEMMA ServerAdded ==
    ASSUME ServersOK, NEW z, servers' = Append(servers, z), UNCHANGED <<users, proxies>>,
           ServerRowOK(z, Len(proxies)), users.indexed => ~ServerNamed(z.name)
    PROVE  ServersOK'
  <1>1. PICK S : servers \in Seq(S)
    BY DEF ServersOK, Sequence
  <1>2. /\ servers' \in Seq(S \cup {z}) /\ Len(servers) \in Nat
        /\ \A q \in 1 .. Len(servers) : servers'[q] = servers[q]
        /\ servers'[Len(servers) + 1] = z
        /\ DOMAIN servers = 1 .. Len(servers) /\ DOMAIN servers' = 1 .. Len(servers) + 1
    BY <1>1
  <1>3. \A q \in LiveServers' :
          IF q = Len(servers) + 1 THEN servers'[q] = z
          ELSE q \in LiveServers /\ servers'[q] = servers[q]
    BY <1>2 DEF LiveServers
  <1>4. \A q \in LiveServers' : ServerRowOK(servers'[q], Len(proxies))
    BY <1>3 DEF ServersOK
  <1>5. users.indexed => \A q, r \in LiveServers : servers[q].name = servers[r].name => q = r
    BY DEF ServersOK
  <1>6. ASSUME users.indexed, NEW q \in LiveServers', NEW r \in LiveServers', servers'[q].name = servers'[r].name
        PROVE  q = r
    <2>1. \A x, y \in LiveServers : servers[x].name = servers[y].name => x = y
      BY <1>5, <1>6
    <2>2. \A x \in LiveServers : servers[x].name # z.name
      BY <1>6 DEF ServerNamed
    <2>3. servers'[q].name = servers'[r].name
      BY <1>6
    <2> HIDE <1>6
    <2> QED
      BY <1>3, <2>1, <2>2, <2>3
  <1> QED
    BY <1>2, <1>4, <1>6 DEF ServersOK, Sequence

LEMMA ServersStep ==
    ASSUME ServersOK, ProxiesOK, StepsOK, Grown, NEW t \in NetThreads, NetStep(t), UNCHANGED users
    PROVE  ServersOK'
  <1>0. /\ Len(servers) \in Nat /\ DOMAIN servers = 1 .. Len(servers)
        /\ servers = [j \in 1 .. Len(servers) |-> servers[j]]
        /\ DOMAIN proxies = 1 .. Len(proxies)
    BY Sequences DEF ServersOK, ProxiesOK
  <1>1. \A i \in LiveServers : ServerRowOK(servers[i], Len(proxies'))
    BY MoreProxies DEF ServersOK, Grown
  <1>2. CASE InsertServer(t)
    <2>1. ServerRowOK(Now(t).row, Len(proxies))
      BY <1>2, FirstAndOthers DEF InsertServer, At, Now, StepsOK, StepOK
    <2>2. \/ servers' = servers
          \/ /\ servers' = Append(servers, Now(t).row)
             /\ users.indexed => ~ServerNamed(Now(t).row.name)
      BY <1>2 DEF InsertServer, Refusals
    <2> QED
      BY <1>2, <2>1, <2>2, ServerAdded, ServersStay DEF InsertServer
  <1>3. CASE DeleteServerRow(t)
    BY <1>3, OneServerAltered, ServersStay DEF DeleteServerRow
  <1>4. CASE UpdateRow(t)
    <2>1. Now(t).new \in NetNames /\ Now(t).lines \in Lines \cup {NetNone}
      BY <1>4, FirstAndOthers DEF UpdateRow, At, Now, StepsOK, StepOK
    <2>2. PICK kept \in BOOLEAN :
            /\ (\E j \in LiveServers \ {Now(t).id} : servers[j].name = Now(t).new) /\ users.indexed => kept
            /\ servers' = [j \in DOMAIN servers |->
                    IF j # Now(t).id \/ servers[j] = NetNone THEN servers[j]
                    ELSE [servers[j] EXCEPT
                            !.name = IF kept THEN servers[j].name ELSE Now(t).new,
                            !.lines = IF Now(t).lines = NetNone THEN servers[j].lines ELSE Now(t).lines]]
      BY <1>4, Zenon DEF UpdateRow, Refusals
    <2> DEFINE i == Now(t).id
               name(j) == IF kept THEN servers[j].name ELSE Now(t).new
               line(j) == IF Now(t).lines = NetNone THEN servers[j].lines ELSE Now(t).lines
               z(j) == [servers[j] EXCEPT !.name = name(j), !.lines = line(j)]
    <2>3. /\ servers' = [j \in DOMAIN servers |-> servers'[j]] /\ DOMAIN servers' = DOMAIN servers
          /\ \A j \in DOMAIN servers :
               servers'[j] = IF j # i \/ servers[j] = NetNone THEN servers[j] ELSE z(j)
      BY <2>2, Zenon
    <2>4. \A j \in LiveServers : name(j) \in NetNames /\ line(j) \in Lines
      BY <1>1, <2>1 DEF ServerRowOK
    <2> HIDE DEF line
    <2>5. ASSUME NEW j \in LiveServers PROVE ServerRowOK(z(j), Len(proxies')) /\ z(j).name = name(j)
      <3>1. ServerRowOK(servers[j], Len(proxies')) /\ name(j) \in NetNames /\ line(j) \in Lines
        BY <1>1, <2>4
      <3> HIDE DEF name
      <3> QED
        BY <3>1 DEF ServerRowOK
    <2> HIDE DEF z, i
    <2>6. \A j \in LiveServers' :
            /\ j \in LiveServers /\ ServerRowOK(servers'[j], Len(proxies'))
            /\ servers'[j].name = IF j = i THEN name(j) ELSE servers[j].name
      BY <1>1, <2>3, <2>5 DEF LiveServers
    <2>7. ASSUME users.indexed
          PROVE  \/ \A j \in LiveServers' : servers'[j].name = servers[j].name
                 \/ \E k \in LiveServers :
                      /\ \A j \in LiveServers' \ {k} : servers'[j].name = servers[j].name
                      /\ \A j \in LiveServers \ {k} : servers[j].name # servers'[k].name
      <3>1. CASE i \in LiveServers /\ ~kept
        <4>1. servers'[i] = z(i)
          BY <2>3, <3>1 DEF LiveServers
        <4>2. servers'[i].name = Now(t).new
          BY <2>5, <3>1, <4>1
        <4>3. \A j \in LiveServers' \ {i} : servers'[j].name = servers[j].name
          BY <2>6
        <4>4. \A j \in LiveServers \ {i} : servers[j].name # Now(t).new
          BY <2>2, <2>7, <3>1 DEF i
        <4> QED
          BY <3>1, <4>2, <4>3, <4>4
      <3>2. CASE i \notin LiveServers \/ kept
        BY <2>6, <3>2
      <3> QED
        BY <3>1, <3>2
    <2> QED
      BY <1>4, <2>3, <2>6, <2>7, ServersAltered
  <1>5. CASE SetUdp(t)
    <2>1. ASSUME NEW i \in LiveServers, NEW h, servers' = [servers EXCEPT ![i].udp = h]
          PROVE  ServersOK'
      <3> DEFINE z == [servers[i] EXCEPT !.udp = h]
      <3>1. servers' = [servers EXCEPT ![i] = z]
        BY <2>1
      <3>2. ServerRowOK(z, Len(proxies')) /\ z.name = servers[i].name
        BY <1>1 DEF ServerRowOK
      <3> HIDE DEF z
      <3> QED
        BY <3>1, <3>2, OneServerAltered
    <2> QED
      BY <1>5, <2>1, ServersStay DEF SetUdp, rows
  <1>6. CASE AssignServer(t)
    <2>1. ASSUME NEW i \in LiveServers, NEW p \in LiveProxies, NEW h,
                 servers' = [servers EXCEPT ![i].proxy = p, ![i].port = h, ![i].domain = NetNone]
          PROVE  ServersOK'
      <3> DEFINE z == [servers[i] EXCEPT !.proxy = p, !.port = h, !.domain = NetNone]
      <3>1. servers' = [servers EXCEPT ![i] = z]
        BY <1>0, <2>1 DEF LiveServers
      <3>2. p \in 0 .. Len(proxies')
        BY <1>0 DEF LiveProxies, Grown
      <3>3. ServerRowOK(z, Len(proxies')) /\ z.name = servers[i].name
        BY <1>1, <3>2 DEF ServerRowOK
      <3> HIDE DEF z
      <3> QED
        BY <3>1, <3>3, OneServerAltered
    <2>2. CASE UNCHANGED servers
      BY <2>2, ServersStay
    <2>3. CASE ~UNCHANGED servers
      <3>1. /\ Now(t).id \in LiveServers /\ Now(t).proxy \in LiveProxies
            /\ \E h : servers' = [servers EXCEPT ![Now(t).id].proxy = Now(t).proxy,
                                    ![Now(t).id].port = h, ![Now(t).id].domain = NetNone]
        BY <1>6, <2>3 DEF AssignServer
      <3> QED
        BY <2>1, <3>1
    <2> QED
      BY <2>2, <2>3
  <1>7. CASE LeaveRow(t)
    <2>1. ASSUME NEW i \in LiveServers, servers' = [servers EXCEPT ![i].proxy = 0, ![i].port = 0]
          PROVE  ServersOK'
      <3> DEFINE z == [servers[i] EXCEPT !.proxy = 0, !.port = 0]
      <3>1. servers' = [servers EXCEPT ![i] = z]
        BY <1>0, <2>1 DEF LiveServers
      <3>2. ServerRowOK(z, Len(proxies')) /\ z.name = servers[i].name
        BY <1>1 DEF ServerRowOK, Grown
      <3> HIDE DEF z
      <3> QED
        BY <3>1, <3>2, OneServerAltered
    <2> QED
      BY <1>7, <2>1, ServersStay DEF LeaveRow
  <1>8. CASE DomainRow(t)
    <2>1. ASSUME NEW i \in LiveServers, NEW h, servers' = [servers EXCEPT ![i].domain = h]
          PROVE  ServersOK'
      <3> DEFINE z == [servers[i] EXCEPT !.domain = h]
      <3>1. servers' = [servers EXCEPT ![i] = z]
        BY <2>1
      <3>2. ServerRowOK(z, Len(proxies')) /\ z.name = servers[i].name
        BY <1>1 DEF ServerRowOK
      <3> HIDE DEF z
      <3> QED
        BY <3>1, <3>2, OneServerAltered
    <2>2. servers' = IF Now(t).id \in LiveServers
                     THEN [servers EXCEPT ![Now(t).id].domain = Now(t).domain] ELSE servers
      BY <1>8 DEF DomainRow
    <2> QED
      BY <2>1, <2>2, ServersStay
  <1>9. CASE Unassign(t)
    <2>1. /\ servers' = [i \in DOMAIN servers |-> servers'[i]] /\ DOMAIN servers' = DOMAIN servers
          /\ \A i \in DOMAIN servers :
               \/ servers'[i] = servers[i]
               \/ i \in LiveServers /\ servers'[i] = [servers[i] EXCEPT !.proxy = 0]
      BY <1>9 DEF Unassign, Members
    <2>2. \A i \in LiveServers :
            LET z == [servers[i] EXCEPT !.proxy = 0]
            IN  ServerRowOK(z, Len(proxies')) /\ z.name = servers[i].name
      BY <1>1 DEF ServerRowOK, Grown
    <2>3. \A i \in LiveServers' : /\ i \in LiveServers
                                  /\ ServerRowOK(servers'[i], Len(proxies'))
                                  /\ servers'[i].name = servers[i].name
      BY <1>1, <2>1, <2>2 DEF LiveServers
    <2> QED
      BY <2>1, <2>3, ServersAltered
  <1>10. ASSUME ~InsertServer(t), ~DeleteServerRow(t), ~UpdateRow(t), ~SetUdp(t), ~AssignServer(t),
                ~LeaveRow(t), ~DomainRow(t), ~Unassign(t)
         PROVE  UNCHANGED servers
    BY <1>10 DEF NetStep, SyncRead, SyncWrite, ServerFiles, ConfigureServer,
       CreateMotd, RemoveDir, ForgetServer, ChangeServer,
       LeaveMotd, MoveMotd, RenameMotdFiles, LinesMotd, JoinFiles, InsertProxy, ProxyFiles,
       DeleteProxyRow, ProxyRow, RefreshIcons, StartContainer, StopContainer, MarkProxy, rows
  <1> QED
    BY <1>2, <1>3, <1>4, <1>5, <1>6, <1>7, <1>8, <1>9, <1>10, ServersStay

(* The steps that requests begin with, and that steps leave. *)
LEMMA StepsRequest ==
    ASSUME NetIInv, NEW t \in NetThreads, NetRequest(t)
    PROVE  StepsOK'
  <1> DEFINE n == Len(proxies)
  <1>0. n \in Nat /\ StepsOK /\ ServersOK /\ ProxiesOK
    BY Sequences DEF NetIInv, ProxiesOK
  <1>1. UNCHANGED proxies
    BY RequestBegins
  <1>2. SUFFICES \E kind, q : AllOK(q, n) /\ Begin(t, kind, q)
    BY <1>0, <1>1, Begun
  <1>3. CASE CreateServer(t)
    <2>1. PICK name \in NetNames, p \in LiveProxies \cup {0}, h \in NetPorts,
               domain \in NetDomains \cup {NetNone}, lines \in users.lines,
               limbo \in users.limbo :
            Begin(t, "create", <<[do |-> "insert",
                row |-> [name |-> name, proxy |-> p, udp |-> 0, domain |-> domain,
                         port |-> IF p = 0 THEN h ELSE NextPort(p),
                         lines |-> lines, limbo |-> limbo]]>>)
      BY <1>3 DEF CreateServer
    <2>2. lines \in Lines
      BY NetAssumption DEF NetIInv, RestOK, Lines
    <2>3. p \in 0 .. n
      BY <1>0, Sequences DEF LiveProxies, ProxiesOK
    <2> DEFINE r == [name |-> name, proxy |-> p, udp |-> 0, domain |-> domain,
                     port |-> IF p = 0 THEN h ELSE NextPort(p),
                     lines |-> lines, limbo |-> limbo]
    <2>4. ServerRowOK(r, n)
      BY <2>2, <2>3 DEF ServerRowOK
    <2> HIDE DEF r
    <2>5. StepOK([do |-> "insert", row |-> r], n)
      BY <2>4 DEF StepOK
    <2>6. AllOK(<<[do |-> "insert", row |-> r]>>, n)
      BY <2>5, FewSteps
    <2> QED
      BY <2>1, <2>6 DEF r
  <1>4. CASE DeleteServer(t)
    <2>1. PICK i \in LiveServers :
            Begin(t, "delete",
                <<[do |-> "rmdir", name |-> servers[i].name],
                  [do |-> "deleteServer", id |-> i]>> \o
                IF servers[i].proxy = 0 THEN <<>>
                ELSE <<SyncStep(servers[i].proxy),
                       [do |-> "forget", name |-> servers[i].name, proxy |-> servers[i].proxy]>>)
      BY <1>4 DEF DeleteServer
    <2> DEFINE one == <<[do |-> "rmdir", name |-> servers[i].name], [do |-> "deleteServer", id |-> i]>>
               two == <<SyncStep(servers[i].proxy),
                        [do |-> "forget", name |-> servers[i].name, proxy |-> servers[i].proxy]>>
               three == IF servers[i].proxy = 0 THEN <<>> ELSE two
    <2>2. AllOK(one, n)
      BY FewSteps DEF StepOK
    <2>3. AllOK(two, n)
      BY FewSteps DEF StepOK, SyncStep
    <2>4. AllOK(three, n)
      BY <2>3, FewSteps
    <2>5. Begin(t, "delete", one \o three)
      BY <2>1
    <2> HIDE DEF one, two, three
    <2> QED
      BY <2>2, <2>4, <2>5, Concatenated
  <1>5. ASSUME NEW kind, NEW f, NEW i \in LiveServers, UpdateServer(t, kind, f, i),
               f.name \in NetNames \cup {NetNone}, f.lines \in Lines \cup {NetNone}
        PROVE  \E k, q : AllOK(q, n) /\ Begin(t, k, q)
    <2> DEFINE new == IF f.name = NetNone THEN servers[i].name ELSE f.name
               one == <<[do |-> "row", id |-> i, new |-> new, lines |-> f.lines]>>
               two == IF f.udp = NetNone THEN <<>>
                      ELSE <<[do |-> "udp", server |-> i, proxy |-> 0, port |-> f.udp]>>
               three == <<[do |-> "change", id |-> i, cur |-> servers[i], fields |-> f,
                           at |-> ProxyName(servers[i].proxy)]>>
    <2>1. Begin(t, kind, one \o two \o three)
      BY <1>5 DEF UpdateServer
    <2>2. new \in NetNames
      BY <1>0, <1>5 DEF ServersOK, ServerRowOK
    <2> HIDE DEF new
    <2>3. AllOK(one, n)
      BY <1>5, <2>2, FewSteps DEF StepOK
    <2>4. AllOK(two, n)
      BY FewSteps DEF StepOK
    <2>5. AllOK(three, n)
      BY FewSteps DEF StepOK
    <2> HIDE DEF one, two, three
    <2> QED
      BY <2>1, <2>3, <2>4, <2>5, Concatenated
  <1>6. CASE RenameServer(t)
    <2>1. PICK i \in LiveServers, name \in NetNames :
            UpdateServer(t, "rename", [NoField EXCEPT !.name = name], i)
      BY <1>6 DEF RenameServer
    <2>2. LET f == [NoField EXCEPT !.name = name] IN f.name = name /\ f.lines = NetNone
      BY DEF NoField
    <2> QED
      BY <1>5, <2>1, <2>2
  <1>7. CASE SetLines(t)
    <2>1. PICK i \in LiveServers, l \in {"empty", "set"} :
            UpdateServer(t, "lines", [NoField EXCEPT !.lines = l], i)
      BY <1>7 DEF SetLines
    <2>2. LET f == [NoField EXCEPT !.lines = l] IN f.name = NetNone /\ f.lines \in Lines
      BY DEF NoField, Lines
    <2> QED
      BY <1>5, <2>1, <2>2
  <1>8. CASE SetServerUdp(t) \/ LeaveProxy(t) \/ JoinProxy(t) \/ SetDomain(t)
    <2>1. PICK i \in LiveServers : \E k, x :
            \/ UpdateServer(t, k, [NoField EXCEPT !.udp = x], i)
            \/ UpdateServer(t, k, [NoField EXCEPT !.proxy = x], i)
            \/ UpdateServer(t, k, [NoField EXCEPT !.domain = x], i)
      BY <1>8 DEF SetServerUdp, LeaveProxy, JoinProxy, SetDomain
    <2>2. \A x :
          /\ [NoField EXCEPT !.udp = x].name = NetNone /\ [NoField EXCEPT !.udp = x].lines = NetNone
          /\ [NoField EXCEPT !.proxy = x].name = NetNone /\ [NoField EXCEPT !.proxy = x].lines = NetNone
          /\ [NoField EXCEPT !.domain = x].name = NetNone /\ [NoField EXCEPT !.domain = x].lines = NetNone
      BY DEF NoField
    <2> QED
      BY <1>5, <2>1, <2>2
  <1>9. CASE CreateProxy(t)
    <2>1. PICK name \in NetNames, h \in NetPorts :
            Begin(t, "createProxy", <<[do |-> "insertProxy", name |-> name, port |-> h]>>)
      BY <1>9 DEF CreateProxy
    <2>2. AllOK(<<[do |-> "insertProxy", name |-> name, port |-> h]>>, n)
      BY FewSteps DEF StepOK
    <2> QED
      BY <2>1, <2>2
  <1>10. CASE DeleteProxy(t)
    <2>1. PICK p \in LiveProxies :
            Begin(t, "deleteProxy",
            <<[do |-> "kill", name |-> proxies[p].name],
              [do |-> "rmdir", name |-> proxies[p].name],
              [do |-> "unassign", id |-> p],
              [do |-> "deleteProxy", id |-> p]>>)
      BY <1>10 DEF DeleteProxy
    <2> DEFINE one == [do |-> "kill", name |-> proxies[p].name]
               two == [do |-> "rmdir", name |-> proxies[p].name]
               three == [do |-> "unassign", id |-> p]
               four == [do |-> "deleteProxy", id |-> p]
    <2>2. StepOK(one, n) /\ StepOK(two, n) /\ StepOK(three, n) /\ StepOK(four, n)
      BY DEF StepOK
    <2>3. Begin(t, "deleteProxy", <<one, two, three, four>>)
      BY <2>1
    <2> HIDE DEF one, two, three, four
    <2>4. AllOK(<<one, two, three, four>>, n)
      BY <2>2, FourSteps
    <2> QED
      BY <2>3, <2>4
  <1>11. CASE RenameProxy(t)
    <2>1. PICK p \in LiveProxies, name \in NetNames :
            Begin(t, "renameProxy", <<[do |-> "proxyRow", id |-> p, name |-> name]>>)
      BY <1>11 DEF RenameProxy
    <2>2. AllOK(<<[do |-> "proxyRow", id |-> p, name |-> name]>>, n)
      BY FewSteps DEF StepOK
    <2> QED
      BY <2>1, <2>2
  <1>12. CASE SetProxyUdp(t)
    <2>1. PICK p, h :
            Begin(t, "udp", <<[do |-> "udp", server |-> 0, proxy |-> p, port |-> h]>>)
      BY <1>12 DEF SetProxyUdp
    <2>2. AllOK(<<[do |-> "udp", server |-> 0, proxy |-> p, port |-> h]>>, n)
      BY FewSteps DEF StepOK
    <2> QED
      BY <2>1, <2>2
  <1>13. CASE UploadServerIcon(t) \/ DeleteServerIcon(t)
    <2>1. \E k : Begin(t, k, <<>>)
      BY <1>13 DEF UploadServerIcon, DeleteServerIcon, ServerIcon
    <2> QED
      BY <2>1, FewSteps
  <1>14. CASE UploadProxyIcon(t) \/ DeleteProxyIcon(t)
    <2>1. PICK p, name : Begin(t, "icons", <<[do |-> "refresh", id |-> p, name |-> name]>>)
      BY <1>14 DEF UploadProxyIcon, DeleteProxyIcon
    <2>2. AllOK(<<[do |-> "refresh", id |-> p, name |-> name]>>, n)
      BY FewSteps DEF StepOK
    <2> QED
      BY <2>1, <2>2
  <1>15. CASE StartProxy(t) \/ StopProxy(t) \/ RestartProxy(t)
    <2>1. PICK p \in LiveProxies :
            \/ Begin(t, "run", <<[do |-> "start", name |-> proxies[p].name], Mark(p, TRUE)>>)
            \/ Begin(t, "run", <<[do |-> "stop", name |-> proxies[p].name], Mark(p, FALSE)>>)
            \/ Begin(t, "run", <<[do |-> "stop", name |-> proxies[p].name], Mark(p, FALSE),
                                 [do |-> "start", name |-> proxies[p].name], Mark(p, TRUE)>>)
      BY <1>15 DEF StartProxy, StopProxy, RestartProxy
    <2> DEFINE start == [do |-> "start", name |-> proxies[p].name]
               stop == [do |-> "stop", name |-> proxies[p].name]
               on == Mark(p, TRUE)
               off == Mark(p, FALSE)
    <2>2. proxies[p].name \in NetNames
      BY <1>0 DEF ProxiesOK, ProxyRowOK
    <2>3. StepOK(start, n) /\ StepOK(stop, n) /\ StepOK(on, n) /\ StepOK(off, n)
      BY <2>2 DEF StepOK, Mark
    <2>4. \/ Begin(t, "run", <<start, on>>) \/ Begin(t, "run", <<stop, off>>)
          \/ Begin(t, "run", <<stop, off, start, on>>)
      BY <2>1
    <2> HIDE DEF start, stop, on, off
    <2>5. AllOK(<<start, on>>, n) /\ AllOK(<<stop, off>>, n) /\ AllOK(<<stop, off, start, on>>, n)
      BY <2>3, FewSteps, FourSteps
    <2> QED
      BY <2>4, <2>5
  <1> QED
    BY <1>3, <1>4, <1>6, <1>7, <1>8, <1>9, <1>10, <1>11, <1>12, <1>13, <1>14, <1>15 DEF NetRequest

LEMMA StepsStep ==
    ASSUME NetIInv, Grown, NEW t \in NetThreads, NetStep(t)
    PROVE  StepsOK'
  <1> DEFINE n == Len(proxies')
  <1>0. StepsOK /\ n \in Nat
    BY DEF NetIInv, Grown
  <1>1. todo[t] # <<>>
    BY DEF NetStep, SyncRead, SyncWrite, InsertServer, ServerFiles, ConfigureServer,
       CreateMotd, RemoveDir, DeleteServerRow, ForgetServer, UpdateRow, SetUdp, ChangeServer,
       LeaveMotd, MoveMotd, RenameMotdFiles, LinesMotd, AssignServer, JoinFiles, LeaveRow,
       DomainRow, InsertProxy, ProxyFiles, Unassign, DeleteProxyRow, ProxyRow, RefreshIcons,
       StartContainer, StopContainer, MarkProxy, At
  <1>2. /\ Continue(t) \/ Abort(t) => StepsOK'
        /\ \A q : AllOK(q, n) /\ GoOn(t, q) => StepsOK'
    BY <1>0, <1>1, Onward DEF Grown
  <1>3. SUFFICES Continue(t) \/ Abort(t) \/ \E q : AllOK(q, n) /\ GoOn(t, q)
    BY <1>2
  <1>4. \A p : AllOK(<<SyncStep(p)>>, n)
    BY FewSteps DEF StepOK, SyncStep
  <1>5. CASE SyncRead(t)
    <2>1. \A name, config : AllOK(<<[do |-> "toml", name |-> name, config |-> config]>>, n)
      BY FewSteps DEF StepOK
    <2> QED
      BY <1>5, <2>1 DEF SyncRead
  <1>6. CASE InsertServer(t)
    <2>1. CASE Abort(t)
      BY <2>1
    <2>2. CASE ~Abort(t)
      <3> DEFINE one == <<[do |-> "files", row |-> Now(t).row]>>
                 two == IF Now(t).row.proxy = 0 THEN <<>>
                        ELSE <<[do |-> "configure", row |-> Now(t).row]>>
      <3>1. GoOn(t, one \o two)
        BY <1>6, <2>2 DEF InsertServer
      <3>2. AllOK(one, n) /\ AllOK(two, n)
        BY FewSteps DEF StepOK
      <3> HIDE DEF one, two
      <3> QED
        BY <3>1, <3>2, Concatenated
    <2> QED
      BY <2>1, <2>2
  <1>7. CASE ConfigureServer(t)
    <2>1. \A pn, row : StepOK([do |-> "motd", at |-> pn, row |-> row], n)
      BY DEF StepOK
    <2>2. \A p : StepOK(SyncStep(p), n)
      BY DEF StepOK, SyncStep
    <2>3. \A p, pn, row : AllOK(<<SyncStep(p), [do |-> "motd", at |-> pn, row |-> row]>>, n)
      BY <2>1, <2>2, FewSteps
    <2> QED
      BY <1>7, <2>3 DEF ConfigureServer
  <1>8. CASE ChangeServer(t)
    <2> DEFINE i == Now(t).id
               cur == Now(t).cur
               f == Now(t).fields
               at == Now(t).at
               has == i \in LiveServers /\ servers[i].lines # "null"
               files(do, pn) == [do |-> do, at |-> pn, from |-> at, cur |-> cur, fields |-> f]
               proxied == cur.proxy # 0
               leave == IF proxied /\ has THEN <<files("unmotd", at)>> ELSE <<>>
               join == IF f.proxy \in LiveProxies /\ has
                       THEN <<files("moveMotd", ProxyName(f.proxy))>> ELSE <<>>
               one == CASE f.proxy = NetNone -> <<>>
                        [] f.proxy = 0 -> leave \o <<[do |-> "leave", id |-> i]>>
                        [] OTHER -> join \o <<[do |-> "assign", id |-> i, proxy |-> f.proxy]>>
               two == IF f.domain = NetNone THEN <<>>
                      ELSE <<[do |-> "domain", id |-> i, at |-> at, has |-> has,
                              name |-> cur.name, domain |-> f.domain]>>
               three == IF f.name # NetNone /\ has /\ proxied
                        THEN <<files("renameMotd", at)>> ELSE <<>>
               four == IF f.name # NetNone /\ proxied THEN <<SyncStep(cur.proxy)>> ELSE <<>>
               five == IF f.lines # NetNone /\ proxied THEN <<files("lines", at)>> ELSE <<>>
    <2>1. GoOn(t, one \o two \o three \o four \o five)
      BY <1>8 DEF ChangeServer
    <2>2. \A do, pn : do \in {"unmotd", "moveMotd", "renameMotd", "lines"} => AllOK(<<files(do, pn)>>, n)
      BY FewSteps DEF StepOK
    <2>3. AllOK(leave, n) /\ AllOK(join, n) /\ AllOK(three, n) /\ AllOK(five, n)
      BY <2>2, FewSteps
    <2>4. AllOK(two, n)
      BY FewSteps DEF StepOK
    <2>5. AllOK(four, n)
      BY <1>4, FewSteps
    <2>6. /\ \A x : AllOK(<<[do |-> "leave", id |-> x]>>, n)
          /\ \A x, p : AllOK(<<[do |-> "assign", id |-> x, proxy |-> p]>>, n)
      BY FewSteps DEF StepOK
    <2> HIDE DEF leave, join
    <2>7. AllOK(leave \o <<[do |-> "leave", id |-> i]>>, n)
      BY <2>3, <2>6, Concatenated
    <2>8. AllOK(join \o <<[do |-> "assign", id |-> i, proxy |-> f.proxy]>>, n)
      BY <2>3, <2>6, Concatenated
    <2>9. AllOK(one, n)
      BY <2>7, <2>8, FewSteps
    <2> HIDE DEF one, two, three, four, five
    <2> QED
      BY <2>1, <2>3, <2>4, <2>5, <2>9, Concatenated
  <1>9. CASE AssignServer(t)
    <2>1. \A name, limbo, port, p :
            AllOK(<<[do |-> "joinFiles", name |-> name, limbo |-> limbo, port |-> port,
                     proxy |-> p]>>, n)
      BY FewSteps DEF StepOK
    <2> QED
      BY <1>9, <2>1 DEF AssignServer
  <1>10. CASE JoinFiles(t)
    BY <1>4, <1>10 DEF JoinFiles
  <1>11. CASE LeaveRow(t)
    BY <1>4, <1>11 DEF LeaveRow
  <1>12. CASE DomainRow(t)
    BY <1>4, <1>12 DEF DomainRow
  <1>13. CASE InsertProxy(t)
    <2>1. \A p, name : AllOK(<<[do |-> "proxyFiles", id |-> p, name |-> name]>>, n)
      BY FewSteps DEF StepOK
    <2> QED
      BY <1>13, <2>1 DEF InsertProxy
  <1>14. ASSUME ~SyncRead(t), ~InsertServer(t), ~ConfigureServer(t), ~ChangeServer(t), ~AssignServer(t),
                ~JoinFiles(t), ~LeaveRow(t), ~DomainRow(t), ~InsertProxy(t)
         PROVE  Continue(t) \/ Abort(t)
    BY <1>14 DEF NetStep, SyncWrite, ServerFiles, CreateMotd, RemoveDir, DeleteServerRow,
       ForgetServer, UpdateRow, SetUdp, LeaveMotd, MoveMotd, RenameMotdFiles, LinesMotd,
       ProxyFiles, Unassign, DeleteProxyRow, ProxyRow, RefreshIcons,
       StartContainer, StopContainer, MarkProxy
  <1> QED
    BY <1>5, <1>6, <1>7, <1>8, <1>9, <1>10, <1>11, <1>12, <1>13, <1>14

LEMMA NetInitInv == NetInit => NetIInv
  <1> SUFFICES ASSUME NetInit PROVE NetIInv
    OBVIOUS
  <1>1. PICK pn \in NetNames, sn \in NetNames, h \in NetPorts, limbo \in users.limbo :
          /\ servers = <<[name |-> sn, proxy |-> 1, port |-> BasePort(1) + 1,
                          udp |-> 0, domain |-> NetNone, lines |-> "null",
                          limbo |-> limbo]>>
          /\ proxies = <<[name |-> pn, port |-> h, udp |-> 0, run |-> FALSE]>>
          /\ DOMAIN dirs = NetNames
    BY DEF NetInit
  <1>2. \A x : <<x>> \in Seq({x}) /\ DOMAIN <<x>> = {1} /\ Len(<<x>>) = 1 /\ <<x>>[1] = x
    OBVIOUS
  <1>2a. Sequence(servers) /\ DOMAIN servers = {1} /\ Sequence(proxies) /\ DOMAIN proxies = {1}
         /\ Len(proxies) = 1
    BY <1>1, <1>2 DEF Sequence
  <1>3. ServerRowOK(servers[1], 1) /\ ProxyRowOK(proxies[1])
    BY <1>1 DEF ServerRowOK, ProxyRowOK, Lines
  <1>4. ServersOK /\ ProxiesOK
    BY <1>2a, <1>3 DEF ServersOK, ProxiesOK, LiveServers, LiveProxies
  <1>5. StepsOK
    BY FewSteps DEF NetInit, StepsOK
  <1>6. RestOK
    BY <1>1, NetAssumption DEF NetInit, RestOK
  <1> QED
    BY <1>4, <1>5, <1>6 DEF NetIInv

LEMMA NetInvariance == NetSpec => []NetIInv
  <1>1. ASSUME NetIInv, [NetNext]_netVars PROVE NetIInv'
    <2>0. ServersOK /\ ProxiesOK /\ StepsOK /\ RestOK
      BY <1>1 DEF NetIInv
    <2>1. CASE UNCHANGED netVars
      BY <2>0, <2>1, ServersStay, ProxiesStay
         DEF netVars, NetIInv, StepsOK, RestOK, Grown
    <2>2. ASSUME NEW t \in NetThreads, NetStep(t) PROVE NetIInv'
      <3>1. RestOK' /\ UNCHANGED users
        BY <2>0, <2>2, RestStep, StepUsers
      <3>2. ProxiesOK' /\ Grown
        BY <2>0, <2>2, <3>1, ProxiesStep
      <3>3. ServersOK' /\ StepsOK'
        BY <1>1, <2>0, <2>2, <3>1, <3>2, ServersStep, StepsStep
      <3> QED
        BY <3>1, <3>2, <3>3 DEF NetIInv
    <2>3. ASSUME NEW t \in NetThreads, NetRequest(t) PROVE NetIInv'
      <3>1. UNCHANGED <<servers, proxies>> /\ UNCHANGED users
        BY <2>3, RequestBegins
      <3>2. ProxiesOK' /\ Grown
        BY <2>0, <3>1, ProxiesStay
      <3>3. ServersOK'
        BY <2>0, <3>1, <3>2, ServersStay
      <3> QED
        BY <1>1, <2>0, <2>3, <3>2, <3>3, RestRequest, StepsRequest DEF NetIInv
    <2>4. CASE Reboot
      <3>1. UNCHANGED <<servers, proxies, up, users>> /\ DOMAIN dirs' = NetNames
            /\ todo' = [t \in NetThreads |-> <<>>] /\ asked' \in 0 .. users.most
        BY <2>0, <2>4, AskedMore DEF Reboot, rows, containers, RestOK
      <3>2. ProxiesOK' /\ Grown
        BY <2>0, <3>1, ProxiesStay
      <3>3. StepsOK' /\ RestOK'
        BY <2>0, <3>1, FewSteps DEF StepsOK, RestOK
      <3> QED
        BY <2>0, <3>1, <3>2, <3>3, ServersStay DEF NetIInv
    <2>5. CASE ProxyDies
      <3>1. UNCHANGED <<servers, proxies, dirs, todo, users>>
            /\ asked' \in 0 .. users.most /\ up' \subseteq NetNames
        BY <2>0, <2>5, AskedMore DEF ProxyDies, rows, RestOK
      <3>2. ProxiesOK' /\ Grown
        BY <2>0, <3>1, ProxiesStay
      <3>3. StepsOK' /\ RestOK'
        BY <2>0, <3>1 DEF StepsOK, RestOK
      <3> QED
        BY <2>0, <3>1, <3>2, <3>3, ServersStay DEF NetIInv
    <2>6. CASE ProxyEvent
      <3>1. UNCHANGED <<servers, dirs, up, todo, asked, users>>
        BY <2>6 DEF ProxyEvent
      <3>2. ProxiesOK' /\ Grown
        BY <2>0, <2>6, ProxiesEvent
      <3>3. StepsOK'
        BY <2>0, <3>1, <3>2, MoreProxies DEF StepsOK, Grown
      <3>4. RestOK'
        BY <2>0, <3>1 DEF RestOK
      <3> QED
        BY <2>0, <3>1, <3>2, <3>3, <3>4, ServersStay DEF NetIInv
    <2> QED
      BY <1>1, <2>1, <2>2, <2>3, <2>4, <2>5, <2>6 DEF NetNext
  <1> QED
    BY <1>1, NetInitInv, PTL DEF NetSpec

(* Whatever overlaps, fails or crashes, host ports are the proxies' own, and *)
(* so are names where they are indexed, though the handlers check both long  *)
(* before they write; a server's proxy has been created.                     *)
THEOREM NetInvHolds == NetSpec => []NetInv
  <1>1. ASSUME NetIInv PROVE NetInv
    <2>1. NetTypeOK
      BY <1>1, NetAssumption
         DEF NetIInv, NetTypeOK, ServersOK, ServerRowOK, ProxiesOK, ProxyRowOK, RestOK, Lines
    <2> QED
      BY <1>1, <2>1 DEF NetIInv, NetInv, ServersOK, ServerRowOK, ProxiesOK
  <1> QED
    BY <1>1, NetInvariance, PTL


-----------------------------------------------------------------------------
(***************************************************************************)
(* SerialOwnDirectory and ProxyStatusSettles, for any names, ports, kinds   *)
(* of requests, failing steps and dying containers.  With one thread a      *)
(* request's steps follow each other, so what its handler checked holds     *)
(* until the step that relies on it: the invariant says, for each step that *)
(* gives or takes away a name, a directory or a container, what that is.    *)
(***************************************************************************)
ServerNames == {servers[i].name : i \in LiveServers}

ProxyNames == {proxies[p].name : p \in LiveProxies}

Directories == {n \in NetNames : dirs[n] # NetNone}

Turning == {"insert", "row", "rmdir", "deleteServer", "insertProxy", "proxyRow", "kill",
            "unassign", "deleteProxy", "start", "stop", "mark"}

(* Every other step makes a directory only for a row that is there. *)
PlainStep(s, sn, pn) ==
    /\ s.do \notin Turning
    /\ s.do \in {"files", "configure"} => s.row.name \in sn
    /\ s.do = "proxyFiles" => s.name \in pn
    /\ s.do \in {"motd", "moveMotd", "lines", "domain", "change"} => s.at \in pn \cup {NetNone}
    /\ s.do = "udp" => s.port \in Nat /\ (s.server = 0 \/ s.proxy = 0)
    /\ s.do = "change" => s.fields.domain \in RowDomains
    /\ s.do = "domain" => s.domain \in RowDomains

Plain(q, sn, pn) == \E S : q \in Seq(S) /\ \A s \in S : PlainStep(s, sn, pn)

Housed == Directories \subseteq ServerNames \cup ProxyNames

(* The stages of the thread: no row, directory or container changes its     *)
(* name, ...                                                                *)
Calm(t) == Plain(todo[t], ServerNames, ProxyNames) /\ Housed

(* ... a new row's name and port are free, ... *)
Inserting(t) ==
    LET row == Now(t).row
    IN  /\ At(t, "insert") /\ Tail(todo[t]) = <<>> /\ Housed
        /\ row.name \notin ServerNames \cup ProxyNames
        /\ row \in ServerRows /\ row.udp = 0
        /\ \A i \in LiveServers :
            servers[i].proxy = row.proxy /\ row.proxy # 0 => servers[i].port # row.port

InsertingProxy(t) ==
    /\ At(t, "insertProxy") /\ Tail(todo[t]) = <<>> /\ Housed
    /\ Now(t).name \notin ServerNames \cup ProxyNames
    /\ Now(t).name \in NetNames /\ Now(t).port \in Nat

(* ... the directory has moved to a name that is free and has left the old  *)
(* one, where a proxy has no container unless it has strayed, ...           *)
Renaming(t) ==
    LET s == Now(t)
    IN  /\ At(t, "row") /\ Plain(Tail(todo[t]), {}, ProxyNames)
        /\ s.id \in LiveServers
        /\ Directories \subseteq ServerNames \cup ProxyNames \cup {s.new}
        /\ \/ s.new = servers[s.id].name
           \/ /\ s.new \notin ServerNames \cup ProxyNames
              /\ servers[s.id].name \notin Directories

RenamingProxy(t) ==
    LET s == Now(t)
    IN  /\ At(t, "proxyRow") /\ Tail(todo[t]) = <<>>
        /\ s.id \in LiveProxies
        /\ Directories \subseteq ServerNames \cup ProxyNames \cup {s.name}
        /\ \/ s.name = proxies[s.id].name
           \/ /\ s.name \notin ServerNames \cup ProxyNames
              /\ proxies[s.id].name \notin Directories
              /\ strayed \/ proxies[s.id].name \notin up

(* ... the directory is the row's, or has gone, ... *)
Removing(t) ==
    LET r == Tail(todo[t])
    IN  /\ At(t, "rmdir") /\ Housed
        /\ r # <<>> /\ Head(r).do = "deleteServer" /\ Plain(Tail(r), {}, ProxyNames)
        /\ Head(r).id \in LiveServers /\ Now(t).name = servers[Head(r).id].name

Deleting(t) ==
    /\ At(t, "deleteServer") /\ Plain(Tail(todo[t]), {}, ProxyNames) /\ Housed
    /\ Now(t).id \in LiveServers /\ servers[Now(t).id].name \notin Directories

Stopped(n) == strayed \/ n \notin up

DeletingProxy(t) ==
    \E p \in LiveProxies :
        LET n == proxies[p].name
            kill == [do |-> "kill", name |-> n]
            rmdir == [do |-> "rmdir", name |-> n]
            unassign == [do |-> "unassign", id |-> p]
            delete == [do |-> "deleteProxy", id |-> p]
        IN  /\ Housed
            /\ \/ todo[t] = <<kill, rmdir, unassign, delete>>
               \/ Stopped(n) /\ todo[t] = <<rmdir, unassign, delete>>
               \/ /\ Stopped(n) /\ n \notin Directories
                  /\ todo[t] \in {<<unassign, delete>>, <<delete>>}

(* ... and a proxy is marked as stopped only after its container. *)
Switching(t) ==
    \E p \in LiveProxies :
        LET n == proxies[p].name
            start == [do |-> "start", name |-> n]
            stop == [do |-> "stop", name |-> n]
            on == Mark(p, TRUE)
            off == Mark(p, FALSE)
        IN  /\ Housed
            /\ \/ todo[t] \in {<<start, on>>, <<on>>, <<stop, off>>, <<stop, off, start, on>>}
               \/ Stopped(n) /\ todo[t] \in {<<off>>, <<off, start, on>>}

Stage(t) ==
    \/ Calm(t) \/ Inserting(t) \/ InsertingProxy(t) \/ Renaming(t) \/ RenamingProxy(t)
    \/ Removing(t) \/ Deleting(t) \/ DeletingProxy(t) \/ Switching(t)

(* The last event of a name says that it runs; without one the row does. *)
Told(q, n, run) ==
    /\ \A k \in DOMAIN q :
        q[k].name = n /\ (\A j \in DOMAIN q : j > k => q[j].name # n) => q[k].run = TRUE
    /\ (\A k \in DOMAIN q : q[k].name # n) => run = TRUE

RowsTyped ==
    /\ \A i \in LiveServers : servers[i] \in ServerRows
    /\ \A p \in LiveProxies : proxies[p] \in ProxyRows

RowsApart ==
    /\ ServerNames \cap ProxyNames = {}
    /\ \A i, j \in LiveServers :
        /\ servers[i].proxy = servers[j].proxy /\ servers[i].proxy # 0
             /\ servers[i].port = servers[j].port => i = j
        /\ servers[i].udp = servers[j].udp /\ servers[i].udp # 0 => i = j
    /\ \A i \in LiveServers, p \in LiveProxies :
        servers[i].udp = 0 \/ servers[i].udp # proxies[p].udp
    /\ \E top \in Nat : \A i \in LiveServers : servers[i].port \in 0 .. top

RunsTold ==
    ~strayed =>
        /\ up \subseteq ProxyNames
        /\ \A p \in LiveProxies : proxies[p].name \in up => Told(news, proxies[p].name, proxies[p].run)

NetSerial ==
    Serial =>
        /\ news \in Seq([name : NetNames, run : BOOLEAN])
        /\ \A t \in NetThreads \ users.threads : todo[t] = <<>>
        /\ RowsTyped /\ RowsApart /\ RunsTold
        /\ \A t \in users.threads : Stage(t)


LEMMA LeastNatural ==
    ASSUME NEW T, T \subseteq Nat, T # {}
    PROVE  \E x \in T : \A y \in T : x <= y
  <1> DEFINE R == OpToRel(<, Nat)
  <1>1. IsWellFoundedOn(R, Nat)
    BY NatLessThanWellFounded
  <1>2. \A x, y \in Nat : x < y => <<x, y>> \in R
    BY DEF OpToRel
  <1> HIDE DEF R
  <1>3. PICK x \in T : \A y \in T : ~(<<y, x>> \in R)
    BY <1>1, WFMin
  <1>4. \A y \in T : x \in Nat /\ y \in Nat /\ ~(y < x)
    BY <1>2, <1>3
  <1> QED
    BY <1>3, <1>4

LEMMA Greatest ==
    ASSUME NEW S, NEW m \in Nat, S \subseteq 0 .. m, S # {}
    PROVE  Max(S) \in S /\ \A x \in S : x <= Max(S)
  <1> DEFINE T == {m - x : x \in S}
  <1>1. T \subseteq Nat /\ T # {}
    <2>1. \A x \in S : m - x \in Nat
      OBVIOUS
    <2> QED
      BY <2>1
  <1>2. PICK y \in T : \A z \in T : y <= z
    <2> HIDE DEF T
    <2> QED
      BY <1>1, LeastNatural
  <1>3. PICK w \in S : y = m - w
    OBVIOUS
  <1>4. \A x \in S : m - x \in T
    OBVIOUS
  <1> HIDE DEF T
  <1>5. \A x \in S : w >= x
    <2>1. ASSUME NEW x \in S PROVE w >= x
      <3>1. y <= m - x
        BY <1>2, <1>4
      <3> QED
        BY <1>3, <3>1
    <2> QED
      BY <2>1
  <1> QED
    BY <1>5 DEF Max


LEMMA PlainSteps ==
    ASSUME NEW sn, NEW pn
    PROVE  /\ Plain(<<>>, sn, pn)
           /\ \A x : PlainStep(x, sn, pn) => Plain(<<x>>, sn, pn)
           /\ \A x, y : PlainStep(x, sn, pn) /\ PlainStep(y, sn, pn) => Plain(<<x, y>>, sn, pn)
           /\ \A p, q : Plain(p, sn, pn) /\ Plain(q, sn, pn) => Plain(p \o q, sn, pn)
           /\ \A q : Plain(q, sn, pn) /\ q # <<>> =>
                PlainStep(Head(q), sn, pn) /\ Plain(Tail(q), sn, pn)
  <1>1. Plain(<<>>, sn, pn)
    <2> DEFINE S == {}
    <2>1. <<>> \in Seq(S) /\ \A s \in S : PlainStep(s, sn, pn)
      OBVIOUS
    <2> HIDE DEF S
    <2> QED
      BY <2>1 DEF Plain
  <1>2. ASSUME NEW x, PlainStep(x, sn, pn) PROVE Plain(<<x>>, sn, pn)
    <2> DEFINE S == {x}
    <2>1. <<x>> \in Seq(S) /\ \A s \in S : PlainStep(s, sn, pn)
      BY <1>2
    <2> HIDE DEF S
    <2> QED
      BY <2>1 DEF Plain
  <1>3. ASSUME NEW x, NEW y, PlainStep(x, sn, pn), PlainStep(y, sn, pn)
        PROVE  Plain(<<x, y>>, sn, pn)
    <2> DEFINE S == {x, y}
    <2>1. <<x, y>> \in Seq(S) /\ \A s \in S : PlainStep(s, sn, pn)
      BY <1>3
    <2> HIDE DEF S
    <2> QED
      BY <2>1 DEF Plain
  <1>4. ASSUME NEW p, NEW q, Plain(p, sn, pn), Plain(q, sn, pn)
        PROVE  Plain(p \o q, sn, pn)
    <2>1. PICK S : p \in Seq(S) /\ \A s \in S : PlainStep(s, sn, pn)
      BY <1>4 DEF Plain
    <2>2. PICK T : q \in Seq(T) /\ \A s \in T : PlainStep(s, sn, pn)
      BY <1>4 DEF Plain
    <2>3. p \in Seq(S \cup T) /\ q \in Seq(S \cup T)
      BY <2>1, <2>2
    <2>4. p \o q \in Seq(S \cup T)
      BY <2>3
    <2> QED
      BY <2>1, <2>2, <2>4 DEF Plain
  <1>5. ASSUME NEW q, Plain(q, sn, pn), q # <<>>
        PROVE  PlainStep(Head(q), sn, pn) /\ Plain(Tail(q), sn, pn)
    <2>1. PICK S : q \in Seq(S) /\ \A s \in S : PlainStep(s, sn, pn)
      BY <1>5 DEF Plain
    <2>2. Head(q) \in S /\ Tail(q) \in Seq(S)
      BY <1>5, <2>1
    <2> QED
      BY <2>1, <2>2 DEF Plain
  <1> QED
    BY <1>1, <1>2, <1>3, <1>4, <1>5

LEMMA PlainLonger ==
    ASSUME NEW q, NEW sn, NEW pn, NEW sm, NEW pm, Plain(q, sn, pn),
           sn \subseteq sm, pn \subseteq pm
    PROVE  Plain(q, sm, pm)
  <1>1. PICK S : q \in Seq(S) /\ \A s \in S : PlainStep(s, sn, pn)
    BY DEF Plain
  <1>2. \A s : PlainStep(s, sn, pn) => PlainStep(s, sm, pm)
    BY DEF PlainStep
  <1> QED
    BY <1>1, <1>2 DEF Plain

(* Taking steps off. *)
LEMMA Before ==
    ASSUME NEW s, NEW r, NEW sn, NEW pn, Plain(r, sn, pn)
    PROVE  <<s>> \o r # <<>> /\ Head(<<s>> \o r) = s /\ Tail(<<s>> \o r) = r
  <1>1. PICK S : r \in Seq(S)
    BY DEF Plain
  <1> QED
    BY <1>1

LEMMA BeforeTwo ==
    ASSUME NEW s, NEW u, NEW r, NEW sn, NEW pn, Plain(r, sn, pn)
    PROVE  /\ <<s, u>> \o r # <<>> /\ Head(<<s, u>> \o r) = s
           /\ Tail(<<s, u>> \o r) # <<>> /\ Head(Tail(<<s, u>> \o r)) = u
           /\ Tail(Tail(<<s, u>> \o r)) = r
  <1>1. PICK S : r \in Seq(S)
    BY DEF Plain
  <1> DEFINE q == <<s, u>> \o r
             n == Len(r)
  <1>2. r \in Seq(S \cup {s, u}) /\ <<s, u>> \in Seq(S \cup {s, u})
    BY <1>1
  <1>3. /\ q \in Seq(S \cup {s, u}) /\ Len(q) = n + 2 /\ n \in Nat
        /\ q[1] = s /\ q[2] = u /\ \A i \in 1 .. n : q[i + 2] = r[i]
    BY <1>2
  <1>4. r = [i \in 1 .. n |-> r[i]]
    BY <1>1
  <1> HIDE DEF q, n
  <1>5. /\ q # <<>> /\ Head(q) = s /\ Tail(q) \in Seq(S \cup {s, u}) /\ Len(Tail(q)) = n + 1
        /\ \A i \in 1 .. n + 1 : Tail(q)[i] = q[i + 1]
    BY <1>3
  <1> DEFINE v == Tail(q)
  <1>6. v[1] = u /\ \A i \in 1 .. n : v[i + 1] = r[i]
    BY <1>3, <1>5
  <1>7. v \in Seq(S \cup {s, u}) /\ Len(v) = n + 1
    BY <1>5
  <1> HIDE DEF v
  <1>8. /\ v # <<>> /\ Head(v) = u /\ Tail(v) \in Seq(S \cup {s, u}) /\ Len(Tail(v)) = n
        /\ \A i \in 1 .. n : Tail(v)[i] = v[i + 1]
    BY <1>3, <1>6, <1>7
  <1>9. Tail(v) = [i \in 1 .. n |-> Tail(v)[i]]
    BY <1>8, Sequences DEF Sequence
  <1>10. Tail(v) = r
    BY <1>4, <1>6, <1>8, <1>9
  <1> QED
    BY <1>5, <1>8, <1>10 DEF q, v

LEMMA TuplesOff ==
    /\ \A w, x : Head(<<w, x>>) = w /\ Tail(<<w, x>>) = <<x>>
    /\ \A w, x, y : Head(<<w, x, y>>) = w /\ Tail(<<w, x, y>>) = <<x, y>>
    /\ \A w, x, y, z : Head(<<w, x, y, z>>) = w /\ Tail(<<w, x, y, z>>) = <<x, y, z>>
    /\ \A w : Head(<<w>>) = w /\ Tail(<<w>>) = <<>>
  OBVIOUS


(* What the news tell, after one more event and after one less. *)
LEMMA ToldMore ==
    ASSUME NEW q, Sequence(q), NEW m, NEW r, NEW n, NEW run,
           (m = n /\ r = TRUE) \/ (m # n /\ Told(q, n, run))
    PROVE  Told(Append(q, [name |-> m, run |-> r]), n, run) /\ Sequence(Append(q, [name |-> m, run |-> r]))
  <1>1. PICK S : q \in Seq(S)
    BY DEF Sequence
  <1> DEFINE e == [name |-> m, run |-> r]
             v == Append(q, e)
  <1>2. /\ v \in Seq(S \cup {e}) /\ Len(q) \in Nat
        /\ DOMAIN q = 1 .. Len(q) /\ DOMAIN v = 1 .. Len(q) + 1
        /\ v[Len(q) + 1] = e /\ \A k \in 1 .. Len(q) : v[k] = q[k]
    BY <1>1
  <1>3. e.name = m /\ e.run = r
    OBVIOUS
  <1> SUFFICES Told(v, n, run) /\ Sequence(v)
    OBVIOUS
  <1> HIDE DEF v, e
  <1> DEFINE last == Len(q) + 1
  <1>3a. /\ last \in DOMAIN v /\ v[last].name = m /\ v[last].run = r
         /\ \A k \in DOMAIN v : k = last \/ (k \in DOMAIN q /\ v[k] = q[k] /\ last > k)
         /\ \A k \in DOMAIN q : k \in DOMAIN v /\ v[k] = q[k]
    BY <1>2, <1>3
  <1> HIDE DEF last
  <1>4. ASSUME m = n /\ r = TRUE PROVE Told(v, n, run)
    <2>1. ASSUME NEW k \in DOMAIN v, \A j \in DOMAIN v : j > k => v[j].name # n
          PROVE  v[k].run = TRUE
      BY <1>3a, <1>4, <2>1
    <2> QED
      BY <1>3a, <1>4, <2>1 DEF Told
  <1>5. ASSUME m # n /\ Told(q, n, run) PROVE Told(v, n, run)
    <2>1. ASSUME NEW k \in DOMAIN v, v[k].name = n, \A j \in DOMAIN v : j > k => v[j].name # n
          PROVE  v[k].run = TRUE
      <3>1. k \in DOMAIN q /\ q[k].name = n /\ v[k] = q[k]
        BY <1>3a, <1>5, <2>1
      <3>2. \A j \in DOMAIN q : j > k => q[j].name # n
        BY <1>3a, <2>1
      <3> QED
        BY <1>5, <3>1, <3>2 DEF Told
    <2>2. ASSUME \A k \in DOMAIN v : v[k].name # n PROVE run = TRUE
      <3>1. \A k \in DOMAIN q : q[k].name # n
        BY <1>3a, <2>2
      <3> QED
        BY <1>5, <3>1 DEF Told
    <2> QED
      BY <2>1, <2>2 DEF Told
  <1>6. Sequence(v)
    BY <1>2 DEF Sequence
  <1> QED
    BY <1>4, <1>5, <1>6

LEMMA ToldLess ==
    ASSUME NEW q, Sequence(q), q # <<>>, NEW n, NEW run, Told(q, n, run)
    PROVE  /\ Told(Tail(q), n, IF Head(q).name = n THEN Head(q).run ELSE run)
           /\ Sequence(Tail(q))
  <1>1. PICK S : q \in Seq(S)
    BY DEF Sequence
  <1> DEFINE v == Tail(q)
             first == Head(q)
  <1>2. /\ v \in Seq(S) /\ Len(q) \in Nat /\ Len(q) >= 1 /\ first = q[1]
        /\ DOMAIN q = 1 .. Len(q) /\ DOMAIN v = 1 .. Len(q) - 1
        /\ \A k \in 1 .. Len(q) - 1 : v[k] = q[k + 1]
    BY <1>1
  <1> HIDE DEF v, first
  <1>3. \A k \in DOMAIN v : k + 1 \in DOMAIN q /\ v[k] = q[k + 1] /\ k \in Nat
    BY <1>2
  <1>4. \A k \in DOMAIN q : k = 1 \/ (k - 1 \in DOMAIN v /\ q[k] = v[k - 1] /\ k \in Nat)
    BY <1>2
  <1>5. ASSUME NEW k \in DOMAIN v, v[k].name = n, \A j \in DOMAIN v : j > k => v[j].name # n
        PROVE  v[k].run = TRUE
    <2>1. k + 1 \in DOMAIN q /\ q[k + 1].name = n /\ k + 1 > 1
      BY <1>3, <1>5
    <2>2. ASSUME NEW j \in DOMAIN q, j > k + 1 PROVE q[j].name # n
      <3>1. j - 1 \in DOMAIN v /\ q[j] = v[j - 1] /\ j - 1 > k
        BY <1>3, <1>4, <2>2
      <3> QED
        BY <1>5, <3>1
    <2>3. q[k + 1].run = TRUE
      BY <2>1, <2>2 DEF Told
    <2> QED
      BY <1>3, <2>3
  <1>6. ASSUME \A k \in DOMAIN v : v[k].name # n
        PROVE  (IF first.name = n THEN first.run ELSE run) = TRUE
    <2>1. \A k \in DOMAIN q : k > 1 => q[k].name # n
      BY <1>4, <1>6
    <2>2. CASE first.name = n
      <3>1. 1 \in DOMAIN q /\ q[1].name = n
        BY <1>2, <2>2
      <3>2. q[1].run = TRUE
        BY <2>1, <3>1 DEF Told
      <3> QED
        BY <1>2, <2>2, <3>2
    <2>3. CASE first.name # n
      <3>1. \A k \in DOMAIN q : q[k].name # n
        BY <1>2, <1>4, <1>6, <2>3
      <3> QED
        BY <2>3, <3>1 DEF Told
    <2> QED
      BY <2>2, <2>3
  <1>7. Sequence(v)
    BY <1>2 DEF Sequence
  <1> QED
    BY <1>5, <1>6, <1>7 DEF v, first, Told

(* Rows whose names stay. *)
LEMMA ServerNamesStay ==
    ASSUME LiveServers' = LiveServers, \A i \in LiveServers : servers'[i].name = servers[i].name
    PROVE  ServerNames' = ServerNames
  BY DEF ServerNames

LEMMA ProxyNamesStay ==
    ASSUME LiveProxies' = LiveProxies, \A p \in LiveProxies : proxies'[p].name = proxies[p].name
    PROVE  ProxyNames' = ProxyNames
  BY DEF ProxyNames

LEMMA SameServers ==
    ASSUME UNCHANGED servers
    PROVE  LiveServers' = LiveServers /\ ServerNames' = ServerNames
  BY DEF LiveServers, ServerNames

LEMMA SameProxies ==
    ASSUME UNCHANGED proxies
    PROVE  LiveProxies' = LiveProxies /\ ProxyNames' = ProxyNames
  BY DEF LiveProxies, ProxyNames

LEMMA ProxyNameIs == \A p : ProxyName(p) \in ProxyNames \cup {NetNone}
  BY DEF ProxyName, ProxyNames

(* The head of what is left tells the stage. *)
LEMMA StageIs ==
    ASSUME NEW t, Stage(t), todo[t] # <<>>
    PROVE  /\ Head(todo[t]).do \notin Turning => Calm(t)
           /\ Head(todo[t]).do = "insert" => Inserting(t)
           /\ Head(todo[t]).do = "insertProxy" => InsertingProxy(t)
           /\ Head(todo[t]).do = "row" => Renaming(t)
           /\ Head(todo[t]).do = "proxyRow" => RenamingProxy(t)
           /\ Head(todo[t]).do = "rmdir" => Removing(t) \/ DeletingProxy(t)
           /\ Head(todo[t]).do = "deleteServer" => Deleting(t)
           /\ Head(todo[t]).do \in {"kill", "unassign", "deleteProxy"} => DeletingProxy(t)
           /\ Head(todo[t]).do \in {"start", "stop", "mark"} => Switching(t)
  <1> DEFINE do == Head(todo[t]).do
  <1>1. ASSUME Calm(t) PROVE do \notin Turning
    BY <1>1, PlainSteps DEF Calm, PlainStep
  <1>2. ASSUME DeletingProxy(t) PROVE do \in {"kill", "rmdir", "unassign", "deleteProxy"}
    BY <1>2, TuplesOff DEF DeletingProxy
  <1>3. ASSUME Switching(t) PROVE do \in {"start", "stop", "mark"}
    BY <1>3, TuplesOff DEF Switching, Mark
  <1>4. /\ Inserting(t) => do = "insert"
        /\ InsertingProxy(t) => do = "insertProxy"
        /\ Renaming(t) => do = "row"
        /\ RenamingProxy(t) => do = "proxyRow"
        /\ Removing(t) => do = "rmdir"
        /\ Deleting(t) => do = "deleteServer"
    BY DEF Inserting, InsertingProxy, Renaming, RenamingProxy, Removing, Deleting, At
  <1> HIDE DEF do
  <1>5. /\ do \notin Turning => Calm(t)
        /\ do = "insert" => Inserting(t)
        /\ do = "insertProxy" => InsertingProxy(t)
        /\ do = "row" => Renaming(t)
        /\ do = "proxyRow" => RenamingProxy(t)
        /\ do = "rmdir" => Removing(t) \/ DeletingProxy(t)
        /\ do = "deleteServer" => Deleting(t)
        /\ do \in {"kill", "unassign", "deleteProxy"} => DeletingProxy(t)
        /\ do \in {"start", "stop", "mark"} => Switching(t)
    BY <1>1, <1>2, <1>3, <1>4 DEF Stage, Turning
  <1> QED
    BY <1>5 DEF do

LEMMA StageSettles ==
    ASSUME NEW t, Stage(t), todo[t] = <<>>
    PROVE  Housed
  <1>1. ~DeletingProxy(t) /\ ~Switching(t)
    BY DEF DeletingProxy, Switching
  <1> QED
    BY <1>1 DEF Stage, Calm, Inserting, InsertingProxy, Renaming, RenamingProxy, Removing,
       Deleting, At

(* A plain step: names stay, and it makes no directory but of a row. *)
LEMMA CalmGoesOn ==
    ASSUME NEW t, t \in DOMAIN todo, Calm(t), todo[t] # <<>>,
           ServerNames' = ServerNames, ProxyNames' = ProxyNames,
           Directories' \subseteq Directories \cup ServerNames \cup ProxyNames
    PROVE  /\ Continue(t) \/ Abort(t) => Calm(t)'
           /\ \A q : Plain(q, ServerNames, ProxyNames) /\ GoOn(t, q) => Calm(t)'
  <1>1. Housed'
    BY DEF Calm, Housed
  <1>2. Plain(Tail(todo[t]), ServerNames, ProxyNames)
    BY PlainSteps DEF Calm
  <1>3. ASSUME Continue(t) PROVE Calm(t)'
    <2>1. todo'[t] = Tail(todo[t])
      BY <1>3 DEF Continue
    <2> QED
      BY <1>1, <1>2, <2>1 DEF Calm
  <1>4. ASSUME Abort(t) PROVE Calm(t)'
    <2>1. todo'[t] = <<>>
      BY <1>4 DEF Abort
    <2>2. Plain(todo'[t], ServerNames', ProxyNames')
      BY <2>1, PlainSteps
    <2> QED
      BY <1>1, <2>2 DEF Calm
  <1>5. ASSUME NEW q, Plain(q, ServerNames, ProxyNames), GoOn(t, q) PROVE Calm(t)'
    <2>1. todo'[t] = q \o Tail(todo[t])
      BY <1>5 DEF GoOn
    <2>2. Plain(q \o Tail(todo[t]), ServerNames, ProxyNames)
      BY <1>2, <1>5, PlainSteps
    <2> QED
      BY <1>1, <2>1, <2>2 DEF Calm
  <1> QED
    BY <1>3, <1>4, <1>5


LEMMA OneDirectory ==
    ASSUME DOMAIN dirs = NetNames, NEW x, \A n \in NetNames : n # x => dirs'[n] = dirs[n]
    PROVE  /\ Directories' \subseteq Directories \cup {x}
           /\ (x \in NetNames /\ dirs[x] = NetNone => dirs'[x] = NetNone) =>
                Directories' \subseteq Directories
  BY DEF Directories

(* Plain steps put files where a row is, or where files are. *)
LEMMA PlainDirectories ==
    ASSUME RestOK, NEW t \in NetThreads, NetStep(t), Calm(t)
    PROVE  Directories' \subseteq Directories \cup ServerNames \cup ProxyNames
  <1> DEFINE s == Head(todo[t])
  <1>0. DOMAIN dirs = NetNames /\ NetNone \notin NetNames
    BY NetAssumption DEF RestOK
  <1>1. todo[t] # <<>> => PlainStep(s, ServerNames, ProxyNames)
    BY PlainSteps DEF Calm
  <1> HIDE DEF s
  <1>2. Directories' \subseteq NetNames
    BY DEF Directories
  <1>3. CASE UNCHANGED dirs
    BY <1>3 DEF Directories
  <1>4. ASSUME NEW n, n \in {s.row.name, s.name, s.at} \cup ServerNames \cup ProxyNames \cup {NetNone},
               \A x \in NetNames : x # n => dirs'[x] = dirs[x],
               \/ n \in ServerNames \cup ProxyNames \cup {NetNone}
               \/ n \in NetNames /\ dirs[n] = NetNone => dirs'[n] = NetNone
        PROVE  Directories' \subseteq Directories \cup ServerNames \cup ProxyNames
    <2>1. Directories' \subseteq Directories \cup {n}
      BY <1>0, <1>4, OneDirectory
    <2>2. n \in ServerNames \cup ProxyNames \cup {NetNone} \/ Directories' \subseteq Directories
      BY <1>0, <1>4, OneDirectory
    <2> QED
      BY <1>0, <1>2, <2>1, <2>2
  <1>5. CASE SyncWrite(t)
    <2>1. /\ \A x \in NetNames : x # s.name => dirs'[x] = dirs[x]
          /\ s.name \in NetNames /\ dirs[s.name] = NetNone => dirs'[s.name] = NetNone
      BY <1>0, <1>5 DEF SyncWrite, Now, s
    <2> QED
      BY <1>4, <2>1
  <1>6. CASE ServerFiles(t)
    <2>1. \A x \in NetNames : x # s.row.name => dirs'[x] = dirs[x]
      BY <1>0, <1>6 DEF ServerFiles, Now, s
    <2>2. s.row.name \in ServerNames
      BY <1>1, <1>6 DEF ServerFiles, At, PlainStep, s
    <2> QED
      BY <1>4, <2>1, <2>2
  <1>7. CASE ConfigureServer(t)
    <2>1. \A x \in NetNames : x # s.row.name => dirs'[x] = dirs[x]
      BY <1>0, <1>7 DEF ConfigureServer, Now, s
    <2>2. s.row.name \in ServerNames
      BY <1>1, <1>7 DEF ConfigureServer, At, PlainStep, s
    <2> QED
      BY <1>4, <2>1, <2>2
  <1>8. CASE CreateMotd(t)
    <2>1. \A x \in NetNames : x # s.at => dirs'[x] = dirs[x]
      BY <1>0, <1>8 DEF CreateMotd, Now, s
    <2>2. s.at \in ProxyNames \cup {NetNone}
      BY <1>1, <1>8 DEF CreateMotd, At, PlainStep, s
    <2> QED
      BY <1>4, <2>1, <2>2
  <1>9. CASE ForgetServer(t)
    <2>1. \A x \in NetNames : dirs[x] = NetNone => dirs'[x] = NetNone
      BY <1>0, <1>9 DEF ForgetServer
    <2> QED
      BY <2>1 DEF Directories
  <1>10. CASE LeaveMotd(t)
    <2>1. /\ \A x \in NetNames : x # s.at => dirs'[x] = dirs[x]
          /\ s.at \in NetNames /\ dirs[s.at] = NetNone => dirs'[s.at] = NetNone
      BY <1>0, <1>10 DEF LeaveMotd, Now, Change, s
    <2> QED
      BY <1>4, <2>1
  <1>11. CASE MoveMotd(t)
    <2>1. \A x \in NetNames : x # s.at => dirs'[x] = dirs[x] \/ (dirs[x] = NetNone => dirs'[x] = NetNone)
      BY <1>0, <1>11 DEF MoveMotd, Now, Change, s
    <2>2. s.at \in ProxyNames \cup {NetNone}
      BY <1>1, <1>11 DEF MoveMotd, At, PlainStep, s
    <2> QED
      BY <1>0, <2>1, <2>2 DEF Directories
  <1>12. CASE RenameMotdFiles(t)
    <2>1. /\ \A x \in NetNames : x # s.at => dirs'[x] = dirs[x]
          /\ s.at \in NetNames /\ dirs[s.at] = NetNone => dirs'[s.at] = NetNone
      BY <1>0, <1>12 DEF RenameMotdFiles, Now, Change, s
    <2> QED
      BY <1>4, <2>1
  <1>13. CASE LinesMotd(t)
    <2>1. \A x \in NetNames : x # s.at => dirs'[x] = dirs[x]
      BY <1>0, <1>13 DEF LinesMotd, Now, s
    <2>2. s.at \in ProxyNames \cup {NetNone}
      BY <1>1, <1>13 DEF LinesMotd, At, PlainStep, s
    <2> QED
      BY <1>4, <2>1, <2>2
  <1>14. CASE JoinFiles(t)
    <2>1. /\ \A x \in NetNames : x # s.name => dirs'[x] = dirs[x]
          /\ s.name \in NetNames /\ dirs[s.name] = NetNone => dirs'[s.name] = NetNone
      BY <1>0, <1>14 DEF JoinFiles, Now, s
    <2> QED
      BY <1>4, <2>1
  <1>15. CASE LeaveRow(t)
    <2>1. CASE s.id \in LiveServers
      <3>1. \A x \in NetNames : x # servers[s.id].name => dirs'[x] = dirs[x]
        BY <1>0, <1>15, <2>1 DEF LeaveRow, Now, s
      <3>2. servers[s.id].name \in ServerNames
        BY <2>1 DEF ServerNames
      <3> QED
        BY <1>4, <3>1, <3>2
    <2>2. CASE s.id \notin LiveServers
      BY <1>3, <1>15, <2>2 DEF LeaveRow, Now, s
    <2> QED
      BY <2>1, <2>2
  <1>16. CASE DomainRow(t)
    <2>1. \A x \in NetNames : x # s.at => dirs'[x] = dirs[x]
      BY <1>0, <1>16 DEF DomainRow, Now, s
    <2>2. s.at \in ProxyNames \cup {NetNone}
      BY <1>1, <1>16 DEF DomainRow, At, PlainStep, s
    <2> QED
      BY <1>4, <2>1, <2>2
  <1>17. CASE ProxyFiles(t)
    <2>1. \A x \in NetNames : x # s.name => dirs'[x] = dirs[x]
      BY <1>0, <1>17 DEF ProxyFiles, Now, s
    <2>2. s.name \in ProxyNames
      BY <1>1, <1>17 DEF ProxyFiles, At, PlainStep, s
    <2> QED
      BY <1>4, <2>1, <2>2
  <1>18. CASE RefreshIcons(t)
    <2>1. /\ \A x \in NetNames : x # s.name => dirs'[x] = dirs[x]
          /\ s.name \in NetNames /\ dirs[s.name] = NetNone => dirs'[s.name] = NetNone
      BY <1>0, <1>18 DEF RefreshIcons, Now, s
    <2> QED
      BY <1>4, <2>1
  <1>19. CASE RemoveDir(t)
    <2>1. \A x \in NetNames : dirs[x] = NetNone => dirs'[x] = NetNone
      BY <1>0, <1>19 DEF RemoveDir
    <2> QED
      BY <2>1 DEF Directories
  <1>20. CASE \/ SyncRead(t) \/ InsertServer(t) \/ DeleteServerRow(t) \/ UpdateRow(t)
              \/ SetUdp(t) \/ ChangeServer(t) \/ AssignServer(t) \/ InsertProxy(t)
              \/ Unassign(t) \/ DeleteProxyRow(t) \/ ProxyRow(t)
              \/ StartContainer(t) \/ StopContainer(t) \/ MarkProxy(t)
    <2>1. UNCHANGED dirs
      BY <1>20, Zenon DEF SyncRead, InsertServer, DeleteServerRow, UpdateRow, SetUdp,
         ChangeServer, AssignServer, InsertProxy, Unassign, DeleteProxyRow, ProxyRow,
         StartContainer, StopContainer, MarkProxy
    <2> QED
      BY <1>3, <2>1
  <1> QED
    BY <1>5, <1>6, <1>7, <1>8, <1>9, <1>10, <1>11, <1>12, <1>13, <1>14, <1>15, <1>16, <1>17, <1>18,
       <1>19, <1>20 DEF NetStep


(* Rows: what an UPDATE, an INSERT or a DELETE leaves.  *)
LEMMA Domains ==
    /\ \A d \in NetDomains \cup {NetNone} : d \in RowDomains
    /\ \A d \in NetDomains \cup {""} : d \in RowDomains
  BY Zenon DEF RowDomains

LEMMA ServerSet ==
    ASSUME Sequence(servers), NEW i \in LiveServers, NEW z,
           servers' = [servers EXCEPT ![i] = z]
    PROVE  /\ \A j \in LiveServers' : \/ j = i /\ servers'[j] = z
                                      \/ j # i /\ j \in LiveServers /\ servers'[j] = servers[j]
           /\ z # NetNone => LiveServers' = LiveServers
           /\ \A j \in LiveServers \ {i} : j \in LiveServers' /\ servers'[j] = servers[j]
           /\ servers'[i] = z
  BY Sequences DEF LiveServers

LEMMA ProxySet ==
    ASSUME Sequence(proxies), NEW p \in LiveProxies, NEW z,
           proxies' = [proxies EXCEPT ![p] = z]
    PROVE  /\ \A q \in LiveProxies' : \/ q = p /\ proxies'[q] = z
                                      \/ q # p /\ q \in LiveProxies /\ proxies'[q] = proxies[q]
           /\ z # NetNone => LiveProxies' = LiveProxies
           /\ \A q \in LiveProxies \ {p} : q \in LiveProxies' /\ proxies'[q] = proxies[q]
           /\ proxies'[p] = z
  BY Sequences DEF LiveProxies

LEMMA ServerPut ==
    ASSUME Sequence(servers), NEW z, z # NetNone, servers' = Append(servers, z)
    PROVE  /\ Len(servers) + 1 \notin LiveServers
           /\ LiveServers' = LiveServers \cup {Len(servers) + 1}
           /\ servers'[Len(servers) + 1] = z
           /\ \A j \in LiveServers : servers'[j] = servers[j]
  <1>1. PICK S : servers \in Seq(S)
    BY DEF Sequence
  <1>2. /\ servers' \in Seq(S \cup {z}) /\ Len(servers) \in Nat
        /\ \A q \in 1 .. Len(servers) : servers'[q] = servers[q]
        /\ servers'[Len(servers) + 1] = z
        /\ DOMAIN servers = 1 .. Len(servers) /\ DOMAIN servers' = 1 .. Len(servers) + 1
    BY <1>1
  <1> QED
    BY <1>2 DEF LiveServers

LEMMA ProxyPut ==
    ASSUME Sequence(proxies), NEW z, z # NetNone, proxies' = Append(proxies, z)
    PROVE  /\ Len(proxies) + 1 \notin LiveProxies
           /\ LiveProxies' = LiveProxies \cup {Len(proxies) + 1}
           /\ proxies'[Len(proxies) + 1] = z
           /\ \A q \in LiveProxies : proxies'[q] = proxies[q]
  <1>1. PICK S : proxies \in Seq(S)
    BY DEF Sequence
  <1>2. /\ proxies' \in Seq(S \cup {z}) /\ Len(proxies) \in Nat
        /\ \A q \in 1 .. Len(proxies) : proxies'[q] = proxies[q]
        /\ proxies'[Len(proxies) + 1] = z
        /\ DOMAIN proxies = 1 .. Len(proxies) /\ DOMAIN proxies' = 1 .. Len(proxies) + 1
    BY <1>1
  <1> QED
    BY <1>2 DEF LiveProxies

(* The next port of a proxy is none of its members'. *)
LEMMA NextPortFree ==
    ASSUME RowsApart, NEW p \in Nat
    PROVE  /\ NextPort(p) \in Nat
           /\ \A i \in LiveServers : servers[i].proxy = p => servers[i].port # NextPort(p)
  <1> DEFINE S == {servers[i].port : i \in Members(p)}
  <1>1. PICK top \in Nat : \A i \in LiveServers : servers[i].port \in 0 .. top
    BY DEF RowsApart
  <1>2. S \subseteq 0 .. top
    BY <1>1 DEF Members
  <1>3. \A i \in LiveServers : servers[i].proxy = p => servers[i].port \in S
    BY DEF Members
  <1>4. CASE Members(p) = {}
    <2>1. NextPort(p) = 1 + 100 * p
      BY <1>4 DEF NextPort, BasePort
    <2>2. \A i \in LiveServers : servers[i].proxy # p
      BY <1>4 DEF Members
    <2> QED
      BY <2>1, <2>2
  <1>5. CASE Members(p) # {}
    <2>1. NextPort(p) = 1 + Max(S)
      BY <1>5 DEF NextPort
    <2>2. S # {}
      BY <1>5
    <2> HIDE DEF S
    <2>3. Max(S) \in S /\ \A x \in S : x <= Max(S)
      BY <1>2, <2>2, Greatest
    <2>4. Max(S) \in 0 .. top
      BY <1>2, <2>3
    <2>5. \A x \in 0 .. top : x \in Nat
      OBVIOUS
    <2>6. Max(S) \in Nat
      BY <2>4, <2>5
    <2> QED
      BY <1>2, <1>3, <2>1, <2>3, <2>6
  <1> QED
    BY <1>4, <1>5

(* A server's row loses its proxy, its port or its name. *)
LEMMA ServersApart ==
    ASSUME RowsApart, UNCHANGED proxies, ServerNames' \cap ProxyNames = {},
           \A i \in LiveServers' :
             /\ i \in LiveServers /\ servers'[i].udp = servers[i].udp
             /\ \/ servers'[i].proxy = servers[i].proxy /\ servers'[i].port = servers[i].port
                \/ servers'[i].proxy = 0 /\ servers'[i].port \in {servers[i].port, 0}
    PROVE  RowsApart'
  <1>1. PICK top \in Nat : \A i \in LiveServers : servers[i].port \in 0 .. top
    BY DEF RowsApart
  <1>2. \A i \in LiveServers' : servers'[i].port \in 0 .. top
    BY <1>1
  <1>3. ASSUME NEW i \in LiveServers', NEW j \in LiveServers'
        PROVE  /\ servers'[i].proxy = servers'[j].proxy /\ servers'[i].proxy # 0
                    /\ servers'[i].port = servers'[j].port => i = j
               /\ servers'[i].udp = servers'[j].udp /\ servers'[i].udp # 0 => i = j
    BY DEF RowsApart
  <1>4. \A i \in LiveServers', p \in LiveProxies' : servers'[i].udp = 0 \/ servers'[i].udp # proxies'[p].udp
    BY DEF RowsApart, LiveProxies
  <1>5. ServerNames' \cap ProxyNames' = {}
    BY SameProxies
  <1> QED
    BY <1>2, <1>3, <1>4, <1>5 DEF RowsApart

(* A row gets a port that is free at its proxy. *)
LEMMA PortGiven ==
    ASSUME RowsApart, UNCHANGED proxies, ServerNames' \cap ProxyNames = {}, NEW k \in LiveServers',
           servers'[k].port \in Nat,
           servers'[k].proxy # 0 =>
             \A i \in LiveServers : servers[i].proxy = servers'[k].proxy =>
                servers[i].port # servers'[k].port,
           servers'[k].udp = 0 \/ (k \in LiveServers /\ servers'[k].udp = servers[k].udp),
           \A i \in LiveServers' \ {k} : i \in LiveServers /\ servers'[i] = servers[i]
    PROVE  RowsApart'
  <1>1. PICK top \in Nat : \A i \in LiveServers : servers[i].port \in 0 .. top
    BY DEF RowsApart
  <1>2. \E most \in Nat : \A i \in LiveServers' : servers'[i].port \in 0 .. most
    <2>1. \A i \in LiveServers' : servers'[i].port \in 0 .. top + servers'[k].port
      BY <1>1
    <2> QED
      BY <1>1, <2>1
  <1>3. ASSUME NEW i \in LiveServers', NEW j \in LiveServers'
        PROVE  /\ servers'[i].proxy = servers'[j].proxy /\ servers'[i].proxy # 0
                    /\ servers'[i].port = servers'[j].port => i = j
               /\ servers'[i].udp = servers'[j].udp /\ servers'[i].udp # 0 => i = j
    BY DEF RowsApart
  <1>4. \A i \in LiveServers', p \in LiveProxies' : servers'[i].udp = 0 \/ servers'[i].udp # proxies'[p].udp
    BY DEF RowsApart, LiveProxies
  <1>5. ServerNames' \cap ProxyNames' = {}
    BY SameProxies
  <1> QED
    BY <1>2, <1>3, <1>4, <1>5 DEF RowsApart

(* A proxy's row never gets a UDP port but the one it has. *)
LEMMA ProxiesApart ==
    ASSUME RowsApart, UNCHANGED servers, ServerNames \cap ProxyNames' = {},
           \A p \in LiveProxies' :
             proxies'[p].udp = 0 \/ (p \in LiveProxies /\ proxies'[p].udp = proxies[p].udp)
    PROVE  RowsApart'
  <1>1. /\ \E top \in Nat : \A i \in LiveServers' : servers'[i].port \in 0 .. top
        /\ \A i, j \in LiveServers' :
             /\ servers'[i].proxy = servers'[j].proxy /\ servers'[i].proxy # 0
                  /\ servers'[i].port = servers'[j].port => i = j
             /\ servers'[i].udp = servers'[j].udp /\ servers'[i].udp # 0 => i = j
    BY SameServers DEF RowsApart
  <1>2. \A i \in LiveServers', p \in LiveProxies' : servers'[i].udp = 0 \/ servers'[i].udp # proxies'[p].udp
    BY SameServers DEF RowsApart
  <1>3. ServerNames' \cap ProxyNames' = {}
    BY SameServers
  <1> QED
    BY <1>1, <1>2, <1>3 DEF RowsApart

(* A UDP port is given when nothing else has it. *)
LEMMA UdpGiven ==
    ASSUME RowsApart, NEW k, NEW q, NEW h \in Nat, k = 0 \/ q = 0, h # 0 => ~UdpTaken(h, k, q),
           LiveServers \subseteq Nat \ {0}, LiveProxies \subseteq Nat \ {0},
           LiveServers' = LiveServers, LiveProxies' = LiveProxies,
           ServerNames' = ServerNames, ProxyNames' = ProxyNames,
           \A i \in LiveServers : /\ servers'[i].proxy = servers[i].proxy
                                  /\ servers'[i].port = servers[i].port
                                  /\ servers'[i].udp = IF i = k THEN h ELSE servers[i].udp,
           \A p \in LiveProxies : proxies'[p].udp = IF p = q THEN h ELSE proxies[p].udp
    PROVE  RowsApart'
  <1>1. \E top \in Nat : \A i \in LiveServers' : servers'[i].port \in 0 .. top
    BY DEF RowsApart
  <1>2. /\ h # 0 => \A i \in LiveServers \ {k} : servers[i].udp # h
        /\ h # 0 => \A p \in LiveProxies \ {q} : proxies[p].udp # h
    BY DEF UdpTaken
  <1>3. ASSUME NEW i \in LiveServers', NEW j \in LiveServers'
        PROVE  /\ servers'[i].proxy = servers'[j].proxy /\ servers'[i].proxy # 0
                    /\ servers'[i].port = servers'[j].port => i = j
               /\ servers'[i].udp = servers'[j].udp /\ servers'[i].udp # 0 => i = j
    BY <1>2 DEF RowsApart
  <1>4. \A i \in LiveServers', p \in LiveProxies' : servers'[i].udp = 0 \/ servers'[i].udp # proxies'[p].udp
    BY <1>2 DEF RowsApart
  <1> QED
    BY <1>1, <1>3, <1>4 DEF RowsApart


(* What a stage leaves when only plain steps remain. *)
LEMMA NowPlain ==
    ASSUME NEW t, Plain(todo'[t], ServerNames', ProxyNames'), Housed'
    PROVE  Stage(t)'
  BY DEF Stage, Calm

LEMMA NowDone ==
    ASSUME NEW t, todo'[t] = <<>>, Housed'
    PROVE  Stage(t)'
  <1>1. Plain(todo'[t], ServerNames', ProxyNames')
    BY PlainSteps
  <1> QED
    BY <1>1, NowPlain

LEMMA SameDirectories ==
    ASSUME UNCHANGED dirs
    PROVE  Directories' = Directories
  BY DEF Directories

LEMMA Threads ==
    ASSUME NetIInv
    PROVE  DOMAIN todo = NetThreads /\ Sequence(servers) /\ Sequence(proxies)
  BY DEF NetIInv, StepsOK, ServersOK, ProxiesOK

LEMMA InsertServerSerial ==
    ASSUME NetIInv, RowsTyped, RowsApart, NEW t \in NetThreads, Stage(t), InsertServer(t)
    PROVE  RowsTyped' /\ RowsApart' /\ Stage(t)'
  <1> DEFINE z == Now(t).row
  <1>1. Inserting(t)
    BY StageIs DEF InsertServer, At
  <1>2. /\ UNCHANGED <<proxies, dirs>> /\ DOMAIN todo = NetThreads /\ Sequence(servers)
        /\ Tail(todo[t]) = <<>>
    BY <1>1, Threads DEF InsertServer, Inserting
  <1>3. /\ z \in ServerRows /\ z.name \notin ServerNames \cup ProxyNames /\ z.udp = 0 /\ Housed
        /\ \A i \in LiveServers :
            servers[i].proxy = z.proxy /\ z.proxy # 0 => servers[i].port # z.port
    BY <1>1 DEF Inserting
  <1>4. CASE Abort(t) /\ UNCHANGED servers
    <2>1. todo'[t] = <<>>
      BY <1>2, <1>4 DEF Abort
    <2>2. Housed' /\ RowsTyped' /\ RowsApart'
      BY <1>2, <1>3, <1>4, SameServers, SameProxies, SameDirectories
         DEF Housed, RowsTyped, RowsApart
    <2> QED
      BY <2>1, <2>2, NowDone
  <1>5. CASE ~(Abort(t) /\ UNCHANGED servers)
    <2> DEFINE one == <<[do |-> "files", row |-> z]>>
               two == IF z.proxy = 0 THEN <<>> ELSE <<[do |-> "configure", row |-> z]>>
    <2>1. GoOn(t, one \o two) /\ servers' = Append(servers, z)
      BY <1>5 DEF InsertServer
    <2> HIDE DEF z
    <2>2. z # NetNone
      BY <1>3, NetRowAssumption
    <2>3. /\ LiveServers' = LiveServers \cup {Len(servers) + 1} /\ Len(servers) + 1 \notin LiveServers
          /\ servers'[Len(servers) + 1] = z /\ \A j \in LiveServers : servers'[j] = servers[j]
      BY <1>2, <2>1, <2>2, ServerPut
    <2>4. ServerNames' = ServerNames \cup {z.name} /\ ProxyNames' = ProxyNames
      BY <1>2, <2>3, SameProxies DEF ServerNames
    <2>5. RowsTyped'
      BY <1>2, <1>3, <2>3, SameProxies DEF RowsTyped
    <2>6. RowsApart'
      <3> DEFINE k == Len(servers) + 1
      <3>1. ServerNames' \cap ProxyNames = {}
        BY <1>3, <2>4 DEF RowsApart
      <3>2. k \in LiveServers' /\ servers'[k] = z /\ z.port \in Nat
        BY <1>3, <2>3 DEF ServerRows
      <3>3. \A i \in LiveServers' \ {k} : i \in LiveServers /\ servers'[i] = servers[i]
        BY <2>3
      <3> HIDE DEF k
      <3> QED
        BY <1>2, <1>3, <3>1, <3>2, <3>3, PortGiven
    <2>7. Housed'
      BY <1>2, <1>3, <2>4, SameDirectories DEF Housed
    <2>8. Plain(one, ServerNames', ProxyNames') /\ Plain(two, ServerNames', ProxyNames')
      <3>1. /\ PlainStep([do |-> "files", row |-> z], ServerNames', ProxyNames')
            /\ PlainStep([do |-> "configure", row |-> z], ServerNames', ProxyNames')
        BY <2>4 DEF PlainStep, Turning
      <3> QED
        BY <3>1, PlainSteps
    <2>9. todo'[t] = (one \o two) \o <<>>
      BY <1>2, <2>1 DEF GoOn
    <2> HIDE DEF one, two
    <2>10. Plain(todo'[t], ServerNames', ProxyNames')
      BY <2>8, <2>9, PlainSteps
    <2> QED
      BY <2>5, <2>6, <2>7, <2>10, NowPlain
  <1> QED
    BY <1>4, <1>5

LEMMA DeleteServerRowSerial ==
    ASSUME NetIInv, RowsTyped, RowsApart, NEW t \in NetThreads, Stage(t), DeleteServerRow(t)
    PROVE  RowsTyped' /\ RowsApart' /\ Stage(t)'
  <1> DEFINE i == Now(t).id
  <1>1. Deleting(t)
    BY StageIs DEF DeleteServerRow, At
  <1>2. /\ UNCHANGED <<proxies, dirs>> /\ DOMAIN todo = NetThreads /\ Sequence(servers)
        /\ i \in LiveServers /\ servers[i].name \notin Directories
        /\ Plain(Tail(todo[t]), {}, ProxyNames) /\ Housed
    BY <1>1, Threads DEF DeleteServerRow, Deleting
  <1>3. Continue(t) /\ servers' = [servers EXCEPT ![i] = NetNone]
    BY <1>2 DEF DeleteServerRow
  <1> HIDE DEF i
  <1>4. /\ \A j \in LiveServers' : j \in LiveServers /\ servers'[j] = servers[j]
        /\ \A j \in LiveServers \ {i} : j \in LiveServers' /\ servers'[j] = servers[j]
    <2>1. servers'[i] = NetNone
      BY <1>2, <1>3, ServerSet
    <2> QED
      BY <1>2, <1>3, <2>1, ServerSet DEF LiveServers
  <1>5. /\ ServerNames' \subseteq ServerNames /\ ServerNames \subseteq ServerNames' \cup {servers[i].name}
        /\ ProxyNames' = ProxyNames
    BY <1>2, <1>4, SameProxies DEF ServerNames
  <1>6. RowsTyped'
    BY <1>2, <1>4, SameProxies DEF RowsTyped
  <1>7. RowsApart'
    <2>1. ServerNames' \cap ProxyNames = {}
      BY <1>5 DEF RowsApart
    <2> QED
      BY <1>2, <1>4, <2>1, ServersApart
  <1>8. Housed'
    BY <1>2, <1>5, SameDirectories DEF Housed
  <1>9. todo'[t] = Tail(todo[t])
    BY <1>2, <1>3 DEF Continue
  <1>10. Plain(todo'[t], ServerNames', ProxyNames')
    BY <1>2, <1>5, <1>9, PlainLonger
  <1> QED
    BY <1>6, <1>7, <1>8, <1>10, NowPlain

LEMMA UpdateRowSerial ==
    ASSUME NetIInv, RowsTyped, RowsApart, NEW t \in NetThreads, Stage(t), UpdateRow(t)
    PROVE  RowsTyped' /\ RowsApart' /\ Stage(t)'
  <1> DEFINE s == Now(t)
             i == s.id
             old == servers[i].name
  <1>1. Renaming(t)
    BY StageIs DEF UpdateRow, At
  <1>2. /\ UNCHANGED <<proxies, dirs>> /\ DOMAIN todo = NetThreads /\ Sequence(servers)
        /\ i \in LiveServers /\ Plain(Tail(todo[t]), {}, ProxyNames) /\ Continue(t)
        /\ Directories \subseteq ServerNames \cup ProxyNames \cup {s.new}
        /\ s.new = old \/ (s.new \notin ServerNames \cup ProxyNames /\ old \notin Directories)
    BY <1>1, Threads DEF UpdateRow, Renaming
  <1>3. s.new \in NetNames /\ s.lines \in Lines \cup {NetNone}
    BY FirstAndOthers DEF UpdateRow, At, Now, NetIInv, StepsOK, StepOK
  <1> DEFINE line == IF s.lines = NetNone THEN servers[i].lines ELSE s.lines
  <1>4. PICK kept \in BOOLEAN :
          /\ kept => \E j \in LiveServers \ {i} : servers[j].name = s.new
          /\ servers' = [j \in DOMAIN servers |->
                  IF j # i \/ servers[j] = NetNone THEN servers[j]
                  ELSE [servers[j] EXCEPT
                          !.name = IF kept THEN servers[j].name ELSE s.new,
                          !.lines = IF s.lines = NetNone THEN servers[j].lines ELSE s.lines]]
    BY Zenon DEF UpdateRow, Refusals
  <1> DEFINE z == [servers[i] EXCEPT !.name = s.new, !.lines = line]
  <1>5. servers[i] \in ServerRows /\ old \in ServerNames
    BY <1>2 DEF RowsTyped, ServerNames
  <1>6. kept => s.new = old
    <2>1. kept => s.new \in ServerNames
      BY <1>4 DEF ServerNames
    <2> QED
      BY <1>2, <2>1
  <1>7. servers' = [servers EXCEPT ![i] = z]
    <2>1. DOMAIN servers = 1 .. Len(servers) /\ servers = [j \in DOMAIN servers |-> servers[j]]
      BY <1>2, Sequences
    <2>2. i \in DOMAIN servers /\ servers[i] # NetNone
      BY <1>2 DEF LiveServers
    <2>3. (IF kept THEN servers[i].name ELSE s.new) = s.new
      BY <1>6
    <2>4. [servers[i] EXCEPT
                          !.name = IF kept THEN servers[i].name ELSE s.new,
                          !.lines = IF s.lines = NetNone THEN servers[i].lines ELSE s.lines] = z
      BY <2>3
    <2> DEFINE f(j) == [servers[j] EXCEPT
                          !.name = IF kept THEN servers[j].name ELSE s.new,
                          !.lines = IF s.lines = NetNone THEN servers[j].lines ELSE s.lines]
    <2>5. servers' = [j \in DOMAIN servers |-> IF j # i \/ servers[j] = NetNone THEN servers[j] ELSE f(j)]
      BY <1>4, Zenon
    <2>6. f(i) = z
      BY <2>4
    <2> HIDE DEF f, z, i
    <2>7. \A j \in DOMAIN servers : servers'[j] = IF j = i THEN z ELSE servers[j]
      BY <2>2, <2>5, <2>6
    <2>8. servers' = [j \in DOMAIN servers |-> servers'[j]]
      BY <2>5
    <2> QED
      BY <2>1, <2>7, <2>8
  <1>8. z \in ServerRows /\ z.name = s.new /\ z.proxy = servers[i].proxy /\ z.port = servers[i].port
        /\ z.udp = servers[i].udp
    <2>1. line \in Lines
      BY <1>3, <1>5 DEF ServerRows, Lines
    <2> HIDE DEF line, s
    <2> QED
      BY <1>3, <1>5, <2>1 DEF ServerRows, Lines
  <1> HIDE DEF z, i
  <1>9. z # NetNone
    BY <1>8, NetRowAssumption
  <1>10. /\ LiveServers' = LiveServers /\ servers'[i] = z
         /\ \A j \in LiveServers \ {i} : servers'[j] = servers[j]
    BY <1>2, <1>7, <1>9, ServerSet
  <1>11. /\ ServerNames' \subseteq ServerNames \cup {s.new} /\ s.new \in ServerNames'
         /\ ServerNames \subseteq ServerNames' \cup {old}
         /\ ProxyNames' = ProxyNames
    BY <1>2, <1>8, <1>10, SameProxies DEF ServerNames
  <1>12. RowsTyped'
    BY <1>2, <1>8, <1>10, SameProxies DEF RowsTyped
  <1>13. RowsApart'
    <2>1. s.new \notin ProxyNames
      BY <1>2, <1>5 DEF RowsApart
    <2>2. ServerNames' \cap ProxyNames = {}
      BY <1>11, <2>1 DEF RowsApart
    <2> QED
      BY <1>2, <1>8, <1>10, <2>2, ServersApart
  <1>14. Housed'
    BY <1>2, <1>11, SameDirectories DEF Housed
  <1>15. todo'[t] = Tail(todo[t])
    BY <1>2 DEF Continue
  <1>16. Plain(todo'[t], ServerNames', ProxyNames')
    BY <1>2, <1>11, <1>15, PlainLonger
  <1> QED
    BY <1>12, <1>13, <1>14, <1>16, NowPlain


LEMMA InsertProxySerial ==
    ASSUME NetIInv, RowsTyped, RowsApart, NEW t \in NetThreads, Stage(t), InsertProxy(t)
    PROVE  /\ RowsTyped' /\ RowsApart' /\ Stage(t)'
           /\ ProxyNames \subseteq ProxyNames'
           /\ \A p \in LiveProxies' :
                \/ p \in LiveProxies /\ proxies'[p] = proxies[p]
                \/ proxies'[p].name \notin ProxyNames
  <1> DEFINE s == Now(t)
             p == Len(proxies) + 1
             z == [name |-> s.name, port |-> s.port, udp |-> 0, run |-> FALSE]
  <1>1. InsertingProxy(t)
    BY StageIs DEF InsertProxy, At
  <1>2. /\ UNCHANGED <<servers, dirs>> /\ DOMAIN todo = NetThreads /\ Sequence(proxies)
        /\ Tail(todo[t]) = <<>>
    BY <1>1, Threads DEF InsertProxy, InsertingProxy
  <1>3. /\ s.name \in NetNames /\ s.port \in Nat /\ s.name \notin ServerNames \cup ProxyNames /\ Housed
    BY <1>1 DEF InsertingProxy
  <1>4. CASE Abort(t) /\ UNCHANGED proxies
    <2>1. todo'[t] = <<>>
      BY <1>2, <1>4 DEF Abort
    <2>2. Housed' /\ RowsTyped' /\ RowsApart'
      BY <1>2, <1>3, <1>4, SameServers, SameProxies, SameDirectories
         DEF Housed, RowsTyped, RowsApart
    <2> QED
      BY <1>4, <2>1, <2>2, SameProxies, NowDone
  <1>5. CASE ~(Abort(t) /\ UNCHANGED proxies)
    <2> DEFINE one == <<[do |-> "proxyFiles", id |-> p, name |-> s.name]>>
    <2>1. GoOn(t, one) /\ proxies' = Append(proxies, z)
      BY <1>5 DEF InsertProxy
    <2>2. z \in ProxyRows /\ z.name = s.name /\ z.udp = 0
      BY <1>3 DEF ProxyRows
    <2> HIDE DEF z
    <2>3. z # NetNone
      BY <2>2, NetRowAssumption
    <2>4. /\ LiveProxies' = LiveProxies \cup {p} /\ p \notin LiveProxies
          /\ proxies'[p] = z /\ \A q \in LiveProxies : proxies'[q] = proxies[q]
      BY <1>2, <2>1, <2>3, ProxyPut
    <2> HIDE DEF p, s
    <2>5. ProxyNames' = ProxyNames \cup {s.name} /\ ServerNames' = ServerNames
      BY <1>2, <2>2, <2>4, SameServers DEF ProxyNames
    <2>6. RowsTyped'
      BY <1>2, <2>2, <2>4, SameServers DEF RowsTyped
    <2>7. RowsApart'
      <3>1. ServerNames \cap ProxyNames' = {}
        BY <1>3, <2>5 DEF RowsApart
      <3> QED
        BY <1>2, <2>2, <2>4, <3>1, ProxiesApart
    <2>8. Housed'
      BY <1>2, <1>3, <2>5, SameDirectories DEF Housed
    <2>9. Plain(one, ServerNames', ProxyNames')
      <3>1. PlainStep([do |-> "proxyFiles", id |-> p, name |-> s.name], ServerNames', ProxyNames')
        BY <2>5 DEF PlainStep, Turning
      <3> QED
        BY <3>1, PlainSteps
    <2>10. todo'[t] = one \o <<>>
      BY <1>2, <2>1 DEF GoOn
    <2> HIDE DEF one
    <2>11. Plain(todo'[t], ServerNames', ProxyNames')
      BY <2>9, <2>10, PlainSteps
    <2>12. \A q \in LiveProxies' : \/ q \in LiveProxies /\ proxies'[q] = proxies[q]
                                   \/ proxies'[q].name \notin ProxyNames
      BY <1>3, <2>2, <2>4
    <2> QED
      BY <2>5, <2>6, <2>7, <2>8, <2>11, <2>12, NowPlain
  <1> QED
    BY <1>4, <1>5

(* A proxy that is being deleted. *)
LEMMA RemoveDirSerial ==
    ASSUME NetIInv, RowsTyped, RowsApart, NEW t \in NetThreads, Stage(t), RemoveDir(t)
    PROVE  RowsTyped' /\ RowsApart' /\ Stage(t)'
  <1>1. /\ UNCHANGED <<servers, proxies, containers>> /\ DOMAIN todo = NetThreads
        /\ Continue(t) /\ todo[t] # <<>> /\ Head(todo[t]).do = "rmdir"
    BY Threads DEF RemoveDir, rows, At
  <1>2. /\ RowsTyped' /\ RowsApart' /\ ServerNames' = ServerNames /\ ProxyNames' = ProxyNames
        /\ LiveServers' = LiveServers /\ LiveProxies' = LiveProxies
    BY <1>1, SameServers, SameProxies DEF RowsTyped, RowsApart
  <1>3. Directories' = Directories \ {Now(t).name}
    BY DEF RemoveDir, Directories, NetIInv, RestOK
  <1>4. todo'[t] = Tail(todo[t])
    BY <1>1 DEF Continue
  <1>5. CASE Removing(t)
    <2> DEFINE r == Tail(todo[t])
    <2>1. /\ Housed /\ r # <<>> /\ Head(r).do = "deleteServer" /\ Plain(Tail(r), {}, ProxyNames)
          /\ Head(r).id \in LiveServers /\ Now(t).name = servers[Head(r).id].name
      BY <1>5 DEF Removing
    <2> HIDE DEF r
    <2>2. todo'[t] = r
      BY <1>4 DEF r
    <2>3. Housed'
      BY <1>2, <1>3, <2>1 DEF Housed
    <2>4. Deleting(t)'
      BY <1>1, <1>2, <1>3, <2>1, <2>2, <2>3 DEF Deleting, At, Now
    <2> QED
      BY <1>2, <2>4 DEF Stage
  <1>6. CASE DeletingProxy(t)
    <2>1. PICK p \in LiveProxies :
            LET n == proxies[p].name
                kill == [do |-> "kill", name |-> n]
                rmdir == [do |-> "rmdir", name |-> n]
                unassign == [do |-> "unassign", id |-> p]
                delete == [do |-> "deleteProxy", id |-> p]
            IN  /\ Housed
                /\ \/ todo[t] = <<kill, rmdir, unassign, delete>>
                   \/ Stopped(n) /\ todo[t] = <<rmdir, unassign, delete>>
                   \/ /\ Stopped(n) /\ n \notin Directories
                      /\ todo[t] \in {<<unassign, delete>>, <<delete>>}
      BY <1>6 DEF DeletingProxy
    <2> DEFINE n == proxies[p].name
               rmdir == [do |-> "rmdir", name |-> n]
               unassign == [do |-> "unassign", id |-> p]
               delete == [do |-> "deleteProxy", id |-> p]
    <2>2. Housed /\ Stopped(n) /\ todo[t] = <<rmdir, unassign, delete>>
      BY <1>1, <2>1, TuplesOff
    <2>3. Now(t) = rmdir /\ todo'[t] = <<unassign, delete>>
      BY <1>4, <2>2, TuplesOff DEF Now
    <2>4. n \notin Directories'
      BY <1>3, <2>3
    <2>5. Housed' /\ proxies'[p].name = n /\ Stopped(n)' /\ p \in LiveProxies'
      BY <1>1, <1>2, <1>3, <2>2 DEF Housed, Stopped, containers
    <2>6. DeletingProxy(t)'
      BY <2>3, <2>4, <2>5 DEF DeletingProxy
    <2> QED
      BY <1>2, <2>6 DEF Stage
  <1> QED
    BY <1>1, <1>5, <1>6, StageIs

LEMMA UnassignSerial ==
    ASSUME NetIInv, RowsTyped, RowsApart, NEW t \in NetThreads, Stage(t), Unassign(t)
    PROVE  RowsTyped' /\ RowsApart' /\ Stage(t)'
  <1>1. /\ UNCHANGED <<proxies, dirs, containers>> /\ DOMAIN todo = NetThreads
        /\ Continue(t) /\ todo[t] # <<>> /\ Head(todo[t]).do = "unassign"
    BY Threads DEF Unassign, At
  <1>2. DeletingProxy(t)
    BY <1>1, StageIs
  <1>3. PICK p \in LiveProxies :
          LET n == proxies[p].name
              kill == [do |-> "kill", name |-> n]
              rmdir == [do |-> "rmdir", name |-> n]
              unassign == [do |-> "unassign", id |-> p]
              delete == [do |-> "deleteProxy", id |-> p]
          IN  /\ Housed
              /\ \/ todo[t] = <<kill, rmdir, unassign, delete>>
                 \/ Stopped(n) /\ todo[t] = <<rmdir, unassign, delete>>
                 \/ /\ Stopped(n) /\ n \notin Directories
                    /\ todo[t] \in {<<unassign, delete>>, <<delete>>}
    BY <1>2 DEF DeletingProxy
  <1> DEFINE n == proxies[p].name
             unassign == [do |-> "unassign", id |-> p]
             delete == [do |-> "deleteProxy", id |-> p]
  <1>4. Housed /\ Stopped(n) /\ n \notin Directories /\ todo[t] = <<unassign, delete>>
    BY <1>1, <1>3, TuplesOff
  <1>5. todo'[t] = <<delete>>
    BY <1>1, <1>4, TuplesOff DEF Continue
  <1>6. Sequence(servers)
    BY Threads
  <1>7. /\ DOMAIN servers' = DOMAIN servers
        /\ \A i \in DOMAIN servers :
             \/ servers'[i] = servers[i]
             \/ i \in LiveServers /\ servers'[i] = [servers[i] EXCEPT !.proxy = 0]
    BY DEF Unassign, Members
  <1>8. ASSUME NEW i \in LiveServers, NEW z, z = [servers[i] EXCEPT !.proxy = 0]
        PROVE  /\ z \in ServerRows /\ z.name = servers[i].name /\ z.port = servers[i].port
               /\ z.udp = servers[i].udp /\ z.proxy = 0 /\ z # NetNone
    <2>1. servers[i] \in ServerRows
      BY DEF RowsTyped
    <2>2. /\ z \in ServerRows /\ z.name = servers[i].name /\ z.port = servers[i].port
          /\ z.udp = servers[i].udp /\ z.proxy = 0
      BY <1>8, <2>1 DEF ServerRows
    <2> QED
      BY <2>2, NetRowAssumption
  <1>9. /\ LiveServers' = LiveServers
        /\ \A i \in LiveServers :
             /\ servers'[i] \in ServerRows /\ servers'[i].name = servers[i].name
             /\ servers'[i].udp = servers[i].udp /\ servers'[i].port = servers[i].port
             /\ servers'[i].proxy \in {servers[i].proxy, 0}
    <2>1. \A i \in LiveServers : servers[i] \in ServerRows
      BY DEF RowsTyped
    <2>2. \A i \in LiveServers :
            /\ servers'[i] \in ServerRows /\ servers'[i].name = servers[i].name
            /\ servers'[i].udp = servers[i].udp /\ servers'[i].port = servers[i].port
            /\ servers'[i].proxy \in {servers[i].proxy, 0} /\ servers'[i] # NetNone
      <3> TAKE i \in LiveServers
      <3>1. CASE servers'[i] = servers[i]
        BY <2>1, <3>1 DEF LiveServers
      <3>2. CASE servers'[i] = [servers[i] EXCEPT !.proxy = 0]
        BY <1>8, <3>2
      <3> QED
        BY <1>7, <3>1, <3>2 DEF LiveServers
    <2>3. LiveServers' = LiveServers
      BY <1>7, <2>2 DEF LiveServers
    <2> QED
      BY <2>2, <2>3
  <1>10. ServerNames' = ServerNames /\ ProxyNames' = ProxyNames
    BY <1>1, <1>9, ServerNamesStay, SameProxies
  <1>11. RowsTyped'
    BY <1>1, <1>9, SameProxies DEF RowsTyped
  <1>12. RowsApart'
    <2>1. ServerNames' \cap ProxyNames = {}
      BY <1>10 DEF RowsApart
    <2> QED
      BY <1>1, <1>9, <2>1, ServersApart
  <1>13. Housed' /\ proxies'[p].name = n /\ Stopped(n)' /\ p \in LiveProxies' /\ n \notin Directories'
    BY <1>1, <1>4, <1>10, SameProxies, SameDirectories DEF Housed, Stopped, containers
  <1>14. DeletingProxy(t)'
    BY <1>5, <1>13 DEF DeletingProxy
  <1> QED
    BY <1>11, <1>12, <1>14 DEF Stage

LEMMA DeleteProxyRowSerial ==
    ASSUME NetIInv, RowsTyped, RowsApart, NEW t \in NetThreads, Stage(t), DeleteProxyRow(t)
    PROVE  /\ RowsTyped' /\ RowsApart' /\ Stage(t)'
           /\ \A p \in LiveProxies' : p \in LiveProxies /\ proxies'[p] = proxies[p]
           /\ \E n : Stopped(n) /\ ProxyNames \subseteq ProxyNames' \cup {n}
  <1>1. /\ UNCHANGED <<servers, dirs, containers>> /\ DOMAIN todo = NetThreads /\ Sequence(proxies)
        /\ Continue(t) /\ todo[t] # <<>> /\ Head(todo[t]).do = "deleteProxy"
    BY Threads DEF DeleteProxyRow, At
  <1>2. DeletingProxy(t)
    BY <1>1, StageIs
  <1>3. PICK p \in LiveProxies :
          LET n == proxies[p].name
              kill == [do |-> "kill", name |-> n]
              rmdir == [do |-> "rmdir", name |-> n]
              unassign == [do |-> "unassign", id |-> p]
              delete == [do |-> "deleteProxy", id |-> p]
          IN  /\ Housed
              /\ \/ todo[t] = <<kill, rmdir, unassign, delete>>
                 \/ Stopped(n) /\ todo[t] = <<rmdir, unassign, delete>>
                 \/ /\ Stopped(n) /\ n \notin Directories
                    /\ todo[t] \in {<<unassign, delete>>, <<delete>>}
    BY <1>2 DEF DeletingProxy
  <1> DEFINE n == proxies[p].name
             delete == [do |-> "deleteProxy", id |-> p]
  <1>4. Housed /\ Stopped(n) /\ n \notin Directories /\ todo[t] = <<delete>>
    BY <1>1, <1>3, TuplesOff
  <1>5. todo'[t] = <<>> /\ Now(t) = delete
    BY <1>1, <1>4, TuplesOff DEF Continue, Now
  <1>6. proxies' = [proxies EXCEPT ![p] = NetNone]
    BY <1>5 DEF DeleteProxyRow
  <1>7. /\ \A q \in LiveProxies' : q \in LiveProxies /\ proxies'[q] = proxies[q]
        /\ \A q \in LiveProxies \ {p} : q \in LiveProxies' /\ proxies'[q] = proxies[q]
    <2>1. proxies'[p] = NetNone
      BY <1>1, <1>6, ProxySet
    <2> QED
      BY <1>1, <1>6, <2>1, ProxySet DEF LiveProxies
  <1>8. /\ ProxyNames' \subseteq ProxyNames /\ ProxyNames \subseteq ProxyNames' \cup {n}
        /\ ServerNames' = ServerNames
    BY <1>1, <1>7, SameServers DEF ProxyNames
  <1>9. RowsTyped'
    BY <1>1, <1>7, SameServers DEF RowsTyped
  <1>10. RowsApart'
    <2>1. ServerNames \cap ProxyNames' = {}
      BY <1>8 DEF RowsApart
    <2> QED
      BY <1>1, <1>7, <2>1, ProxiesApart
  <1>11. Housed'
    BY <1>1, <1>4, <1>8, SameDirectories DEF Housed
  <1>12. Stage(t)'
    BY <1>5, <1>11, NowDone
  <1>13. \E m : Stopped(m) /\ ProxyNames \subseteq ProxyNames' \cup {m}
    BY <1>4, <1>8
  <1> QED
    BY <1>7, <1>9, <1>10, <1>12, <1>13

LEMMA ProxyRowSerial ==
    ASSUME NetIInv, RowsTyped, RowsApart, NEW t \in NetThreads, Stage(t), ProxyRow(t)
    PROVE  /\ RowsTyped' /\ RowsApart' /\ Stage(t)'
           /\ \A p \in LiveProxies' :
                /\ p \in LiveProxies /\ proxies'[p].run = proxies[p].run
                /\ proxies'[p].name = proxies[p].name \/ proxies'[p].name \notin ProxyNames
           /\ \E n : /\ ProxyNames \subseteq ProxyNames' \cup {n}
                     /\ Stopped(n) \/ ProxyNames \subseteq ProxyNames'
  <1> DEFINE s == Now(t)
             p == s.id
             old == proxies[p].name
             z == [proxies[p] EXCEPT !.name = s.name]
  <1>1. RenamingProxy(t)
    BY StageIs DEF ProxyRow, At
  <1>2. /\ UNCHANGED <<servers, dirs>> /\ DOMAIN todo = NetThreads /\ Sequence(proxies)
        /\ p \in LiveProxies /\ Tail(todo[t]) = <<>> /\ Continue(t)
        /\ Directories \subseteq ServerNames \cup ProxyNames \cup {s.name}
        /\ \/ s.name = old
           \/ s.name \notin ServerNames \cup ProxyNames /\ old \notin Directories /\ Stopped(old)
    BY <1>1, Threads DEF ProxyRow, RenamingProxy, Stopped
  <1>3. s.name \in NetNames
    BY FirstAndOthers DEF ProxyRow, At, Now, NetIInv, StepsOK, StepOK
  <1>4. PICK refused \in BOOLEAN :
          /\ refused => \E q \in LiveProxies \ {p} : proxies[q].name = s.name
          /\ proxies' = IF p \in LiveProxies /\ ~refused
                        THEN [proxies EXCEPT ![p].name = s.name] ELSE proxies
    BY DEF ProxyRow, Refusals
  <1>5. proxies[p] \in ProxyRows /\ old \in ProxyNames
    BY <1>2 DEF RowsTyped, ProxyNames
  <1>6. todo'[t] = <<>>
    BY <1>2 DEF Continue
  <1>7. z \in ProxyRows /\ z.name = s.name /\ z.run = proxies[p].run /\ z.udp = proxies[p].udp
    BY <1>3, <1>5 DEF ProxyRows
  <1>8. proxies' = [proxies EXCEPT ![p] = z] \/ (s.name = old /\ proxies' = proxies)
    <2>1. CASE refused
      <3>1. s.name \in ProxyNames
        BY <1>4, <2>1 DEF ProxyNames
      <3> QED
        BY <1>2, <1>4, <2>1, <3>1
    <2>2. CASE ~refused
      BY <1>2, <1>4, <2>2
    <2> QED
      BY <2>1, <2>2
  <1> HIDE DEF z, p, s
  <1>9. z # NetNone
    BY <1>7, NetRowAssumption
  <1>10. /\ LiveProxies' = LiveProxies
         /\ proxies'[p].name = s.name /\ proxies'[p].run = proxies[p].run
         /\ proxies'[p].udp = proxies[p].udp /\ proxies'[p] \in ProxyRows
         /\ \A q \in LiveProxies \ {p} : proxies'[q] = proxies[q]
    BY <1>2, <1>5, <1>7, <1>8, <1>9, ProxySet, SameProxies
  <1>11. /\ ProxyNames' \subseteq ProxyNames \cup {s.name} /\ s.name \in ProxyNames'
         /\ ProxyNames \subseteq ProxyNames' \cup {old} /\ ServerNames' = ServerNames
    BY <1>2, <1>10, SameServers DEF ProxyNames
  <1>12. RowsTyped'
    BY <1>2, <1>10, SameServers DEF RowsTyped
  <1>13. RowsApart'
    <2>1. s.name \notin ServerNames
      BY <1>2, <1>5 DEF RowsApart
    <2>2. ServerNames \cap ProxyNames' = {}
      BY <1>11, <2>1 DEF RowsApart
    <2> QED
      BY <1>2, <1>10, <2>2, ProxiesApart
  <1>14. Housed'
    BY <1>2, <1>11, SameDirectories DEF Housed
  <1>15. Stage(t)'
    BY <1>6, <1>14, NowDone
  <1>16. \A q \in LiveProxies' :
           /\ q \in LiveProxies /\ proxies'[q].run = proxies[q].run
           /\ proxies'[q].name = proxies[q].name \/ proxies'[q].name \notin ProxyNames
    BY <1>2, <1>10
  <1>17. Stopped(old) \/ ProxyNames \subseteq ProxyNames'
    BY <1>2, <1>11
  <1> QED
    BY <1>11, <1>12, <1>13, <1>15, <1>16, <1>17


(* What runs: rows that change no running proxy. *)
LEMMA RunsKept ==
    ASSUME RunsTold, UNCHANGED <<up, news, strayed>>,
           \A p \in LiveProxies' :
             \/ p \in LiveProxies /\ proxies'[p].name = proxies[p].name
                  /\ proxies'[p].run = proxies[p].run
             \/ proxies'[p].name \notin ProxyNames,
           NEW n, ProxyNames \subseteq ProxyNames' \cup {n},
           Stopped(n) \/ ProxyNames \subseteq ProxyNames'
    PROVE  RunsTold'
  <1> SUFFICES ASSUME ~strayed
               PROVE  /\ up \subseteq ProxyNames'
                      /\ \A p \in LiveProxies' : proxies'[p].name \in up =>
                           Told(news, proxies'[p].name, proxies'[p].run)
    BY DEF RunsTold
  <1>1. /\ up \subseteq ProxyNames
        /\ \A p \in LiveProxies : proxies[p].name \in up =>
             Told(news, proxies[p].name, proxies[p].run)
    BY DEF RunsTold
  <1>2. up \subseteq ProxyNames'
    BY <1>1 DEF Stopped
  <1>3. ASSUME NEW p \in LiveProxies', proxies'[p].name \in up
        PROVE  Told(news, proxies'[p].name, proxies'[p].run)
    BY <1>1, <1>3
  <1> QED
    BY <1>2, <1>3

(* A container stops. *)
LEMMA RunsLess ==
    ASSUME RunsTold, Sequence(news), UNCHANGED <<proxies, strayed>>, NEW n, up' = up \ {n},
           news' = news \/ news' = Event(n, FALSE)
    PROVE  RunsTold'
  <1> SUFFICES ASSUME ~strayed
               PROVE  /\ up' \subseteq ProxyNames
                      /\ \A p \in LiveProxies : proxies[p].name \in up' =>
                           Told(news', proxies[p].name, proxies[p].run)
    BY SameProxies DEF RunsTold
  <1>1. /\ up \subseteq ProxyNames
        /\ \A p \in LiveProxies : proxies[p].name \in up =>
             Told(news, proxies[p].name, proxies[p].run)
    BY DEF RunsTold
  <1>2. ASSUME NEW p \in LiveProxies, proxies[p].name \in up'
        PROVE  Told(news', proxies[p].name, proxies[p].run)
    <2>1. n # proxies[p].name /\ Told(news, proxies[p].name, proxies[p].run)
      BY <1>1, <1>2
    <2> QED
      BY <2>1, ToldMore DEF Event
  <1> QED
    BY <1>1, <1>2

(* A container starts. *)
LEMMA RunsMore ==
    ASSUME RunsTold, Sequence(news), UNCHANGED <<proxies, strayed>>, NEW n \in ProxyNames,
           up' = up \cup {n}, news' = IF n \in up THEN news ELSE Event(n, TRUE)
    PROVE  RunsTold'
  <1> SUFFICES ASSUME ~strayed
               PROVE  /\ up' \subseteq ProxyNames
                      /\ \A p \in LiveProxies : proxies[p].name \in up' =>
                           Told(news', proxies[p].name, proxies[p].run)
    BY SameProxies DEF RunsTold
  <1>1. /\ up \subseteq ProxyNames
        /\ \A p \in LiveProxies : proxies[p].name \in up =>
             Told(news, proxies[p].name, proxies[p].run)
    BY DEF RunsTold
  <1>2. ASSUME NEW p \in LiveProxies, proxies[p].name \in up'
        PROVE  Told(news', proxies[p].name, proxies[p].run)
    <2>1. CASE n \in up
      BY <1>1, <1>2, <2>1
    <2>2. CASE n \notin up
      <3>1. n = proxies[p].name \/ Told(news, proxies[p].name, proxies[p].run)
        BY <1>1, <1>2
      <3>2. Told(Append(news, [name |-> n, run |-> TRUE]), proxies[p].name, proxies[p].run)
        BY <3>1, ToldMore
      <3> QED
        BY <2>2, <3>2 DEF Event
    <2> QED
      BY <2>1, <2>2
  <1> QED
    BY <1>1, <1>2

(* An event is handled. *)
LEMMA RunsEvent ==
    ASSUME RunsTold, Sequence(news), Sequence(proxies), ProxyEvent, RowsTyped, RowsApart,
           Head(news).run \in BOOLEAN
    PROVE  /\ RunsTold' /\ RowsTyped' /\ RowsApart'
           /\ LiveProxies' = LiveProxies
           /\ \A p \in LiveProxies : proxies'[p].name = proxies[p].name
  <1> DEFINE e == Head(news)
  <1>1. /\ news # <<>> /\ news' = Tail(news) /\ UNCHANGED <<up, strayed, servers>>
        /\ DOMAIN proxies' = DOMAIN proxies
        /\ \A p \in DOMAIN proxies :
             proxies'[p] = IF p \in LiveProxies /\ proxies[p].name = e.name
                           THEN [proxies[p] EXCEPT !.run = e.run] ELSE proxies[p]
    BY DEF ProxyEvent
  <1> HIDE DEF e
  <1>2. ASSUME NEW p \in LiveProxies
        PROVE  /\ proxies'[p].name = proxies[p].name /\ proxies'[p] \in ProxyRows
               /\ proxies'[p].udp = proxies[p].udp
               /\ proxies'[p].run = IF proxies[p].name = e.name THEN e.run ELSE proxies[p].run
    <2>1. proxies[p] \in ProxyRows /\ p \in DOMAIN proxies /\ e.run \in BOOLEAN
      BY DEF RowsTyped, LiveProxies, e
    <2>2. CASE proxies[p].name = e.name
      <3>1. proxies'[p] = [proxies[p] EXCEPT !.run = e.run]
        BY <1>1, <2>1, <2>2
      <3> QED
        BY <2>1, <2>2, <3>1 DEF ProxyRows
    <2>3. CASE proxies[p].name # e.name
      <3>1. proxies'[p] = proxies[p]
        BY <1>1, <2>1, <2>3
      <3> QED
        BY <2>1, <2>3, <3>1
    <2> QED
      BY <2>2, <2>3
  <1>3. LiveProxies' = LiveProxies
    <2>1. \A p \in DOMAIN proxies : p \notin LiveProxies => proxies'[p] = proxies[p]
      BY <1>1
    <2>2. \A p \in LiveProxies : proxies'[p] # NetNone
      BY <1>2, NetRowAssumption
    <2> QED
      BY <1>1, <2>1, <2>2 DEF LiveProxies
  <1>4. ProxyNames' = ProxyNames
    BY <1>2, <1>3, ProxyNamesStay
  <1>5. RowsTyped'
    BY <1>1, <1>2, <1>3, SameServers DEF RowsTyped
  <1>6. RowsApart'
    <2>1. ServerNames \cap ProxyNames' = {}
      BY <1>4 DEF RowsApart
    <2> QED
      BY <1>1, <1>2, <1>3, <2>1, ProxiesApart
  <1>7. RunsTold'
    <2> SUFFICES ASSUME ~strayed
                 PROVE  /\ up \subseteq ProxyNames'
                        /\ \A p \in LiveProxies' : proxies'[p].name \in up =>
                             Told(Tail(news), proxies'[p].name, proxies'[p].run)
      BY <1>1 DEF RunsTold
    <2>1. /\ up \subseteq ProxyNames
          /\ \A p \in LiveProxies : proxies[p].name \in up =>
               Told(news, proxies[p].name, proxies[p].run)
      BY DEF RunsTold
    <2>2. ASSUME NEW p \in LiveProxies, proxies[p].name \in up
          PROVE  Told(Tail(news), proxies[p].name, proxies'[p].run)
      <3>1. Told(Tail(news), proxies[p].name, IF e.name = proxies[p].name THEN e.run ELSE proxies[p].run)
        BY <1>1, <2>1, <2>2, ToldLess DEF e
      <3>2. proxies'[p].run = IF e.name = proxies[p].name THEN e.run ELSE proxies[p].run
        BY <1>2
      <3> QED
        BY <3>1, <3>2
    <2> QED
      BY <1>2, <1>3, <1>4, <2>1, <2>2
  <1> QED
    BY <1>2, <1>3, <1>5, <1>6, <1>7

(* A proxy that is started or stopped. *)
SwitchParts(p, n, start, stop, on, off) ==
    /\ n = proxies[p].name
    /\ start = [do |-> "start", name |-> n] /\ stop = [do |-> "stop", name |-> n]
    /\ on = Mark(p, TRUE) /\ off = Mark(p, FALSE)
    /\ start.do = "start" /\ stop.do = "stop" /\ on.do = "mark" /\ off.do = "mark"
    /\ start.name = n /\ stop.name = n /\ on.id = p /\ off.id = p
    /\ on.run = TRUE /\ off.run = FALSE

Switched(q, n, start, stop, on, off) ==
    /\ Head(q).do = "start" => Head(q) = start /\ Tail(q) = <<on>>
    /\ Head(q).do = "stop" => Head(q) = stop /\ Tail(q) \in {<<off>>, <<off, start, on>>}
    /\ Head(q).do = "mark" =>
        \/ Head(q) = on /\ Tail(q) = <<>>
        \/ Head(q) = off /\ Stopped(n) /\ Tail(q) \in {<<>>, <<start, on>>}

LEMMA SwitchIs ==
    ASSUME NEW t, Switching(t)
    PROVE  \E p \in LiveProxies : \E n, start, stop, on, off :
             /\ SwitchParts(p, n, start, stop, on, off) /\ Housed
             /\ Switched(todo[t], n, start, stop, on, off)
  <1>1. PICK p \in LiveProxies :
          LET n == proxies[p].name
              start == [do |-> "start", name |-> n]
              stop == [do |-> "stop", name |-> n]
              on == Mark(p, TRUE)
              off == Mark(p, FALSE)
          IN  /\ Housed
              /\ \/ todo[t] \in {<<start, on>>, <<on>>, <<stop, off>>, <<stop, off, start, on>>}
                 \/ Stopped(n) /\ todo[t] \in {<<off>>, <<off, start, on>>}
    BY DEF Switching
  <1> DEFINE n == proxies[p].name
             start == [do |-> "start", name |-> n]
             stop == [do |-> "stop", name |-> n]
             on == Mark(p, TRUE)
             off == Mark(p, FALSE)
  <1>2. /\ Housed
        /\ \/ todo[t] = <<start, on>> \/ todo[t] = <<on>> \/ todo[t] = <<stop, off>>
           \/ todo[t] = <<stop, off, start, on>>
           \/ Stopped(n) /\ todo[t] = <<off>>
           \/ Stopped(n) /\ todo[t] = <<off, start, on>>
    BY <1>1
  <1>3. SwitchParts(p, n, start, stop, on, off)
    BY DEF SwitchParts, Mark
  <1> HIDE DEF n, start, stop, on, off
  <1>4. start.do = "start" /\ stop.do = "stop" /\ on.do = "mark" /\ off.do = "mark"
    BY <1>3 DEF SwitchParts
  <1>5. Switched(todo[t], n, start, stop, on, off)
    <2>1. CASE todo[t] = <<start, on>>
      <3>1. Head(todo[t]) = start /\ Tail(todo[t]) = <<on>>
        BY <2>1, TuplesOff
      <3> QED
        BY <1>4, <2>1, <3>1 DEF Switched
    <2>2. CASE todo[t] = <<on>>
      <3>1. Head(todo[t]) = on /\ Tail(todo[t]) = <<>>
        BY <2>2, TuplesOff
      <3> QED
        BY <1>4, <2>2, <3>1 DEF Switched
    <2>3. CASE todo[t] = <<stop, off>>
      <3>1. Head(todo[t]) = stop /\ Tail(todo[t]) = <<off>>
        BY <2>3, TuplesOff
      <3> QED
        BY <1>4, <2>3, <3>1 DEF Switched
    <2>4. CASE todo[t] = <<stop, off, start, on>>
      <3>1. Head(todo[t]) = stop /\ Tail(todo[t]) = <<off, start, on>>
        BY <2>4, TuplesOff
      <3> QED
        BY <1>4, <2>4, <3>1 DEF Switched
    <2>5. CASE todo[t] = <<off>> /\ Stopped(n)
      <3>1. Head(todo[t]) = off /\ Tail(todo[t]) = <<>>
        BY <2>5, TuplesOff
      <3> QED
        BY <1>4, <2>5, <3>1 DEF Switched
    <2>6. CASE todo[t] = <<off, start, on>> /\ Stopped(n)
      <3>1. Head(todo[t]) = off /\ Tail(todo[t]) = <<start, on>>
        BY <2>6, TuplesOff
      <3> QED
        BY <1>4, <2>6, <3>1 DEF Switched
    <2> QED
      BY <1>2, <2>1, <2>2, <2>3, <2>4, <2>5, <2>6
  <1> QED
    BY <1>2, <1>3, <1>5

LEMMA EventMore ==
    ASSUME NEW S, NEW q \in Seq(S)
    PROVE  /\ \A e \in S : Append(q, e) \in Seq(S)
           /\ q # <<>> => Head(q) \in S /\ Tail(q) \in Seq(S)
  OBVIOUS

LEMMA StartContainerSerial ==
    ASSUME NetIInv, RowsTyped, RowsApart, RunsTold, news \in Seq([name : NetNames, run : BOOLEAN]),
           NEW t \in NetThreads, Stage(t), StartContainer(t)
    PROVE  RunsTold' /\ Stage(t)' /\ news' \in Seq([name : NetNames, run : BOOLEAN])
  <1>1. /\ UNCHANGED <<servers, proxies, dirs, strayed>> /\ DOMAIN todo = NetThreads
        /\ todo[t] # <<>> /\ Head(todo[t]).do = "start" /\ Now(t) = Head(todo[t])
    BY Threads DEF StartContainer, rows, At, Now
  <1>2. Switching(t)
    BY <1>1, StageIs
  <1>3. PICK p \in LiveProxies : \E n, start, stop, on, off :
          /\ SwitchParts(p, n, start, stop, on, off) /\ Housed
          /\ Switched(todo[t], n, start, stop, on, off)
    BY <1>2, SwitchIs
  <1>3a. PICK n, start, stop, on, off :
          /\ SwitchParts(p, n, start, stop, on, off) /\ Housed
          /\ Switched(todo[t], n, start, stop, on, off)
    BY <1>3
  <1>4. Tail(todo[t]) = <<on>> /\ Now(t).name = n /\ n = proxies[p].name /\ on = Mark(p, TRUE)
    BY <1>1, <1>3a DEF Switched, SwitchParts
  <1>5. n \in ProxyNames /\ n \in NetNames
    BY <1>4 DEF ProxyNames, RowsTyped, ProxyRows
  <1>6. /\ Housed' /\ LiveProxies' = LiveProxies
    BY <1>1, <1>3a, SameServers, SameProxies, SameDirectories DEF Housed
  <1>7. Sequence(news)
    BY DEF Sequence
  <1>8. CASE Abort(t) /\ UNCHANGED <<up, news>>
    <2>1. todo'[t] = <<>>
      BY <1>1, <1>8 DEF Abort
    <2>2. RunsTold'
      BY <1>1, <1>8, SameProxies DEF RunsTold
    <2> QED
      BY <1>6, <1>8, <2>1, <2>2, NowDone
  <1>9. CASE ~(Abort(t) /\ UNCHANGED <<up, news>>)
    <2>1. Continue(t) /\ up' = up \cup {n} /\ news' = IF n \in up THEN news ELSE Event(n, TRUE)
      BY <1>4, <1>9 DEF StartContainer
    <2>2. RunsTold'
      BY <1>1, <1>5, <1>7, <2>1, RunsMore
    <2>3. todo'[t] = <<on>>
      BY <1>1, <1>4, <2>1 DEF Continue
    <2>4. Switching(t)'
      <3>1. todo'[t] = <<Mark(p, TRUE)>> /\ p \in LiveProxies'
        BY <1>4, <1>6, <2>3
      <3> QED
        BY <1>6, <3>1 DEF Switching, Mark
    <2>5. news' \in Seq([name : NetNames, run : BOOLEAN])
      <3>1. [name |-> n, run |-> TRUE] \in [name : NetNames, run : BOOLEAN]
        BY <1>5
      <3>2. Event(n, TRUE) \in Seq([name : NetNames, run : BOOLEAN])
        BY <3>1, EventMore DEF Event
      <3> QED
        BY <2>1, <3>2
    <2> QED
      BY <2>2, <2>4, <2>5 DEF Stage
  <1> QED
    BY <1>8, <1>9

LEMMA StopContainerSerial ==
    ASSUME NetIInv, RowsTyped, RowsApart, RunsTold, news \in Seq([name : NetNames, run : BOOLEAN]),
           NEW t \in NetThreads, Stage(t), StopContainer(t)
    PROVE  RunsTold' /\ Stage(t)' /\ news' \in Seq([name : NetNames, run : BOOLEAN])
  <1> DEFINE n == Now(t).name
  <1>1. /\ UNCHANGED <<servers, proxies, dirs, strayed>> /\ DOMAIN todo = NetThreads
        /\ todo[t] # <<>> /\ Head(todo[t]).do \in {"stop", "kill"} /\ Now(t) = Head(todo[t])
        /\ todo'[t] = Tail(todo[t])
    BY Threads DEF StopContainer, rows, At, Now, Continue
  <1>2. /\ up' = up \ {n} /\ news' = IF n \in up THEN Event(n, FALSE) ELSE news
    BY DEF StopContainer
  <1>3. RunsTold'
    <2> HIDE DEF n
    <2>1. Sequence(news)
      BY DEF Sequence
    <2> QED
      BY <1>1, <1>2, <2>1, RunsLess
  <1>4. news' \in Seq([name : NetNames, run : BOOLEAN])
    <2>1. n \in up => [name |-> n, run |-> FALSE] \in [name : NetNames, run : BOOLEAN]
      BY DEF NetIInv, RestOK
    <2> HIDE DEF n
    <2>2. n \in up => Event(n, FALSE) \in Seq([name : NetNames, run : BOOLEAN])
      BY <2>1, EventMore DEF Event
    <2> QED
      BY <1>2, <2>2
  <1>5. /\ LiveProxies' = LiveProxies /\ (Housed => Housed')
    BY <1>1, SameServers, SameProxies, SameDirectories DEF Housed
  <1>6. CASE Head(todo[t]).do = "stop"
    <2>1. Switching(t)
      BY <1>1, <1>6, StageIs
    <2>2. PICK p \in LiveProxies : \E m, start, stop, on, off :
            /\ SwitchParts(p, m, start, stop, on, off) /\ Housed
            /\ Switched(todo[t], m, start, stop, on, off)
      BY <2>1, SwitchIs
    <2>3. PICK m, start, stop, on, off :
            /\ SwitchParts(p, m, start, stop, on, off) /\ Housed
            /\ Switched(todo[t], m, start, stop, on, off)
      BY <2>2
    <2>4. todo'[t] \in {<<off>>, <<off, start, on>>} /\ n = m
      BY <1>1, <1>6, <2>3 DEF Switched, SwitchParts
    <2>5. m \notin up' /\ Housed' /\ m = proxies'[p].name /\ p \in LiveProxies'
      BY <1>1, <1>2, <1>5, <2>3, <2>4 DEF SwitchParts
    <2>6. Switching(t)'
      BY <2>3, <2>4, <2>5 DEF Switching, SwitchParts, Stopped
    <2> QED
      BY <1>3, <1>4, <2>6 DEF Stage
  <1>7. CASE Head(todo[t]).do = "kill"
    <2>1. DeletingProxy(t)
      BY <1>1, <1>7, StageIs
    <2>2. PICK p \in LiveProxies :
            LET m == proxies[p].name
                kill == [do |-> "kill", name |-> m]
                rmdir == [do |-> "rmdir", name |-> m]
                unassign == [do |-> "unassign", id |-> p]
                delete == [do |-> "deleteProxy", id |-> p]
            IN  /\ Housed
                /\ \/ todo[t] = <<kill, rmdir, unassign, delete>>
                   \/ Stopped(m) /\ todo[t] = <<rmdir, unassign, delete>>
                   \/ /\ Stopped(m) /\ m \notin Directories
                      /\ todo[t] \in {<<unassign, delete>>, <<delete>>}
      BY <2>1 DEF DeletingProxy
    <2> DEFINE m == proxies[p].name
               kill == [do |-> "kill", name |-> m]
               rmdir == [do |-> "rmdir", name |-> m]
               unassign == [do |-> "unassign", id |-> p]
               delete == [do |-> "deleteProxy", id |-> p]
    <2>3. Housed /\ todo[t] = <<kill, rmdir, unassign, delete>>
      BY <1>7, <2>2, TuplesOff
    <2>4. n = m /\ todo'[t] = <<rmdir, unassign, delete>>
      BY <1>1, <2>3, TuplesOff
    <2>5. m \notin up' /\ Housed' /\ proxies'[p].name = m /\ p \in LiveProxies'
      BY <1>1, <1>2, <1>5, <2>3, <2>4
    <2>6. DeletingProxy(t)'
      BY <2>4, <2>5 DEF DeletingProxy, Stopped
    <2> QED
      BY <1>3, <1>4, <2>6 DEF Stage
  <1> QED
    BY <1>1, <1>6, <1>7

LEMMA MarkProxySerial ==
    ASSUME NetIInv, RowsTyped, RowsApart, RunsTold, NEW t \in NetThreads, Stage(t), MarkProxy(t)
    PROVE  RunsTold' /\ Stage(t)' /\ RowsTyped' /\ RowsApart'
  <1>1. /\ UNCHANGED <<servers, dirs, up, news, strayed>> /\ DOMAIN todo = NetThreads
        /\ todo[t] # <<>> /\ Head(todo[t]).do = "mark" /\ Now(t) = Head(todo[t])
        /\ todo'[t] = Tail(todo[t]) /\ Sequence(proxies)
    BY Threads DEF MarkProxy, containers, At, Now, Continue
  <1>2. Switching(t)
    BY <1>1, StageIs
  <1>3. PICK p \in LiveProxies : \E n, start, stop, on, off :
          /\ SwitchParts(p, n, start, stop, on, off) /\ Housed
          /\ Switched(todo[t], n, start, stop, on, off)
    BY <1>2, SwitchIs
  <1>3a. PICK n, start, stop, on, off :
          /\ SwitchParts(p, n, start, stop, on, off) /\ Housed
          /\ Switched(todo[t], n, start, stop, on, off)
    BY <1>3
  <1>4. /\ \/ Now(t) = on /\ todo'[t] = <<>>
           \/ Now(t) = off /\ Stopped(n) /\ todo'[t] \in {<<>>, <<start, on>>}
        /\ n = proxies[p].name /\ on.id = p /\ off.id = p /\ on.run = TRUE /\ off.run = FALSE
    BY <1>1, <1>3a DEF Switched, SwitchParts
  <1> DEFINE run == Now(t).run
             z == [proxies[p] EXCEPT !.run = run]
  <1>5. run \in BOOLEAN /\ Now(t).id = p /\ (run = TRUE \/ Stopped(n))
    BY <1>4
  <1>6. proxies' = [proxies EXCEPT ![p] = z]
    BY <1>5 DEF MarkProxy
  <1> HIDE DEF run
  <1>7. z \in ProxyRows /\ z.name = n /\ z.run = run /\ z.udp = proxies[p].udp
    BY <1>4, <1>5 DEF RowsTyped, ProxyRows
  <1> HIDE DEF z
  <1>8. z # NetNone
    BY <1>7, NetRowAssumption
  <1>9. /\ LiveProxies' = LiveProxies /\ proxies'[p] = z
        /\ \A q \in LiveProxies \ {p} : proxies'[q] = proxies[q]
    BY <1>1, <1>6, <1>8, ProxySet
  <1>10. /\ \A q \in LiveProxies : proxies'[q].name = proxies[q].name
         /\ ProxyNames' = ProxyNames
    <2>1. \A q \in LiveProxies : proxies'[q].name = proxies[q].name
      BY <1>4, <1>7, <1>9
    <2> QED
      BY <1>9, <2>1, ProxyNamesStay
  <1>11. RowsTyped'
    BY <1>1, <1>7, <1>9, SameServers DEF RowsTyped
  <1>12. RowsApart'
    <2>1. ServerNames \cap ProxyNames' = {}
      BY <1>10 DEF RowsApart
    <2> QED
      BY <1>1, <1>7, <1>9, <2>1, ProxiesApart
  <1>13. RunsTold'
    <2> SUFFICES ASSUME ~strayed
                 PROVE  /\ up \subseteq ProxyNames'
                        /\ \A q \in LiveProxies' : proxies'[q].name \in up =>
                             Told(news, proxies'[q].name, proxies'[q].run)
      BY <1>1 DEF RunsTold
    <2>1. /\ up \subseteq ProxyNames
          /\ \A q \in LiveProxies : proxies[q].name \in up =>
               Told(news, proxies[q].name, proxies[q].run)
      BY DEF RunsTold
    <2>2. ASSUME n \in up PROVE Told(news, n, z.run)
      <3>1. Told(news, n, proxies[p].run)
        BY <1>4, <2>1, <2>2
      <3>2. z.run = TRUE
        BY <1>5, <1>7, <2>2 DEF Stopped
      <3> QED
        BY <3>1, <3>2 DEF Told
    <2> QED
      BY <1>4, <1>7, <1>9, <1>10, <2>1, <2>2
  <1>14. Housed' /\ p \in LiveProxies' /\ n = proxies'[p].name
    BY <1>1, <1>3a, <1>4, <1>9, <1>10, SameServers, SameDirectories DEF Housed
  <1>15. Stage(t)'
    <2>1. CASE todo'[t] = <<>>
      BY <1>14, <2>1, NowDone
    <2>2. CASE todo'[t] = <<start, on>>
      <3>1. Switching(t)'
        BY <1>3a, <1>14, <2>2 DEF Switching, SwitchParts
      <3> QED
        BY <3>1 DEF Stage
    <2> QED
      BY <1>4, <2>1, <2>2
  <1> QED
    BY <1>11, <1>12, <1>13, <1>15


(* The steps a plain step leaves are plain. *)
LEMMA PlainOnward ==
    ASSUME NEW t \in NetThreads, NetStep(t), Calm(t), todo[t] # <<>>, Head(todo[t]).do \notin Turning
    PROVE  \/ Continue(t) \/ Abort(t)
           \/ \E q : Plain(q, ServerNames, ProxyNames) /\ GoOn(t, q)
  <1> DEFINE PlainQ(q) == Plain(q, ServerNames, ProxyNames)
             One(x) == PlainStep(x, ServerNames, ProxyNames)
  <1>1. One(Head(todo[t]))
    BY PlainSteps DEF Calm
  <1>2. \A x : One(x) => PlainQ(<<x>>)
    BY PlainSteps
  <1>3. \A x, y : One(x) /\ One(y) => PlainQ(<<x, y>>)
    BY PlainSteps
  <1>3a. PlainQ(<<>>) /\ \A p, q : PlainQ(p) /\ PlainQ(q) => PlainQ(p \o q)
    BY PlainSteps
  <1>4. \A p : One(SyncStep(p))
    BY DEF PlainStep, Turning, SyncStep
  <1> HIDE DEF PlainQ
  <1> SUFFICES Continue(t) \/ Abort(t) \/ \E q : PlainQ(q) /\ GoOn(t, q)
    BY DEF PlainQ
  <1>5. CASE SyncRead(t)
    <2>1. \A name, config : One([do |-> "toml", name |-> name, config |-> config])
      BY DEF PlainStep, Turning
    <2> HIDE DEF One
    <2>2. \A name, config : PlainQ(<<[do |-> "toml", name |-> name, config |-> config]>>)
      BY <1>2, <2>1
    <2> QED
      BY <1>5, <2>2 DEF SyncRead
  <1>6. CASE ConfigureServer(t)
    <2>1. \A p, row : One([do |-> "motd", at |-> ProxyName(p), row |-> row])
      BY ProxyNameIs DEF PlainStep, Turning
    <2> HIDE DEF One
    <2>2. \A p, r, row : PlainQ(<<SyncStep(p), [do |-> "motd", at |-> ProxyName(r), row |-> row]>>)
      BY <1>3, <1>4, <2>1
    <2> QED
      BY <1>6, <2>2 DEF ConfigureServer
  <1>7. CASE ChangeServer(t)
    <2> DEFINE i == Now(t).id
               cur == Now(t).cur
               f == Now(t).fields
               at == Now(t).at
               has == i \in LiveServers /\ servers[i].lines # "null"
               files(do, pn) == [do |-> do, at |-> pn, from |-> at, cur |-> cur, fields |-> f]
               proxied == cur.proxy # 0
               leave == IF proxied /\ has THEN <<files("unmotd", at)>> ELSE <<>>
               join == IF f.proxy \in LiveProxies /\ has
                       THEN <<files("moveMotd", ProxyName(f.proxy))>> ELSE <<>>
               one == CASE f.proxy = NetNone -> <<>>
                        [] f.proxy = 0 -> leave \o <<[do |-> "leave", id |-> i]>>
                        [] OTHER -> join \o <<[do |-> "assign", id |-> i, proxy |-> f.proxy]>>
               two == IF f.domain = NetNone THEN <<>>
                      ELSE <<[do |-> "domain", id |-> i, at |-> at, has |-> has,
                              name |-> cur.name, domain |-> f.domain]>>
               three == IF f.name # NetNone /\ has /\ proxied
                        THEN <<files("renameMotd", at)>> ELSE <<>>
               four == IF f.name # NetNone /\ proxied THEN <<SyncStep(cur.proxy)>> ELSE <<>>
               five == IF f.lines # NetNone /\ proxied THEN <<files("lines", at)>> ELSE <<>>
    <2>1. GoOn(t, one \o two \o three \o four \o five)
      BY <1>7 DEF ChangeServer
    <2>2. at \in ProxyNames \cup {NetNone} /\ f.domain \in RowDomains
      BY <1>1, <1>7 DEF ChangeServer, At, Now, PlainStep
    <2>3. \A do, pn : /\ do \in {"unmotd", "moveMotd", "renameMotd", "lines"}
                      /\ pn \in ProxyNames \cup {NetNone}
                      => One(files(do, pn))
      BY DEF PlainStep, Turning
    <2>4. \A h, x : One([do |-> "domain", id |-> i, at |-> at, has |-> h, name |-> x, domain |-> f.domain])
      BY <2>2 DEF PlainStep, Turning
    <2>5. /\ \A x : One([do |-> "leave", id |-> x])
          /\ \A x, p : One([do |-> "assign", id |-> x, proxy |-> p])
      BY DEF PlainStep, Turning
    <2> HIDE DEF One, i, at, f, cur
    <2>6. PlainQ(leave) /\ PlainQ(join) /\ PlainQ(three) /\ PlainQ(five)
      <3>1. One(files("unmotd", at)) /\ One(files("renameMotd", at)) /\ One(files("lines", at))
            /\ One(files("moveMotd", ProxyName(f.proxy)))
        BY <2>2, <2>3, ProxyNameIs
      <3> HIDE DEF files
      <3> QED
        BY <1>2, <1>3a, <3>1
    <2>7. PlainQ(two)
      BY <1>2, <1>3a, <2>4
    <2>8. PlainQ(four)
      BY <1>2, <1>3a, <1>4
    <2>9. PlainQ(<<[do |-> "leave", id |-> i]>>) /\ PlainQ(<<[do |-> "assign", id |-> i, proxy |-> f.proxy]>>)
      BY <1>2, <2>5
    <2> HIDE DEF leave, join
    <2>10. /\ PlainQ(leave \o <<[do |-> "leave", id |-> i]>>)
           /\ PlainQ(join \o <<[do |-> "assign", id |-> i, proxy |-> f.proxy]>>)
      BY <1>3a, <2>6, <2>9
    <2>11. PlainQ(one)
      BY <1>3a, <2>10
    <2> HIDE DEF one, two, three, four, five
    <2>12. PlainQ(one \o two \o three \o four \o five)
      BY <1>3a, <2>6, <2>7, <2>8, <2>11
    <2> QED
      BY <2>1, <2>12
  <1>8. CASE AssignServer(t)
    <2>1. \A name, limbo, port, p :
            One([do |-> "joinFiles", name |-> name, limbo |-> limbo, port |-> port, proxy |-> p])
      BY DEF PlainStep, Turning
    <2> HIDE DEF One
    <2>2. \A name, limbo, port, p :
            PlainQ(<<[do |-> "joinFiles", name |-> name, limbo |-> limbo, port |-> port,
                      proxy |-> p]>>)
      BY <1>2, <2>1
    <2> QED
      BY <1>8, <2>2 DEF AssignServer
  <1>9. \A p : PlainQ(<<SyncStep(p)>>)
    BY <1>2, <1>4
  <1>10. CASE JoinFiles(t)
    BY <1>9, <1>10 DEF JoinFiles
  <1>11. CASE LeaveRow(t)
    BY <1>9, <1>11 DEF LeaveRow
  <1>12. CASE DomainRow(t)
    BY <1>9, <1>12 DEF DomainRow
  <1>13. ASSUME ~SyncRead(t), ~ConfigureServer(t), ~ChangeServer(t), ~AssignServer(t),
                ~JoinFiles(t), ~LeaveRow(t), ~DomainRow(t), ~InsertServer(t), ~InsertProxy(t)
         PROVE  Continue(t) \/ Abort(t)
    BY <1>13, Zenon DEF NetStep, SyncWrite, ServerFiles, CreateMotd, RemoveDir, DeleteServerRow,
       ForgetServer, UpdateRow, SetUdp, LeaveMotd, MoveMotd, RenameMotdFiles, LinesMotd,
       ProxyFiles, Unassign, DeleteProxyRow, ProxyRow, RefreshIcons,
       StartContainer, StopContainer, MarkProxy
  <1>14. ~InsertServer(t) /\ ~InsertProxy(t)
    BY DEF InsertServer, InsertProxy, At, Turning
  <1> QED
    BY <1>5, <1>6, <1>7, <1>8, <1>10, <1>11, <1>12, <1>13, <1>14


(* Rows whose names and runs a plain step leaves. *)
LEMMA OneServerRow ==
    ASSUME RowsTyped, Sequence(servers), NEW i \in LiveServers, NEW z \in ServerRows,
           z.name = servers[i].name, servers' = [servers EXCEPT ![i] = z], UNCHANGED proxies
    PROVE  /\ RowsTyped' /\ LiveServers' = LiveServers /\ LiveProxies' = LiveProxies
           /\ ServerNames' = ServerNames /\ ProxyNames' = ProxyNames
           /\ servers'[i] = z /\ \A j \in LiveServers \ {i} : servers'[j] = servers[j]
  <1>1. z # NetNone
    BY NetRowAssumption
  <1>2. /\ LiveServers' = LiveServers /\ servers'[i] = z
        /\ \A j \in LiveServers \ {i} : servers'[j] = servers[j]
    BY <1>1, ServerSet
  <1>3. RowsTyped'
    BY <1>2, SameProxies DEF RowsTyped
  <1> QED
    BY <1>2, <1>3, SameProxies, ServerNamesStay

LEMMA ServerUdp ==
    ASSUME RowsTyped, Sequence(servers), NEW k, NEW h \in Nat,
           servers' = IF k \in LiveServers THEN [servers EXCEPT ![k].udp = h] ELSE servers
    PROVE  /\ LiveServers' = LiveServers
           /\ \A i \in LiveServers :
                /\ servers'[i] \in ServerRows /\ servers'[i].name = servers[i].name
                /\ servers'[i].proxy = servers[i].proxy /\ servers'[i].port = servers[i].port
                /\ servers'[i].udp = IF i = k THEN h ELSE servers[i].udp
                /\ servers'[i].limbo = servers[i].limbo
  <1>1. CASE k \notin LiveServers
    BY <1>1, SameServers DEF RowsTyped
  <1>2. CASE k \in LiveServers
    <2> DEFINE z == [servers[k] EXCEPT !.udp = h]
    <2>1. servers' = [servers EXCEPT ![k] = z]
      BY <1>2
    <2>2. /\ z \in ServerRows /\ z.name = servers[k].name /\ z.proxy = servers[k].proxy
          /\ z.port = servers[k].port /\ z.udp = h /\ z.limbo = servers[k].limbo
      BY <1>2 DEF RowsTyped, ServerRows
    <2> HIDE DEF z
    <2>3. z # NetNone
      BY <2>2, NetRowAssumption
    <2>4. /\ LiveServers' = LiveServers /\ servers'[k] = z
          /\ \A j \in LiveServers \ {k} : servers'[j] = servers[j]
      BY <1>2, <2>1, <2>3, ServerSet
    <2> QED
      BY <2>2, <2>4 DEF RowsTyped
  <1> QED
    BY <1>1, <1>2

LEMMA ProxyUdp ==
    ASSUME RowsTyped, Sequence(proxies), NEW k, NEW h \in Nat,
           proxies' = IF k \in LiveProxies THEN [proxies EXCEPT ![k].udp = h] ELSE proxies
    PROVE  /\ LiveProxies' = LiveProxies
           /\ \A p \in LiveProxies :
                /\ proxies'[p] \in ProxyRows /\ proxies'[p].name = proxies[p].name
                /\ proxies'[p].run = proxies[p].run
                /\ proxies'[p].udp = IF p = k THEN h ELSE proxies[p].udp
  <1>1. CASE k \notin LiveProxies
    BY <1>1, SameProxies DEF RowsTyped
  <1>2. CASE k \in LiveProxies
    <2> DEFINE z == [proxies[k] EXCEPT !.udp = h]
    <2>1. proxies' = [proxies EXCEPT ![k] = z]
      BY <1>2
    <2>2. /\ z \in ProxyRows /\ z.name = proxies[k].name /\ z.run = proxies[k].run /\ z.udp = h
      BY <1>2 DEF RowsTyped, ProxyRows
    <2> HIDE DEF z
    <2>3. z # NetNone
      BY <2>2, NetRowAssumption
    <2>4. /\ LiveProxies' = LiveProxies /\ proxies'[k] = z
          /\ \A q \in LiveProxies \ {k} : proxies'[q] = proxies[q]
      BY <1>2, <2>1, <2>3, ProxySet
    <2> QED
      BY <2>2, <2>4 DEF RowsTyped
  <1> QED
    BY <1>1, <1>2

LEMMA SetUdpSerial ==
    ASSUME NetIInv, RowsTyped, RowsApart, NEW t \in NetThreads, Calm(t), SetUdp(t)
    PROVE  /\ RowsTyped' /\ RowsApart' /\ ServerNames' = ServerNames
           /\ LiveProxies' = LiveProxies
           /\ \A p \in LiveProxies :
                proxies'[p].name = proxies[p].name /\ proxies'[p].run = proxies[p].run
  <1> DEFINE h == Now(t).port
             k == Now(t).server
             q == Now(t).proxy
  <1>1. h \in Nat /\ (k = 0 \/ q = 0)
    <2>1. At(t, "udp")
      BY DEF SetUdp
    <2>2. PlainStep(Head(todo[t]), ServerNames, ProxyNames)
      BY <2>1, PlainSteps DEF Calm, At
    <2> QED
      BY <2>1, <2>2 DEF PlainStep, At, Now
  <1>2. Sequence(servers) /\ Sequence(proxies)
    BY Threads
  <1>3. CASE UNCHANGED <<servers, proxies>>
    BY <1>3, SameServers, SameProxies DEF RowsTyped, RowsApart
  <1>4. CASE ~UNCHANGED <<servers, proxies>>
    <2>1. /\ h # 0 => ~UdpTaken(h, k, q)
          /\ servers' = IF k \in LiveServers THEN [servers EXCEPT ![k].udp = h] ELSE servers
          /\ proxies' = IF q \in LiveProxies THEN [proxies EXCEPT ![q].udp = h] ELSE proxies
      BY <1>4 DEF SetUdp, rows
    <2> HIDE DEF h, k, q
    <2>2. /\ LiveServers' = LiveServers
          /\ \A i \in LiveServers :
                /\ servers'[i] \in ServerRows /\ servers'[i].name = servers[i].name
                /\ servers'[i].proxy = servers[i].proxy /\ servers'[i].port = servers[i].port
                /\ servers'[i].udp = IF i = k THEN h ELSE servers[i].udp
                /\ servers'[i].limbo = servers[i].limbo
      BY <1>1, <1>2, <2>1, ServerUdp
    <2>3. /\ LiveProxies' = LiveProxies
          /\ \A p \in LiveProxies :
                /\ proxies'[p] \in ProxyRows /\ proxies'[p].name = proxies[p].name
                /\ proxies'[p].run = proxies[p].run
                /\ proxies'[p].udp = IF p = q THEN h ELSE proxies[p].udp
      BY <1>1, <1>2, <2>1, ProxyUdp
    <2>4. ServerNames' = ServerNames /\ ProxyNames' = ProxyNames
      BY <2>2, <2>3, ServerNamesStay, ProxyNamesStay
    <2>5. RowsTyped'
      BY <2>2, <2>3 DEF RowsTyped
    <2>6. LiveServers \subseteq Nat \ {0} /\ LiveProxies \subseteq Nat \ {0}
      BY <1>2, Sequences DEF LiveServers, LiveProxies
    <2>7. RowsApart'
      BY <1>1, <2>1, <2>2, <2>3, <2>4, <2>6, UdpGiven
    <2> QED
      BY <2>3, <2>4, <2>5, <2>7
  <1> QED
    BY <1>3, <1>4

(* A row of a server alone. *)
LEMMA PlainRow ==
    ASSUME NetIInv, RowsTyped, RowsApart, NEW t \in NetThreads, Calm(t),
           AssignServer(t) \/ LeaveRow(t) \/ DomainRow(t)
    PROVE  /\ RowsTyped' /\ RowsApart' /\ ServerNames' = ServerNames
           /\ LiveProxies' = LiveProxies
           /\ \A p \in LiveProxies :
                proxies'[p].name = proxies[p].name /\ proxies'[p].run = proxies[p].run
  <1>1. UNCHANGED proxies /\ Sequence(servers)
    BY Threads DEF AssignServer, LeaveRow, DomainRow
  <1>1a. LiveProxies' = LiveProxies
    BY <1>1, SameProxies
  <1>2. CASE UNCHANGED servers
    BY <1>1, <1>2, SameServers, SameProxies DEF RowsTyped, RowsApart
  <1>3. CASE AssignServer(t) /\ ~UNCHANGED servers
    <2>1. /\ Now(t).id \in LiveServers /\ Now(t).proxy \in LiveProxies
          /\ servers' = [servers EXCEPT ![Now(t).id].proxy = Now(t).proxy,
                           ![Now(t).id].port = NextPort(Now(t).proxy), ![Now(t).id].domain = NetNone]
      BY <1>3 DEF AssignServer
    <2>2. PICK i \in LiveServers, p \in LiveProxies :
            servers' = [servers EXCEPT ![i].proxy = p, ![i].port = NextPort(p), ![i].domain = NetNone]
      BY <2>1
    <2> DEFINE h == NextPort(p)
               z == [servers[i] EXCEPT !.proxy = p, !.port = h, !.domain = NetNone]
    <2>3. servers' = [servers EXCEPT ![i] = z]
      <3>1. servers' = [servers EXCEPT ![i].proxy = p, ![i].port = h, ![i].domain = NetNone]
        BY <2>2
      <3> HIDE DEF h
      <3> QED
        BY <1>1, <3>1, Sequences DEF LiveServers
    <2>4. p \in Nat
      BY Threads, Sequences DEF LiveProxies
    <2>5. h \in Nat /\ \A j \in LiveServers : servers[j].proxy = p => servers[j].port # h
      BY <2>4, NextPortFree
    <2> HIDE DEF h
    <2>6. NetNone \in RowDomains
      BY Domains
    <2>7. /\ z \in ServerRows /\ z.name = servers[i].name /\ z.proxy = p /\ z.port = h
          /\ z.udp = servers[i].udp
      BY <2>4, <2>5, <2>6 DEF RowsTyped, ServerRows
    <2> HIDE DEF z
    <2>8. /\ RowsTyped' /\ LiveServers' = LiveServers
          /\ ServerNames' = ServerNames /\ ProxyNames' = ProxyNames
          /\ servers'[i] = z /\ \A j \in LiveServers \ {i} : servers'[j] = servers[j]
      BY <1>1, <2>3, <2>7, OneServerRow
    <2>9. RowsApart'
      <3>1. ServerNames' \cap ProxyNames = {}
        BY <2>8 DEF RowsApart
      <3> QED
        BY <1>1, <2>5, <2>7, <2>8, <3>1, PortGiven
    <2> QED
      BY <1>1, <1>1a, <2>8, <2>9
  <1>4. CASE LeaveRow(t) /\ ~UNCHANGED servers
    <2>1. Now(t).id \in LiveServers /\ servers' = [servers EXCEPT ![Now(t).id].proxy = 0, ![Now(t).id].port = 0]
      BY <1>4 DEF LeaveRow
    <2>2. PICK i \in LiveServers : servers' = [servers EXCEPT ![i].proxy = 0, ![i].port = 0]
      BY <2>1
    <2> DEFINE z == [servers[i] EXCEPT !.proxy = 0, !.port = 0]
    <2>3. servers' = [servers EXCEPT ![i] = z]
      BY <1>1, <2>2, Sequences DEF LiveServers
    <2>4. /\ z \in ServerRows /\ z.name = servers[i].name /\ z.proxy = 0 /\ z.port = 0
          /\ z.udp = servers[i].udp
      BY DEF RowsTyped, ServerRows
    <2> HIDE DEF z
    <2>5. /\ RowsTyped' /\ LiveServers' = LiveServers
          /\ ServerNames' = ServerNames /\ ProxyNames' = ProxyNames
          /\ servers'[i] = z /\ \A j \in LiveServers \ {i} : servers'[j] = servers[j]
      BY <1>1, <2>3, <2>4, OneServerRow
    <2>6. RowsApart'
      <3>1. ServerNames' \cap ProxyNames = {}
        BY <2>5 DEF RowsApart
      <3> QED
        BY <1>1, <2>4, <2>5, <3>1, ServersApart
    <2> QED
      BY <1>1, <1>1a, <2>5, <2>6
  <1>5. CASE DomainRow(t) /\ ~UNCHANGED servers
    <2>1. /\ Now(t).id \in LiveServers /\ Now(t).domain \in RowDomains
          /\ servers' = [servers EXCEPT ![Now(t).id].domain = Now(t).domain]
      BY <1>5, PlainSteps DEF DomainRow, Calm, At, Now, PlainStep
    <2>2. PICK i \in LiveServers, d \in RowDomains : servers' = [servers EXCEPT ![i].domain = d]
      BY <2>1
    <2> DEFINE z == [servers[i] EXCEPT !.domain = d]
    <2>3. servers' = [servers EXCEPT ![i] = z]
      BY <2>2
    <2>4. /\ z \in ServerRows /\ z.name = servers[i].name /\ z.proxy = servers[i].proxy
          /\ z.port = servers[i].port /\ z.udp = servers[i].udp
      BY DEF RowsTyped, ServerRows
    <2> HIDE DEF z
    <2>5. /\ RowsTyped' /\ LiveServers' = LiveServers
          /\ ServerNames' = ServerNames /\ ProxyNames' = ProxyNames
          /\ servers'[i] = z /\ \A j \in LiveServers \ {i} : servers'[j] = servers[j]
      BY <1>1, <2>3, <2>4, OneServerRow
    <2>6. RowsApart'
      <3>1. ServerNames' \cap ProxyNames = {}
        BY <2>5 DEF RowsApart
      <3> QED
        BY <1>1, <2>4, <2>5, <3>1, ServersApart
    <2> QED
      BY <1>1, <1>1a, <2>5, <2>6
  <1> QED
    BY <1>2, <1>3, <1>4, <1>5

LEMMA PlainSerial ==
    ASSUME NetIInv, RowsTyped, RowsApart, RunsTold, NEW t \in NetThreads, Stage(t), NetStep(t),
           todo[t] # <<>>, Head(todo[t]).do \notin Turning
    PROVE  RowsTyped' /\ RowsApart' /\ RunsTold' /\ Stage(t)' /\ UNCHANGED news
  <1>1. Calm(t) /\ t \in DOMAIN todo
    BY StageIs, Threads
  <1>2. Directories' \subseteq Directories \cup ServerNames \cup ProxyNames
    BY <1>1, PlainDirectories DEF NetIInv
  <1>3. /\ UNCHANGED containers
        /\ \/ UNCHANGED rows \/ SetUdp(t) \/ AssignServer(t) \/ LeaveRow(t) \/ DomainRow(t)
    BY Zenon DEF NetStep, SyncRead, SyncWrite, InsertServer, ServerFiles, ConfigureServer,
       CreateMotd, RemoveDir, DeleteServerRow, ForgetServer, UpdateRow, SetUdp, ChangeServer,
       LeaveMotd, MoveMotd, RenameMotdFiles, LinesMotd, AssignServer, JoinFiles, LeaveRow,
       DomainRow, InsertProxy, ProxyFiles, Unassign, DeleteProxyRow, ProxyRow, RefreshIcons,
       StartContainer, StopContainer, MarkProxy, At, Turning
  <1>4. /\ RowsTyped' /\ RowsApart' /\ ServerNames' = ServerNames
        /\ LiveProxies' = LiveProxies
        /\ \A p \in LiveProxies :
             proxies'[p].name = proxies[p].name /\ proxies'[p].run = proxies[p].run
    <2>1. CASE UNCHANGED rows
      BY <2>1, SameServers, SameProxies DEF RowsTyped, RowsApart, rows
    <2> QED
      BY <1>1, <1>3, <2>1, SetUdpSerial, PlainRow
  <1>5. ProxyNames' = ProxyNames
    BY <1>4, ProxyNamesStay
  <1>6. Calm(t)'
    BY <1>1, <1>2, <1>4, <1>5, PlainOnward, CalmGoesOn
  <1>7. RunsTold'
    BY <1>3, <1>4, <1>5, RunsKept DEF containers
  <1> QED
    BY <1>3, <1>4, <1>6, <1>7 DEF Stage, containers


(* Every step. *)
LEMMA StepSerial ==
    ASSUME NetIInv, RowsTyped, RowsApart, RunsTold, news \in Seq([name : NetNames, run : BOOLEAN]),
           NEW t \in NetThreads, Stage(t), NetStep(t)
    PROVE  /\ RowsTyped' /\ RowsApart' /\ RunsTold' /\ Stage(t)'
           /\ news' \in Seq([name : NetNames, run : BOOLEAN])
  <1>1. todo[t] # <<>>
    BY Zenon DEF NetStep, SyncRead, SyncWrite, InsertServer, ServerFiles, ConfigureServer,
       CreateMotd, RemoveDir, DeleteServerRow, ForgetServer, UpdateRow, SetUdp, ChangeServer,
       LeaveMotd, MoveMotd, RenameMotdFiles, LinesMotd, AssignServer, JoinFiles, LeaveRow,
       DomainRow, InsertProxy, ProxyFiles, Unassign, DeleteProxyRow, ProxyRow, RefreshIcons,
       StartContainer, StopContainer, MarkProxy, At
  <1>2. CASE Head(todo[t]).do \notin Turning
    BY <1>1, <1>2, PlainSerial
  <1>3. CASE InsertServer(t) \/ DeleteServerRow(t) \/ UpdateRow(t) \/ RemoveDir(t) \/ Unassign(t)
    <2>1. UNCHANGED <<proxies, up, news, strayed>>
      BY <1>3 DEF InsertServer, DeleteServerRow, UpdateRow, RemoveDir, Unassign, rows, containers
    <2>2. RunsTold'
      BY <2>1, SameProxies DEF RunsTold
    <2> QED
      BY <1>3, <2>1, <2>2, InsertServerSerial, DeleteServerRowSerial, UpdateRowSerial,
         RemoveDirSerial, UnassignSerial
  <1>4. CASE InsertProxy(t)
    <2>1. UNCHANGED <<up, news, strayed>>
      BY <1>4 DEF InsertProxy, containers
    <2>2. /\ RowsTyped' /\ RowsApart' /\ Stage(t)' /\ ProxyNames \subseteq ProxyNames'
          /\ \A p \in LiveProxies' : \/ p \in LiveProxies /\ proxies'[p] = proxies[p]
                                     \/ proxies'[p].name \notin ProxyNames
      BY <1>4, InsertProxySerial
    <2>3. ProxyNames \subseteq ProxyNames' \cup {NetNone}
      BY <2>2
    <2>4. RunsTold'
      BY <2>1, <2>2, <2>3, RunsKept
    <2> QED
      BY <2>1, <2>2, <2>4
  <1>5. CASE DeleteProxyRow(t)
    <2>1. UNCHANGED <<up, news, strayed>>
      BY <1>5 DEF DeleteProxyRow, containers
    <2>2. /\ RowsTyped' /\ RowsApart' /\ Stage(t)'
          /\ \A p \in LiveProxies' : p \in LiveProxies /\ proxies'[p] = proxies[p]
          /\ \E n : Stopped(n) /\ ProxyNames \subseteq ProxyNames' \cup {n}
      BY <1>5, DeleteProxyRowSerial
    <2>3. PICK n : Stopped(n) /\ ProxyNames \subseteq ProxyNames' \cup {n}
      BY <2>2
    <2>4. RunsTold'
      BY <2>1, <2>2, <2>3, RunsKept
    <2> QED
      BY <2>1, <2>2, <2>4
  <1>6. CASE ProxyRow(t)
    <2>1. UNCHANGED <<up, news, strayed>>
      BY <1>6 DEF ProxyRow, containers
    <2>2. /\ RowsTyped' /\ RowsApart' /\ Stage(t)'
          /\ \A p \in LiveProxies' :
                /\ p \in LiveProxies /\ proxies'[p].run = proxies[p].run
                /\ proxies'[p].name = proxies[p].name \/ proxies'[p].name \notin ProxyNames
          /\ \E n : /\ ProxyNames \subseteq ProxyNames' \cup {n}
                    /\ Stopped(n) \/ ProxyNames \subseteq ProxyNames'
      BY <1>6, ProxyRowSerial
    <2>3. PICK n : /\ ProxyNames \subseteq ProxyNames' \cup {n}
                   /\ Stopped(n) \/ ProxyNames \subseteq ProxyNames'
      BY <2>2
    <2>4. RunsTold'
      BY <2>1, <2>2, <2>3, RunsKept
    <2> QED
      BY <2>1, <2>2, <2>4
  <1>7. CASE StartContainer(t) \/ StopContainer(t)
    <2>1. UNCHANGED <<servers, proxies>>
      BY <1>7 DEF StartContainer, StopContainer, rows
    <2>2. RowsTyped' /\ RowsApart'
      BY <2>1, SameServers, SameProxies DEF RowsTyped, RowsApart
    <2> QED
      BY <1>7, <2>2, StartContainerSerial, StopContainerSerial
  <1>8. CASE MarkProxy(t)
    <2>1. UNCHANGED news
      BY <1>8 DEF MarkProxy, containers
    <2> QED
      BY <1>8, <2>1, MarkProxySerial
  <1>9. ASSUME ~InsertServer(t), ~DeleteServerRow(t), ~UpdateRow(t), ~RemoveDir(t), ~Unassign(t),
               ~InsertProxy(t), ~DeleteProxyRow(t), ~ProxyRow(t), ~StartContainer(t),
               ~StopContainer(t), ~MarkProxy(t)
        PROVE  Head(todo[t]).do \notin Turning
    BY <1>9, Zenon DEF NetStep, SyncRead, SyncWrite, ServerFiles, ConfigureServer,
       CreateMotd, ForgetServer, SetUdp, ChangeServer,
       LeaveMotd, MoveMotd, RenameMotdFiles, LinesMotd, AssignServer, JoinFiles, LeaveRow,
       DomainRow, ProxyFiles, RefreshIcons, At, Turning
  <1> QED
    BY <1>2, <1>3, <1>4, <1>5, <1>6, <1>7, <1>8, <1>9

(* The other threads wait for nothing. *)
LEMMA StepOthers ==
    ASSUME StepsOK, NEW t \in NetThreads, NetStep(t)
    PROVE  \A u \in NetThreads \ {t} : todo'[u] = todo[u]
  <1>1. \E q : todo' = [todo EXCEPT ![t] = q]
    BY Zenon DEF NetStep, SyncRead, SyncWrite, InsertServer, ServerFiles, ConfigureServer,
       CreateMotd, RemoveDir, DeleteServerRow, ForgetServer, UpdateRow, SetUdp, ChangeServer,
       LeaveMotd, MoveMotd, RenameMotdFiles, LinesMotd, AssignServer, JoinFiles, LeaveRow,
       DomainRow, InsertProxy, ProxyFiles, Unassign, DeleteProxyRow, ProxyRow, RefreshIcons,
       StartContainer, StopContainer, MarkProxy, Continue, Abort, GoOn
  <1> QED
    BY <1>1 DEF StepsOK


LEMMA FirstOf ==
    ASSUME NEW s, NEW q, NEW r, NEW sn, NEW pn, Plain(q, sn, pn), Plain(r, sn, pn)
    PROVE  <<s>> \o q \o r # <<>> /\ Head(<<s>> \o q \o r) = s /\ Tail(<<s>> \o q \o r) = q \o r
  <1>1. PICK S : q \in Seq(S)
    BY DEF Plain
  <1>2. PICK T : r \in Seq(T)
    BY DEF Plain
  <1> DEFINE A == S \cup T \cup {s}
  <1>3. q \in Seq(A) /\ r \in Seq(A) /\ <<s>> \in Seq(A)
    BY <1>1, <1>2
  <1> HIDE DEF A
  <1>4. <<s>> \o q \o r = <<s>> \o (q \o r)
    BY <1>3, ConcatAssociative
  <1>5. q \o r \in Seq(A)
    BY <1>3
  <1> QED
    BY <1>4, <1>5


(* Requests: what each one's first steps are. *)
LEMMA Requested ==
    ASSUME StepsOK, NEW t \in NetThreads, NEW kind, NEW q, Begin(t, kind, q)
    PROVE  /\ todo[t] = <<>> /\ todo'[t] = q /\ UNCHANGED users
           /\ t \in users.threads /\ \A u \in NetThreads \ {t} : todo'[u] = todo[u]
  BY DEF Begin, Idle, StepsOK

LEMMA CreateServerSerial ==
    ASSUME NetIInv, RowsTyped, RowsApart, Housed, NEW t \in NetThreads, CreateServer(t)
    PROVE  Stage(t)'
  <1>1. PICK name \in NetNames, p \in LiveProxies \cup {0}, h \in NetPorts,
             force \in BOOLEAN, domain \in NetDomains \cup {NetNone},
             lines \in users.lines, limbo \in users.limbo :
          /\ ~ServerNamed(name) /\ ~ProxyNamed(name)
          /\ Begin(t, "create", <<[do |-> "insert",
                row |-> [name |-> name, proxy |-> p, udp |-> 0, domain |-> domain,
                         port |-> IF p = 0 THEN h ELSE NextPort(p),
                         lines |-> lines, limbo |-> limbo]]>>)
    BY Zenon DEF CreateServer
  <1> DEFINE port == IF p = 0 THEN h ELSE NextPort(p)
             r == [name |-> name, proxy |-> p, udp |-> 0, domain |-> domain,
                   port |-> port, lines |-> lines, limbo |-> limbo]
             s == [do |-> "insert", row |-> r]
  <1>2. UNCHANGED <<servers, proxies, dirs>> /\ StepsOK
    BY DEF CreateServer, rows, NetIInv
  <1>3. p \in Nat
    BY Threads, Sequences DEF LiveProxies
  <1>4. /\ port \in Nat
        /\ p # 0 => \A i \in LiveServers : servers[i].proxy = p => servers[i].port # port
    <2>1. CASE p = 0
      BY <2>1, NetAssumption
    <2>2. CASE p # 0
      BY <1>3, <2>2, NextPortFree
    <2> QED
      BY <2>1, <2>2
  <1>5. Begin(t, "create", <<s>>)
    BY <1>1
  <1> HIDE DEF port
  <1>6. lines \in Lines /\ limbo \in BOOLEAN
    BY NetAssumption DEF NetIInv, RestOK, Lines
  <1>7. domain \in RowDomains
    BY Domains
  <1>8. /\ r \in ServerRows /\ r.name = name /\ r.proxy = p /\ r.port = port /\ r.udp = 0
    BY <1>3, <1>4, <1>6, <1>7 DEF ServerRows, Lines
  <1>9. s.row = r /\ s.do = "insert"
    OBVIOUS
  <1> HIDE DEF r, s
  <1>10. todo'[t] = <<s>>
    BY <1>2, <1>5, Requested
  <1>11. name \notin ServerNames \cup ProxyNames
    BY <1>1 DEF ServerNamed, ProxyNamed, ServerNames, ProxyNames
  <1>12. /\ LiveServers' = LiveServers /\ ServerNames' = ServerNames /\ ProxyNames' = ProxyNames
         /\ Housed'
    BY <1>2, SameServers, SameProxies, SameDirectories DEF Housed
  <1>13. At(t, "insert")' /\ Now(t)' = s /\ Tail(todo'[t]) = <<>>
    BY <1>9, <1>10 DEF At, Now
  <1>14. Inserting(t)'
    BY <1>2, <1>4, <1>8, <1>9, <1>11, <1>12, <1>13 DEF Inserting
  <1> QED
    BY <1>14 DEF Stage

LEMMA DeleteServerSerial ==
    ASSUME NetIInv, Housed, NEW t \in NetThreads, DeleteServer(t)
    PROVE  Stage(t)'
  <1>1. PICK i \in LiveServers :
          Begin(t, "delete",
              <<[do |-> "rmdir", name |-> servers[i].name],
                [do |-> "deleteServer", id |-> i]>> \o
              IF servers[i].proxy = 0 THEN <<>>
              ELSE <<SyncStep(servers[i].proxy),
                     [do |-> "forget", name |-> servers[i].name, proxy |-> servers[i].proxy]>>)
    BY DEF DeleteServer
  <1> DEFINE s == [do |-> "rmdir", name |-> servers[i].name]
             u == [do |-> "deleteServer", id |-> i]
             r == IF servers[i].proxy = 0 THEN <<>>
                  ELSE <<SyncStep(servers[i].proxy),
                         [do |-> "forget", name |-> servers[i].name, proxy |-> servers[i].proxy]>>
  <1>2. UNCHANGED <<servers, proxies, dirs>> /\ StepsOK
    BY DEF DeleteServer, rows, NetIInv
  <1>3. Begin(t, "delete", <<s, u>> \o r)
    BY <1>1
  <1>4. Plain(r, {}, ProxyNames)
    <2>1. /\ PlainStep(SyncStep(servers[i].proxy), {}, ProxyNames)
          /\ PlainStep([do |-> "forget", name |-> servers[i].name, proxy |-> servers[i].proxy], {}, ProxyNames)
      BY DEF PlainStep, Turning, SyncStep
    <2> QED
      BY <2>1, PlainSteps
  <1>5. s.do = "rmdir" /\ s.name = servers[i].name /\ u.do = "deleteServer" /\ u.id = i
    OBVIOUS
  <1> HIDE DEF s, u, r
  <1>6. todo'[t] = <<s, u>> \o r
    BY <1>2, <1>3, Requested
  <1>7. /\ todo'[t] # <<>> /\ Head(todo'[t]) = s /\ Tail(todo'[t]) # <<>>
        /\ Head(Tail(todo'[t])) = u /\ Tail(Tail(todo'[t])) = r
    BY <1>4, <1>6, BeforeTwo
  <1>8. /\ LiveServers' = LiveServers /\ ServerNames' = ServerNames /\ ProxyNames' = ProxyNames
         /\ Housed'
    BY <1>2, SameServers, SameProxies, SameDirectories DEF Housed
  <1>9. Removing(t)'
    BY <1>2, <1>4, <1>5, <1>7, <1>8 DEF Removing, At, Now
  <1> QED
    BY <1>9 DEF Stage

(* A directory that moves. *)
LEMMA MovedTo ==
    ASSUME DOMAIN dirs = NetNames, Housed, NEW o \in NetNames, NEW n \in NetNames, MoveDir(o, n)
    PROVE  /\ Directories' \subseteq ServerNames \cup ProxyNames \cup {n}
           /\ o # n => o \notin Directories'
  <1>1. CASE o = n \/ dirs[o] = NetNone
    BY <1>1 DEF MoveDir, Directories, Housed
  <1>2. CASE o # n /\ dirs[o] # NetNone
    <2>1. /\ dirs'[o] = NetNone
          /\ \A x \in NetNames : x # n /\ x # o => dirs'[x] = dirs[x]
      BY <1>2 DEF MoveDir
    <2> QED
      BY <2>1 DEF Directories, Housed
  <1> QED
    BY <1>1, <1>2

LEMMA UpdateServerSerial ==
    ASSUME NetIInv, RowsTyped, Housed, NEW t \in NetThreads, NEW kind, NEW f, NEW i \in LiveServers,
           UpdateServer(t, kind, f, i), f.name \in NetNames \cup {NetNone},
           f.udp \in Nat \cup {NetNone}, f.domain \in RowDomains
    PROVE  Stage(t)'
  <1> DEFINE cur == servers[i]
             new == IF f.name = NetNone THEN cur.name ELSE f.name
             s == [do |-> "row", id |-> i, new |-> new, lines |-> f.lines]
             u == [do |-> "udp", server |-> i, proxy |-> 0, port |-> f.udp]
             q == IF f.udp = NetNone THEN <<>> ELSE <<u>>
             v == [do |-> "change", id |-> i, cur |-> cur, fields |-> f, at |-> ProxyName(cur.proxy)]
  <1>1. /\ Begin(t, kind, <<s>> \o q \o <<v>>) /\ MoveDir(cur.name, new)
        /\ new # cur.name => /\ ~\E j \in LiveServers \ {i} : servers[j].name = new
                             /\ ~ProxyNamed(new)
        /\ UNCHANGED <<servers, proxies>>
    BY Zenon DEF UpdateServer, rows
  <1>2. DOMAIN dirs = NetNames /\ StepsOK
    BY DEF NetIInv, RestOK
  <1>3. cur.name \in NetNames /\ new \in NetNames
    BY DEF RowsTyped, ServerRows
  <1>4. Plain(q, {}, ProxyNames)
    <2>1. f.udp # NetNone => PlainStep(u, {}, ProxyNames)
      BY DEF PlainStep, Turning
    <2> HIDE DEF u
    <2> QED
      BY <2>1, PlainSteps
  <1>5. Plain(<<v>>, {}, ProxyNames)
    <2>1. PlainStep(v, {}, ProxyNames)
      BY ProxyNameIs DEF PlainStep, Turning
    <2> HIDE DEF v
    <2> QED
      BY <2>1, PlainSteps
  <1>6. s.do = "row" /\ s.id = i /\ s.new = new
    OBVIOUS
  <1> HIDE DEF s, q, v, new, cur
  <1>7. todo'[t] = <<s>> \o q \o <<v>>
    BY <1>1, <1>2, Requested
  <1>8. todo'[t] # <<>> /\ Head(todo'[t]) = s /\ Tail(todo'[t]) = q \o <<v>>
    BY <1>4, <1>5, <1>7, FirstOf
  <1>9. Plain(Tail(todo'[t]), {}, ProxyNames)
    BY <1>4, <1>5, <1>8, PlainSteps
  <1>10. new # cur.name => new \notin ServerNames \cup ProxyNames
    BY <1>1 DEF ServerNames, ProxyNames, ProxyNamed, cur
  <1>11. /\ Directories' \subseteq ServerNames \cup ProxyNames \cup {new}
         /\ cur.name # new => cur.name \notin Directories'
    BY <1>1, <1>2, <1>3, MovedTo
  <1>12. /\ LiveServers' = LiveServers /\ ServerNames' = ServerNames /\ ProxyNames' = ProxyNames
    BY <1>1, SameServers, SameProxies
  <1>13. servers'[i].name = cur.name
    BY <1>1 DEF cur
  <1>14. Renaming(t)'
    BY <1>6, <1>8, <1>9, <1>10, <1>11, <1>12, <1>13 DEF Renaming, At, Now
  <1> QED
    BY <1>14 DEF Stage


LEMMA UpdatesSerial ==
    ASSUME NetIInv, RowsTyped, Housed, NEW t \in NetThreads,
           \/ RenameServer(t) \/ SetLines(t) \/ SetServerUdp(t) \/ LeaveProxy(t)
           \/ JoinProxy(t) \/ SetDomain(t)
    PROVE  Stage(t)'
  <1> DEFINE Fine(f) == /\ f.name \in NetNames \cup {NetNone} /\ f.udp \in Nat \cup {NetNone}
                        /\ f.domain \in RowDomains
  <1>1. \A f : Fine(f) => \A kind, i : i \in LiveServers /\ UpdateServer(t, kind, f, i) => Stage(t)'
    BY UpdateServerSerial
  <1>2. NetNone \in RowDomains
    BY Domains
  <1>3. CASE RenameServer(t)
    <2>1. PICK i \in LiveServers, n \in NetNames :
            UpdateServer(t, "rename", [NoField EXCEPT !.name = n], i)
      BY <1>3 DEF RenameServer
    <2>2. Fine([NoField EXCEPT !.name = n])
      BY <1>2 DEF NoField
    <2> HIDE DEF Fine
    <2> QED
      BY <1>1, <2>1, <2>2
  <1>4. CASE SetLines(t)
    <2>1. PICK i \in LiveServers, l \in {"empty", "set"} :
            UpdateServer(t, "lines", [NoField EXCEPT !.lines = l], i)
      BY <1>4 DEF SetLines
    <2>2. Fine([NoField EXCEPT !.lines = l])
      BY <1>2 DEF NoField
    <2> HIDE DEF Fine
    <2> QED
      BY <1>1, <2>1, <2>2
  <1>5. CASE SetServerUdp(t)
    <2>1. PICK i \in LiveServers, h \in NetPorts \cup {0} :
            UpdateServer(t, "udp", [NoField EXCEPT !.udp = h], i)
      BY <1>5 DEF SetServerUdp
    <2>2. h \in Nat
      <3>1. NetPorts \subseteq 1 .. 9
        BY NetAssumption
      <3> HIDE DEF Fine
      <3> QED
        BY <3>1
    <2>3. Fine([NoField EXCEPT !.udp = h])
      BY <1>2, <2>2 DEF NoField
    <2> HIDE DEF Fine
    <2> QED
      BY <1>1, <2>1, <2>3
  <1>6. CASE LeaveProxy(t) \/ JoinProxy(t)
    <2>1. PICK i \in LiveServers : \E k, x : UpdateServer(t, k, [NoField EXCEPT !.proxy = x], i)
      BY <1>6 DEF LeaveProxy, JoinProxy
    <2>2. PICK k, x : UpdateServer(t, k, [NoField EXCEPT !.proxy = x], i)
      BY <2>1
    <2>3. Fine([NoField EXCEPT !.proxy = x])
      BY <1>2 DEF NoField
    <2> HIDE DEF Fine
    <2> QED
      BY <1>1, <2>2, <2>3
  <1>7. CASE SetDomain(t)
    <2>1. PICK i \in LiveServers, d \in NetDomains \cup {""} :
            UpdateServer(t, "domain", [NoField EXCEPT !.domain = d], i)
      BY <1>7, Zenon DEF SetDomain
    <2>2. d \in RowDomains
      BY Domains, Zenon
    <2>3. Fine([NoField EXCEPT !.domain = d])
      <3>1. /\ [NoField EXCEPT !.domain = d].name = NetNone
            /\ [NoField EXCEPT !.domain = d].udp = NetNone
            /\ [NoField EXCEPT !.domain = d].domain = d
        BY DEF NoField
      <3> QED
        BY <2>2, <3>1
    <2> HIDE DEF Fine
    <2> QED
      BY <1>1, <2>1, <2>3
  <1> QED
    BY <1>3, <1>4, <1>5, <1>6, <1>7

LEMMA CreateProxySerial ==
    ASSUME NetIInv, Housed, NEW t \in NetThreads, CreateProxy(t)
    PROVE  Stage(t)'
  <1>1. PICK n \in NetNames, h \in NetPorts :
          /\ ~ProxyNamed(n) /\ ~ServerNamed(n)
          /\ Begin(t, "createProxy", <<[do |-> "insertProxy", name |-> n, port |-> h]>>)
    BY DEF CreateProxy
  <1> DEFINE s == [do |-> "insertProxy", name |-> n, port |-> h]
  <1>2. UNCHANGED <<servers, proxies, dirs>> /\ StepsOK
    BY DEF CreateProxy, rows, NetIInv
  <1>3. todo'[t] = <<s>>
    BY <1>1, <1>2, Requested
  <1>4. n \notin ServerNames \cup ProxyNames /\ h \in Nat
    BY <1>1, NetAssumption DEF ServerNamed, ProxyNamed, ServerNames, ProxyNames
  <1>5. ServerNames' = ServerNames /\ ProxyNames' = ProxyNames /\ Housed'
    BY <1>2, SameServers, SameProxies, SameDirectories DEF Housed
  <1>6. At(t, "insertProxy")' /\ Now(t)' = s /\ Tail(todo'[t]) = <<>>
    BY <1>3 DEF At, Now
  <1>7. InsertingProxy(t)'
    BY <1>4, <1>5, <1>6 DEF InsertingProxy
  <1> QED
    BY <1>7 DEF Stage

LEMMA DeleteProxySerial ==
    ASSUME NetIInv, Housed, NEW t \in NetThreads, DeleteProxy(t)
    PROVE  Stage(t)'
  <1>1. PICK p \in LiveProxies :
          Begin(t, "deleteProxy",
            <<[do |-> "kill", name |-> proxies[p].name],
              [do |-> "rmdir", name |-> proxies[p].name],
              [do |-> "unassign", id |-> p],
              [do |-> "deleteProxy", id |-> p]>>)
    BY DEF DeleteProxy
  <1>2. UNCHANGED <<servers, proxies, dirs>> /\ StepsOK
    BY DEF DeleteProxy, rows, NetIInv
  <1>3. todo'[t] = <<[do |-> "kill", name |-> proxies[p].name],
              [do |-> "rmdir", name |-> proxies[p].name],
              [do |-> "unassign", id |-> p],
              [do |-> "deleteProxy", id |-> p]>>
    BY <1>1, <1>2, Requested
  <1>4. Housed' /\ p \in LiveProxies' /\ proxies'[p].name = proxies[p].name
    BY <1>2, SameServers, SameProxies, SameDirectories DEF Housed
  <1>5. DeletingProxy(t)'
    BY <1>3, <1>4 DEF DeletingProxy
  <1> QED
    BY <1>5 DEF Stage

LEMMA RenameProxySerial ==
    ASSUME NetIInv, RowsTyped, Housed, NEW t \in NetThreads, RenameProxy(t)
    PROVE  Stage(t)' /\ strayed' = (strayed \/ strayed')
  <1>1. PICK p \in LiveProxies, n \in NetNames :
          /\ ~\E q \in LiveProxies \ {p} : proxies[q].name = n
          /\ ~ServerNamed(n)
          /\ MoveDir(proxies[p].name, n)
          /\ Begin(t, "renameProxy", <<[do |-> "proxyRow", id |-> p, name |-> n]>>)
          /\ strayed' = (strayed \/ (proxies[p].name # n /\ proxies[p].name \in up))
    BY DEF RenameProxy
  <1> DEFINE old == proxies[p].name
             s == [do |-> "proxyRow", id |-> p, name |-> n]
  <1>2. UNCHANGED <<servers, proxies, up>> /\ StepsOK /\ DOMAIN dirs = NetNames
    BY DEF RenameProxy, rows, NetIInv, RestOK
  <1>3. todo'[t] = <<s>>
    BY <1>1, <1>2, Requested
  <1>4. old \in NetNames
    BY DEF RowsTyped, ProxyRows
  <1>5. /\ Directories' \subseteq ServerNames \cup ProxyNames \cup {n}
        /\ old # n => old \notin Directories'
    BY <1>1, <1>2, <1>4, MovedTo
  <1>6. n # old => n \notin ServerNames \cup ProxyNames
    BY <1>1 DEF ServerNamed, ServerNames, ProxyNames
  <1>7. /\ ServerNames' = ServerNames /\ ProxyNames' = ProxyNames
        /\ p \in LiveProxies' /\ proxies'[p].name = old /\ up' = up
    BY <1>2, SameServers, SameProxies
  <1>8. At(t, "proxyRow")' /\ Now(t)' = s /\ Tail(todo'[t]) = <<>>
    BY <1>3 DEF At, Now
  <1>9. n = old \/ strayed' \/ old \notin up'
    BY <1>1, <1>7
  <1>10. RenamingProxy(t)'
    BY <1>5, <1>6, <1>7, <1>8, <1>9 DEF RenamingProxy
  <1>11. strayed' = (strayed \/ strayed')
    BY <1>1
  <1> QED
    BY <1>10, <1>11 DEF Stage

LEMMA SwitchSerial ==
    ASSUME NetIInv, Housed, NEW t \in NetThreads, StartProxy(t) \/ StopProxy(t) \/ RestartProxy(t)
    PROVE  Stage(t)'
  <1>1. PICK p \in LiveProxies :
          \/ Begin(t, "run", <<[do |-> "start", name |-> proxies[p].name], Mark(p, TRUE)>>)
          \/ Begin(t, "run", <<[do |-> "stop", name |-> proxies[p].name], Mark(p, FALSE)>>)
          \/ Begin(t, "run", <<[do |-> "stop", name |-> proxies[p].name], Mark(p, FALSE),
                               [do |-> "start", name |-> proxies[p].name], Mark(p, TRUE)>>)
    BY DEF StartProxy, StopProxy, RestartProxy
  <1>2. UNCHANGED <<servers, proxies, dirs>> /\ StepsOK
    BY DEF StartProxy, StopProxy, RestartProxy, rows, NetIInv
  <1>3. todo'[t] \in {<<[do |-> "start", name |-> proxies[p].name], Mark(p, TRUE)>>,
                      <<[do |-> "stop", name |-> proxies[p].name], Mark(p, FALSE)>>,
                      <<[do |-> "stop", name |-> proxies[p].name], Mark(p, FALSE),
                        [do |-> "start", name |-> proxies[p].name], Mark(p, TRUE)>>}
    BY <1>1, <1>2, Requested
  <1>4. Housed' /\ p \in LiveProxies' /\ proxies'[p].name = proxies[p].name
    BY <1>2, SameServers, SameProxies, SameDirectories DEF Housed
  <1>5. Switching(t)'
    BY <1>3, <1>4 DEF Switching, Mark
  <1> QED
    BY <1>5 DEF Stage

(* Requests that only change files or a UDP port. *)
LEMMA CalmRequest ==
    ASSUME NetIInv, Housed, NEW t \in NetThreads,
           \/ SetProxyUdp(t) \/ UploadServerIcon(t) \/ DeleteServerIcon(t)
           \/ UploadProxyIcon(t) \/ DeleteProxyIcon(t)
    PROVE  Stage(t)'
  <1>1. UNCHANGED <<servers, proxies>> /\ StepsOK /\ DOMAIN dirs = NetNames /\ NetNone \notin NetNames
    BY NetAssumption
       DEF SetProxyUdp, UploadServerIcon, DeleteServerIcon, ServerIcon, UploadProxyIcon,
       DeleteProxyIcon, rows, NetIInv, RestOK
  <1>2. ServerNames' = ServerNames /\ ProxyNames' = ProxyNames
    BY <1>1, SameServers, SameProxies
  <1>3. CASE SetProxyUdp(t)
    <2>1. PICK p \in LiveProxies, h \in NetPorts \cup {0} :
            Begin(t, "udp", <<[do |-> "udp", server |-> 0, proxy |-> p, port |-> h]>>)
      BY <1>3 DEF SetProxyUdp
    <2> DEFINE s == [do |-> "udp", server |-> 0, proxy |-> p, port |-> h]
    <2>2. h \in Nat
      <3>1. NetPorts \subseteq 1 .. 9
        BY NetAssumption
      <3> HIDE DEF s
      <3> QED
        BY <3>1
    <2>3. PlainStep(s, ServerNames', ProxyNames')
      BY <2>2 DEF PlainStep, Turning
    <2>4. todo'[t] = <<s>>
      BY <1>1, <2>1, Requested
    <2> HIDE DEF s
    <2>5. Plain(todo'[t], ServerNames', ProxyNames')
      BY <2>3, <2>4, PlainSteps
    <2>6. Housed'
      BY <1>2, <1>3, SameDirectories DEF SetProxyUdp, Housed
    <2> QED
      BY <2>5, <2>6, NowPlain
  <1>4. ASSUME NEW kind, NEW own, ServerIcon(t, kind, own) PROVE Stage(t)'
    <2>1. PICK i \in LiveServers :
            /\ Begin(t, kind, <<>>)
            /\ \A x \in NetNames :
                 x # servers[i].name /\ x # ProxyName(servers[i].proxy) => dirs'[x] = dirs[x]
      BY <1>4 DEF ServerIcon
    <2>2. todo'[t] = <<>>
      BY <1>1, <2>1, Requested
    <2>3. servers[i].name \in ServerNames /\ ProxyName(servers[i].proxy) \in ProxyNames \cup {NetNone}
      BY ProxyNameIs DEF ServerNames
    <2>4. Housed'
      BY <1>1, <1>2, <2>1, <2>3 DEF Housed, Directories
    <2> QED
      BY <2>2, <2>4, NowDone
  <1>5. CASE UploadProxyIcon(t) \/ DeleteProxyIcon(t)
    <2>1. PICK p \in LiveProxies :
            /\ Begin(t, "icons", <<[do |-> "refresh", id |-> p, name |-> proxies[p].name]>>)
            /\ \A x \in NetNames : x # proxies[p].name => dirs'[x] = dirs[x]
      BY <1>1, <1>5 DEF UploadProxyIcon, DeleteProxyIcon
    <2> DEFINE s == [do |-> "refresh", id |-> p, name |-> proxies[p].name]
    <2>2. PlainStep(s, ServerNames', ProxyNames')
      BY DEF PlainStep, Turning
    <2>3. todo'[t] = <<s>>
      BY <1>1, <2>1, Requested
    <2> HIDE DEF s
    <2>4. Plain(todo'[t], ServerNames', ProxyNames')
      BY <2>2, <2>3, PlainSteps
    <2>5. proxies[p].name \in ProxyNames
      BY DEF ProxyNames
    <2>6. Housed'
      BY <1>1, <1>2, <2>1, <2>5 DEF Housed, Directories
    <2> QED
      BY <2>4, <2>6, NowPlain
  <1> QED
    BY <1>3, <1>4, <1>5 DEF UploadServerIcon, DeleteServerIcon


(* Every request. *)
LEMMA RequestSerial ==
    ASSUME NetIInv, RowsTyped, RowsApart, RunsTold, NEW t \in NetThreads, Stage(t), NetRequest(t)
    PROVE  RowsTyped' /\ RowsApart' /\ RunsTold' /\ Stage(t)' /\ UNCHANGED <<news, users>>
  <1>1. StepsOK /\ \E kind, q : Begin(t, kind, q)
    BY RequestBegins DEF NetIInv
  <1>2. todo[t] = <<>> /\ UNCHANGED users
    BY <1>1, Requested
  <1>3. Housed
    BY <1>2, StageSettles
  <1>4. UNCHANGED <<servers, proxies, up, news>>
    BY RequestBegins
  <1>5. Stage(t)'
    BY <1>3, CreateServerSerial, DeleteServerSerial, UpdatesSerial, CreateProxySerial,
       DeleteProxySerial, RenameProxySerial, SwitchSerial, CalmRequest DEF NetRequest
  <1>6. strayed' = strayed \/ RenameProxy(t)
    BY Zenon DEF NetRequest, CreateServer, DeleteServer, RenameServer, SetLines, SetServerUdp,
       LeaveProxy, JoinProxy, SetDomain, UpdateServer, CreateProxy, DeleteProxy,
       SetProxyUdp, UploadServerIcon, DeleteServerIcon, ServerIcon, UploadProxyIcon,
       DeleteProxyIcon, StartProxy, StopProxy, RestartProxy, containers
  <1>7. strayed => strayed'
    BY <1>3, <1>6, RenameProxySerial
  <1>8. RowsTyped' /\ RowsApart' /\ RunsTold'
    BY <1>4, <1>7, SameServers, SameProxies DEF RowsTyped, RowsApart, RunsTold
  <1> QED
    BY <1>2, <1>4, <1>5, <1>8

(* Containers that die, and events. *)
LEMMA StageStays ==
    ASSUME NEW t, Stage(t), UNCHANGED <<servers, dirs, todo, strayed>>, up' \subseteq up,
           LiveProxies' = LiveProxies, \A p \in LiveProxies : proxies'[p].name = proxies[p].name
    PROVE  Stage(t)'
  <1>1. /\ LiveServers' = LiveServers /\ ServerNames' = ServerNames /\ ProxyNames' = ProxyNames
        /\ Directories' = Directories /\ todo' = todo
        /\ Housed' = Housed /\ \A n : Stopped(n) => n \notin up' \/ strayed'
    BY SameServers, ProxyNamesStay, SameDirectories DEF Housed, Stopped
  <1>2. Calm(t) => Calm(t)'
    BY <1>1 DEF Calm
  <1>3. Inserting(t) => Inserting(t)'
    BY <1>1 DEF Inserting, At, Now
  <1>4. InsertingProxy(t) => InsertingProxy(t)'
    BY <1>1 DEF InsertingProxy, At, Now
  <1>5. Renaming(t) => Renaming(t)'
    BY <1>1 DEF Renaming, At, Now
  <1>6. RenamingProxy(t) => RenamingProxy(t)'
    BY <1>1 DEF RenamingProxy, At, Now
  <1>7. Removing(t) => Removing(t)'
    BY <1>1 DEF Removing, At, Now
  <1>8. Deleting(t) => Deleting(t)'
    BY <1>1 DEF Deleting, At, Now
  <1>9. DeletingProxy(t) => DeletingProxy(t)'
    BY <1>1 DEF DeletingProxy, Stopped
  <1>10. Switching(t) => Switching(t)'
    BY <1>1 DEF Switching, Stopped, Mark
  <1> QED
    BY <1>2, <1>3, <1>4, <1>5, <1>6, <1>7, <1>8, <1>9, <1>10 DEF Stage

LEMMA DiesSerial ==
    ASSUME NetIInv, RowsTyped, RowsApart, RunsTold, news \in Seq([name : NetNames, run : BOOLEAN]),
           ProxyDies
    PROVE  /\ RowsTyped' /\ RowsApart' /\ RunsTold'
           /\ news' \in Seq([name : NetNames, run : BOOLEAN])
           /\ UNCHANGED <<todo, users>> /\ \A t : Stage(t) => Stage(t)'
  <1>1. PICK n \in up : up' = up \ {n} /\ news' = Event(n, FALSE)
    BY DEF ProxyDies
  <1>2. UNCHANGED <<servers, proxies, dirs, todo, strayed, users>>
    BY DEF ProxyDies, rows
  <1>3. RowsTyped' /\ RowsApart'
    BY <1>2, SameServers, SameProxies DEF RowsTyped, RowsApart
  <1>4. news' \in Seq([name : NetNames, run : BOOLEAN])
    <2>1. [name |-> n, run |-> FALSE] \in [name : NetNames, run : BOOLEAN]
      BY DEF NetIInv, RestOK
    <2> QED
      BY <1>1, <2>1, EventMore DEF Event
  <1>5. RunsTold'
    <2>1. Sequence(news)
      BY DEF Sequence
    <2> QED
      BY <1>1, <1>2, <2>1, RunsLess
  <1>6. \A t : Stage(t) => Stage(t)'
    BY <1>1, <1>2, SameProxies, StageStays
  <1> QED
    BY <1>2, <1>3, <1>4, <1>5, <1>6

LEMMA EventSerial ==
    ASSUME NetIInv, RowsTyped, RowsApart, RunsTold, news \in Seq([name : NetNames, run : BOOLEAN]),
           ProxyEvent
    PROVE  /\ RowsTyped' /\ RowsApart' /\ RunsTold'
           /\ news' \in Seq([name : NetNames, run : BOOLEAN])
           /\ UNCHANGED <<todo, users>> /\ \A t : Stage(t) => Stage(t)'
  <1>1. UNCHANGED <<servers, dirs, todo, strayed, users, up>> /\ news # <<>> /\ news' = Tail(news)
    BY DEF ProxyEvent
  <1>2. Head(news).run \in BOOLEAN /\ news' \in Seq([name : NetNames, run : BOOLEAN])
    <2>1. Head(news) \in [name : NetNames, run : BOOLEAN] /\ Tail(news) \in Seq([name : NetNames, run : BOOLEAN])
      BY <1>1, EventMore
    <2> QED
      BY <1>1, <2>1
  <1>3. Sequence(news) /\ Sequence(proxies)
    BY Threads DEF Sequence
  <1>4. /\ RunsTold' /\ RowsTyped' /\ RowsApart' /\ LiveProxies' = LiveProxies
        /\ \A p \in LiveProxies : proxies'[p].name = proxies[p].name
    BY <1>2, <1>3, RunsEvent
  <1>5. \A t : Stage(t) => Stage(t)'
    BY <1>1, <1>4, StageStays
  <1> QED
    BY <1>1, <1>2, <1>4, <1>5


LEMMA NetInitSerial == NetInit => NetSerial
  <1> SUFFICES ASSUME NetInit, Serial
               PROVE  /\ news \in Seq([name : NetNames, run : BOOLEAN])
                      /\ \A t \in NetThreads \ users.threads : todo[t] = <<>>
                      /\ RowsTyped /\ RowsApart /\ RunsTold
                      /\ \A t \in users.threads : Stage(t)
    BY DEF NetSerial
  <1>1. PICK pn \in NetNames, sn \in NetNames, h \in NetPorts, limbo \in users.limbo :
          /\ pn # sn
          /\ servers = <<[name |-> sn, proxy |-> 1, port |-> BasePort(1) + 1,
                          udp |-> 0, domain |-> NetNone, lines |-> "null",
                          limbo |-> limbo]>>
          /\ proxies = <<[name |-> pn, port |-> h, udp |-> 0, run |-> FALSE]>>
          /\ \A n \in NetNames : n # sn /\ n # pn => dirs[n] = NetNone
    BY DEF NetInit
  <1>2. /\ up = {} /\ news = <<>> /\ \A t \in NetThreads : todo[t] = <<>>
        /\ users \in NetUsers
    BY DEF NetInit
  <1> DEFINE s == [name |-> sn, proxy |-> 1, port |-> BasePort(1) + 1,
                   udp |-> 0, domain |-> NetNone, lines |-> "null", limbo |-> limbo]
             p == [name |-> pn, port |-> h, udp |-> 0, run |-> FALSE]
  <1>3. NetNone \in RowDomains /\ h \in Nat /\ limbo \in BOOLEAN
    <2>1. NetPorts \subseteq 1 .. 9 /\ h \in NetPorts
      BY <1>1, NetAssumption
    <2>2. NetNone \in RowDomains
      BY Domains
    <2> HIDE DEF s, p
    <2>3. h \in Nat
      BY <2>1
    <2>4. limbo \in BOOLEAN
      BY <1>1, <1>2, NetAssumption
    <2> QED
      BY <2>2, <2>3, <2>4
  <1>4. /\ s \in ServerRows /\ s.name = sn /\ s.udp = 0 /\ s.port \in Nat
        /\ p \in ProxyRows /\ p.name = pn
    BY <1>3 DEF ServerRows, ProxyRows, BasePort
  <1>5. servers = <<s>> /\ proxies = <<p>>
    BY <1>1
  <1> HIDE DEF s, p
  <1>6. s # NetNone /\ p # NetNone
    BY <1>4, NetRowAssumption
  <1>7. /\ LiveServers = {1} /\ LiveProxies = {1} /\ servers[1] = s /\ proxies[1] = p
    <2>1. DOMAIN servers = {1} /\ DOMAIN proxies = {1} /\ servers[1] = s /\ proxies[1] = p
      BY <1>5
    <2> QED
      BY <1>6, <2>1 DEF LiveServers, LiveProxies
  <1>8. ServerNames = {sn} /\ ProxyNames = {pn}
    BY <1>4, <1>7 DEF ServerNames, ProxyNames
  <1>9. RowsTyped
    BY <1>4, <1>7 DEF RowsTyped
  <1>10. RowsApart
    BY <1>1, <1>4, <1>7, <1>8 DEF RowsApart
  <1>11. RunsTold
    BY <1>2 DEF RunsTold
  <1>12. Housed
    BY <1>1, <1>8 DEF Housed, Directories
  <1>13. \A t \in users.threads : Stage(t)
    <2>1. users.threads \subseteq NetThreads
      BY <1>2, NetAssumption
    <2>2. \A t \in users.threads : Plain(todo[t], ServerNames, ProxyNames)
      BY <1>2, <2>1, PlainSteps
    <2> QED
      BY <1>12, <2>2 DEF Stage, Calm
  <1> QED
    BY <1>2, <1>9, <1>10, <1>11, <1>13

LEMMA NetSerialNext == NetIInv /\ NetSerial /\ [NetNext]_netVars => NetSerial'
  <1> DEFINE Events == Seq([name : NetNames, run : BOOLEAN])
  <1> SUFFICES ASSUME NetIInv, NetSerial, [NetNext]_netVars, Serial'
               PROVE  /\ news' \in Events
                      /\ \A t \in NetThreads \ users'.threads : todo'[t] = <<>>
                      /\ RowsTyped' /\ RowsApart' /\ RunsTold'
                      /\ \A t \in users'.threads : Stage(t)'
    BY DEF NetSerial
  <1>1. UNCHANGED users
    BY RequestBegins, StepUsers DEF NetNext, Reboot, ProxyDies, ProxyEvent, netVars
  <1>2. Serial
    BY <1>1 DEF Serial, OneThread
  <1>3. /\ news \in Events
        /\ \A t \in NetThreads \ users.threads : todo[t] = <<>>
        /\ RowsTyped /\ RowsApart /\ RunsTold
        /\ \A t \in users.threads : Stage(t)
    BY <1>2 DEF NetSerial
  <1> HIDE DEF Events
  <1>4. PICK o \in NetThreads : users.threads = {o}
    BY <1>2 DEF Serial, OneThread
  <1>5. ASSUME NEW t \in NetThreads, NetStep(t) PROVE NetSerial'
    <2>1. t = o
      <3>1. todo[t] # <<>>
        BY <1>5, StepBusy
      <3> QED
        BY <1>3, <1>4, <3>1
    <2>2. Stage(t)
      BY <1>3, <1>4, <2>1
    <2>3. RowsTyped' /\ RowsApart' /\ RunsTold' /\ Stage(t)' /\ news' \in Events
      BY <1>3, <1>5, <2>2, StepSerial DEF Events
    <2>4. \A u \in NetThreads \ {t} : todo'[u] = todo[u]
      BY <1>5, StepOthers DEF NetIInv
    <2> QED
      BY <1>1, <1>3, <1>4, <2>1, <2>3, <2>4 DEF NetSerial, Events
  <1>6. ASSUME NEW t \in NetThreads, NetRequest(t) PROVE NetSerial'
    <2>1. StepsOK /\ \E kind, q : Begin(t, kind, q)
      BY <1>6, RequestBegins DEF NetIInv
    <2>2. t = o /\ \A u \in NetThreads \ {t} : todo'[u] = todo[u]
      BY <1>4, <2>1, Requested
    <2>3. Stage(t)
      BY <1>3, <1>4, <2>2
    <2>4. RowsTyped' /\ RowsApart' /\ RunsTold' /\ Stage(t)' /\ UNCHANGED news
      BY <1>3, <1>6, <2>3, RequestSerial
    <2> QED
      BY <1>1, <1>3, <1>4, <2>2, <2>4 DEF NetSerial, Events
  <1>7. CASE ProxyDies \/ ProxyEvent
    <2>1. /\ RowsTyped' /\ RowsApart' /\ RunsTold' /\ news' \in Events
          /\ UNCHANGED todo /\ \A t : Stage(t) => Stage(t)'
      BY <1>3, <1>7, DiesSerial, EventSerial DEF Events
    <2> QED
      BY <1>1, <1>3, <2>1
  <1>8. ~Reboot
    BY <1>2 DEF Reboot, Serial
  <1>9. CASE UNCHANGED netVars
    <2>1. UNCHANGED <<servers, proxies, dirs, up, news, todo, strayed>>
      BY <1>9 DEF netVars
    <2>2. RowsTyped' /\ RowsApart' /\ RunsTold'
      BY <1>3, <2>1, SameServers, SameProxies DEF RowsTyped, RowsApart, RunsTold
    <2>3. \A t : Stage(t) => Stage(t)'
      BY <2>1, SameProxies, StageStays
    <2> QED
      BY <1>1, <1>3, <2>1, <2>2, <2>3
  <1>10. NetSerial' => /\ news' \in Events
                       /\ \A t \in NetThreads \ users'.threads : todo'[t] = <<>>
                       /\ RowsTyped' /\ RowsApart' /\ RunsTold'
                       /\ \A t \in users'.threads : Stage(t)'
    BY DEF NetSerial, Events
  <1> QED
    BY <1>5, <1>6, <1>7, <1>8, <1>9, <1>10 DEF NetNext

LEMMA NetSerialInvariance == NetSpec => [](NetIInv /\ NetSerial)
  <1> QED
    BY NetInvariance, NetInitInv, NetInitSerial, NetSerialNext, PTL DEF NetSpec

(* With one request at a time, whatever steps fail half way and whatever     *)
(* containers die, no server shares its directory with a proxy, no directory *)
(* is left without a row, the members of a proxy have ports of their own and *)
(* no UDP port is given twice.                                               *)
THEOREM SerialOwnDirectoryHolds == NetSpec => []SerialOwnDirectory
  <1>1. ASSUME NetIInv, NetSerial, AtRest PROVE SerialOwnDirectory
    <2>1. PICK o \in NetThreads : users.threads = {o}
      BY <1>1 DEF AtRest, Serial, OneThread
    <2>2. RowsApart /\ Stage(o) /\ todo[o] = <<>>
      BY <1>1, <2>1 DEF NetSerial, AtRest, AllIdle, Idle
    <2>3. Directories \subseteq ServerNames \cup ProxyNames
      BY <2>2, StageSettles DEF Housed
    <2>4. \A i \in LiveServers : Behind(i) => servers[i].proxy # 0
      <3>1. 0 \notin LiveProxies
        BY <1>1, Threads, Sequences DEF LiveProxies
      <3> QED
        BY <3>1 DEF Behind
    <2> QED
      BY <2>2, <2>3, <2>4 DEF SerialOwnDirectory, RowsApart, ServerNames, ProxyNames, Directories
  <1>2. NetIInv /\ NetSerial => SerialOwnDirectory
    BY <1>1 DEF SerialOwnDirectory
  <1> QED
    BY <1>2, NetSerialInvariance, PTL

(* With one request at a time and every event handled, a proxy the manager  *)
(* calls stopped has no running container, and every container is a row's,  *)
(* unless a proxy was renamed while it ran.                                 *)
THEOREM ProxyStatusSettlesHolds == NetSpec => []ProxyStatusSettles
  <1>1. ASSUME NetIInv, NetSerial PROVE ProxyStatusSettles
    <2> SUFFICES ASSUME AtRest, news = <<>>, ~strayed
                 PROVE  /\ \A p \in LiveProxies : proxies[p].name \in up => proxies[p].run
                        /\ up \subseteq ProxyNames
      BY DEF ProxyStatusSettles, ProxyNames
    <2>1. RunsTold
      BY <1>1 DEF NetSerial, AtRest
    <2>2. \A k : k \notin DOMAIN news
      OBVIOUS
    <2>3. ASSUME NEW p \in LiveProxies, proxies[p].name \in up PROVE proxies[p].run
      <3>1. Told(news, proxies[p].name, proxies[p].run)
        BY <2>1, <2>3 DEF RunsTold
      <3>2. proxies[p].run = TRUE
        BY <2>2, <3>1 DEF Told
      <3> QED
        BY <3>2
    <2> QED
      BY <2>1, <2>3 DEF RunsTold
  <1> QED
    BY <1>1, NetSerialInvariance, PTL

-----------------------------------------------------------------------------
(* The files of the servers and proxies. *)

(* Steps that leave rows, ports, secrets and velocity.toml as they are, or  *)
(* put them right before anything else.                                     *)
HarmlessStep(s) ==
    /\ s.do \in {"motd", "forget", "unmotd", "moveMotd", "renameMotd", "lines", "refresh",
                 "leave", "domain", "udp", "start", "stop", "mark"}
    /\ s.do = "motd" => s.row.name \in NetNames
    /\ s.do \in {"forget", "domain"} => s.name \in NetNames
    /\ s.do \in {"unmotd", "moveMotd", "renameMotd", "lines"} => s.cur.name \in NetNames
    /\ s.do = "renameMotd" => s.fields.name \in NetNames

Harmless(q) == \E S : q \in Seq(S) /\ \A s \in S : HarmlessStep(s)

(* A server's own files are right in the directory of name n. *)
KeptAt(i, n) ==
    /\ dirs[n] # NetNone
    /\ Behind(i) =>
        /\ ~dirs[n].online
        /\ Follows(i) => dirs[n].secret = servers[i].proxy /\ dirs[n].port = servers[i].port

KeptBut(I) == \A i \in LiveServers \ I : KeptAt(i, servers[i].name)

(* A proxy's velocity.toml is right in the directory of name n. *)
SyncedAt(p, n) ==
    /\ dirs[n] # NetNone
    /\ "move" \notin users.ops => dirs[n].toml = VelocityOf(p)

SyncedBut(P) == \A p \in LiveProxies \ P : SyncedAt(p, proxies[p].name)

Homes == \A p \in LiveProxies : dirs[proxies[p].name] # NetNone

(* Nothing is wrong, ... *)
Resting(t) == Harmless(todo[t]) /\ KeptBut({}) /\ SyncedBut({})

(* ... one velocity.toml, ... *)
Syncing(t) ==
    LET s == Now(t)
        r == Tail(todo[t])
    IN  /\ KeptBut({}) /\ Homes
        /\ \/ At(t, "sync") /\ SyncedBut({s.proxy}) /\ Harmless(r)
           \/ /\ At(t, "renameMotd") /\ HarmlessStep(s)
              /\ r # <<>> /\ Head(r).do = "sync" /\ SyncedBut({Head(r).proxy})
              /\ Harmless(Tail(r))
           \/ /\ At(t, "toml") /\ Harmless(r)
              /\ \E p \in LiveProxies :
                    /\ s.name = proxies[p].name /\ s.config = VelocityOf(p)
                    /\ SyncedBut({p})

(* ... what a server is about to become a member of, ... *)
Mine(i, p) ==
    /\ Joins
    /\ "move" \notin users.ops /\ i \in LiveServers => servers[i].proxy \in {0, p}

Assigning(t) ==
    LET s == Now(t)
        r == Tail(todo[t])
    IN  /\ KeptBut({}) /\ SyncedBut({})
        /\ \/ At(t, "assign") /\ Mine(s.id, s.proxy) /\ Harmless(r)
           \/ /\ At(t, "moveMotd") /\ HarmlessStep(s)
              /\ r # <<>> /\ Head(r).do = "assign" /\ Mine(Head(r).id, Head(r).proxy)
              /\ Harmless(Tail(r))

Joining(t) ==
    LET s == Now(t)
    IN  /\ At(t, "joinFiles") /\ Harmless(Tail(todo[t])) /\ Homes /\ SyncedBut({s.proxy})
        /\ Joins
        /\ \E i \in LiveServers :
            /\ s.name = servers[i].name /\ s.port = servers[i].port
            /\ s.proxy = servers[i].proxy /\ s.limbo = servers[i].limbo
            /\ dirs[servers[i].name] # NetNone /\ KeptBut({i})

(* ... a server's update, ... *)
ChangeStep(s) ==
    /\ s.do = "change" /\ s.id \in LiveServers
    /\ s.cur.name \in NetNames /\ s.cur.proxy = servers[s.id].proxy
    /\ s.fields.name \in NetNames \cup {NetNone}
    /\ s.fields.name # NetNone => s.fields.proxy = NetNone /\ s.fields.domain = NetNone
    /\ s.fields.proxy \notin {NetNone, 0} => Mine(s.id, s.fields.proxy)

ChangingRow(t) ==
    LET s == Now(t)
        r == Tail(todo[t])
    IN  /\ At(t, "row") /\ r # <<>> /\ s.id \in LiveServers
        /\ KeptBut({s.id}) /\ KeptAt(s.id, s.new) /\ SyncedBut({})
        /\ \/ /\ Tail(r) = <<>> /\ ChangeStep(Head(r)) /\ Head(r).id = s.id
              /\ s.new # servers[s.id].name => Head(r).fields.name # NetNone
           \/ /\ Head(r).do = "udp" /\ s.new = servers[s.id].name
              /\ Tail(r) # <<>> /\ ChangeStep(Head(Tail(r))) /\ Tail(Tail(r)) = <<>>
              /\ Head(Tail(r)).fields.name = NetNone /\ Head(Tail(r)).id = s.id

Changing(t) ==
    LET s == Now(t)
        r == Tail(todo[t])
    IN  /\ KeptBut({}) /\ Homes
        /\ \/ /\ At(t, "udp") /\ SyncedBut({})
              /\ r # <<>> /\ ChangeStep(Head(r)) /\ Tail(r) = <<>>
              /\ Head(r).fields.name = NetNone
           \/ /\ At(t, "change") /\ ChangeStep(s) /\ r = <<>>
              /\ IF s.fields.name = NetNone THEN SyncedBut({}) ELSE SyncedBut({s.cur.proxy})

(* ... a server that is new, ... *)
Entering(t) ==
    /\ At(t, "insert") /\ Tail(todo[t]) = <<>> /\ KeptBut({}) /\ SyncedBut({})

Filling(t) ==
    LET s == Now(t)
        r == Tail(todo[t])
    IN  /\ At(t, "files") \/ At(t, "configure")
        /\ Homes /\ SyncedBut({s.row.proxy})
        /\ \E i \in LiveServers :
            /\ s.row = servers[i] /\ KeptBut({i})
            /\ \/ /\ At(t, "files")
                  /\ \/ s.row.proxy = 0 /\ r = <<>>
                     \/ /\ s.row.proxy # 0 /\ r # <<>> /\ Tail(r) = <<>>
                        /\ Head(r).do = "configure" /\ Head(r).row = s.row
               \/ /\ At(t, "configure") /\ r = <<>>
                  /\ dirs[s.row.name] # NetNone /\ ~dirs[s.row.name].online
                  /\ ~s.row.limbo => dirs[s.row.name].port = s.row.port

(* ... one that is leaving, ... *)
Owed(q, p) ==
    \/ p = 0 /\ q = <<>>
    \/ q # <<>> /\ Head(q).do = "sync" /\ Head(q).proxy = p /\ Harmless(Tail(q))

Going(t) ==
    LET s == Now(t)
        r == Tail(todo[t])
    IN  /\ SyncedBut({})
        /\ \/ /\ At(t, "rmdir") /\ KeptBut({}) /\ r # <<>> /\ Head(r).do = "deleteServer"
              /\ Head(r).id \in LiveServers /\ s.name = servers[Head(r).id].name
              /\ Owed(Tail(r), servers[Head(r).id].proxy)
           \/ /\ At(t, "deleteServer") /\ KeptBut({s.id}) /\ s.id \in LiveServers
              /\ Owed(r, servers[s.id].proxy)

(* ... or a proxy that is new, leaving or renamed. *)
Founding(t) ==
    LET s == Now(t)
    IN  /\ todo[t] # <<>> /\ Tail(todo[t]) = <<>> /\ KeptBut({})
        /\ \/ At(t, "insertProxy") /\ SyncedBut({})
           \/ /\ At(t, "proxyFiles") /\ SyncedBut({s.id})
              /\ s.id \in LiveProxies /\ s.name = proxies[s.id].name /\ Members(s.id) = {}
           \/ /\ At(t, "proxyRow") /\ SyncedBut({s.id})
              /\ s.id \in LiveProxies /\ SyncedAt(s.id, s.name)

Leaving(t) ==
    \E p \in LiveProxies :
        LET n == proxies[p].name
            kill == [do |-> "kill", name |-> n]
            rmdir == [do |-> "rmdir", name |-> n]
            unassign == [do |-> "unassign", id |-> p]
            delete == [do |-> "deleteProxy", id |-> p]
        IN  /\ KeptBut({}) /\ SyncedBut({p})
            /\ todo[t] \in {<<kill, rmdir, unassign, delete>>, <<rmdir, unassign, delete>>,
                            <<unassign, delete>>, <<delete>>}

FileStage(t) ==
    \/ Resting(t) \/ Syncing(t) \/ Assigning(t) \/ Joining(t) \/ ChangingRow(t) \/ Changing(t)
    \/ Entering(t) \/ Filling(t) \/ Going(t) \/ Founding(t) \/ Leaving(t)

NamesApart ==
    /\ \A i, j \in LiveServers : servers[i].name = servers[j].name => i = j
    /\ \A p, q \in LiveProxies : proxies[p].name = proxies[q].name => p = q

DirsTyped == \A n \in NetNames : dirs[n] = NetNone \/ dirs[n] \in DirRecords

FileSerial ==
    Serial /\ ~users.failing =>
        /\ DirsTyped /\ NamesApart
        /\ \A t \in users.threads : FileStage(t)

(* What a step may do to a directory without any harm. *)
SameCore(e, d) ==
    e.online = d.online /\ e.port = d.port /\ e.secret = d.secret /\ e.toml = d.toml

Fit(e, d) == e \in DirRecords /\ SameCore(e, d)

DirStays(n) == dirs[n] # NetNone => Fit(dirs'[n], dirs[n])

(* Nothing changes that a file tells of, nor the file. *)
Still ==
    /\ LiveServers' = LiveServers /\ LiveProxies' = LiveProxies /\ users' = users
    /\ \A j \in LiveServers :
        /\ servers'[j].name = servers[j].name /\ servers'[j].proxy = servers[j].proxy
        /\ servers'[j].port = servers[j].port /\ servers'[j].domain = servers[j].domain
        /\ servers'[j].limbo = servers[j].limbo
    /\ \A p \in LiveProxies : proxies'[p].name = proxies[p].name
    /\ \A n \in NetNames : DirStays(n)

(* Functions of some of the names. *)
LEMMA SomeFunctions ==
    ASSUME NEW S, NEW T, NEW f \in Some(S, T)
    PROVE  /\ DOMAIN f \subseteq S /\ \A x \in DOMAIN f : f[x] \in T
           /\ \A x \in S, v \in T : Put(f, x, v) \in Some(S, T)
           /\ \A X : X \subseteq DOMAIN f => Restrict(f, X) \in Some(S, T)
           /\ \A g : g = [x \in DOMAIN f |-> g[x]] /\ (\A x \in DOMAIN f : g[x] \in T) => g \in Some(S, T)
  <1>1. PICK D \in SUBSET S : f \in [D -> T]
    BY DEF Some
  <1>2. DOMAIN f = D
    BY <1>1
  <1>3. \A E \in SUBSET S : \A g : g \in [E -> T] => g \in Some(S, T)
    BY DEF Some
  <1>4. ASSUME NEW x \in S, NEW v \in T PROVE Put(f, x, v) \in Some(S, T)
    <2>1. Put(f, x, v) \in [D \cup {x} -> T]
      BY <1>1, <1>2, <1>4 DEF Put
    <2>2. D \cup {x} \in SUBSET S
      BY <1>4
    <2> QED
      BY <1>3, <2>1, <2>2
  <1>5. ASSUME NEW X, X \subseteq DOMAIN f PROVE Restrict(f, X) \in Some(S, T)
    <2>1. Restrict(f, X) \in [X -> T]
      BY <1>1, <1>2, <1>5 DEF Restrict
    <2>2. X \in SUBSET S
      BY <1>2, <1>5
    <2> QED
      BY <1>3, <2>1, <2>2
  <1>6. ASSUME NEW g, g = [x \in DOMAIN f |-> g[x]], \A x \in DOMAIN f : g[x] \in T
        PROVE  g \in Some(S, T)
    <2>1. g \in [D -> T]
      BY <1>2, <1>6
    <2> QED
      BY <1>3, <2>1
  <1> QED
    BY <1>1, <1>2, <1>4, <1>5, <1>6

LEMMA FitTwice ==
    ASSUME NEW d, NEW e, NEW f, Fit(e, d), Fit(f, e)
    PROVE  Fit(f, d)
  BY DEF Fit, SameCore

(* One field that no row is copied to. *)
LEMMA FieldFits ==
    ASSUME NEW d \in DirRecords
    PROVE  /\ Fit(d, d)
           /\ \A x \in Some(NetNames, DirIcons \cup {NetNone}) : Fit([d EXCEPT !.extra = x], d)
           /\ \A x \in SUBSET DirIcons : Fit([d EXCEPT !.icons = x], d)
           /\ \A x \in Some(NetDomains, NetNames) : Fit([d EXCEPT !.hosts = x], d)
           /\ \A x \in BOOLEAN : Fit([d EXCEPT !.icon = x], d)
           /\ d.extra \in Some(NetNames, DirIcons \cup {NetNone}) /\ d.icons \in SUBSET DirIcons
           /\ d.hosts \in Some(NetDomains, NetNames)
  <1> DEFINE X == Some(NetNames, DirIcons \cup {NetNone})
             H == Some(NetDomains, NetNames)
             I == SUBSET DirIcons
             V == VelocityFiles \cup {NetNone}
  <1>1. DirRecords = [online : BOOLEAN, port : Nat, secret : Nat, toml : V,
                      icon : BOOLEAN, extra : X, icons : I, hosts : H]
    BY DEF DirRecords
  <1> HIDE DEF X, H, I, V
  <1>2. Fit(d, d)
    BY DEF Fit, SameCore
  <1>3. ASSUME NEW x \in X PROVE Fit([d EXCEPT !.extra = x], d)
    BY <1>1 DEF Fit, SameCore
  <1>4. ASSUME NEW x \in I PROVE Fit([d EXCEPT !.icons = x], d)
    BY <1>1 DEF Fit, SameCore
  <1>5. ASSUME NEW x \in H PROVE Fit([d EXCEPT !.hosts = x], d)
    BY <1>1 DEF Fit, SameCore
  <1>6. ASSUME NEW x \in BOOLEAN PROVE Fit([d EXCEPT !.icon = x], d)
    BY <1>1 DEF Fit, SameCore
  <1>7. d.extra \in X /\ d.icons \in I /\ d.hosts \in H
    BY <1>1
  <1> QED
    BY <1>2, <1>3, <1>4, <1>5, <1>6, <1>7 DEF X, H, I

LEMMA IconTypes ==
    \A n \in NetNames : <<"server", n>> \in DirIcons /\ <<"proxy", n>> \in DirIcons
  BY DEF DirIcons

LEMMA MotdFits ==
    ASSUME NEW d \in DirRecords, NEW n \in NetNames
    PROVE  /\ \A pn \in NetNames : \A own : Fit(PutExtra(d, pn, n, own), d)
           /\ Fit(DropExtra(d, n), d)
           /\ \A x \in DirIcons : Fit(CopyIcon(d, x), d)
           /\ \A x : Fit(DropIcon(d, x), d)
           /\ \A domain : Fit(PutHost(d, domain, n), d)
  <1> DEFINE V == DirIcons \cup {NetNone}
  <1>0. d.extra \in Some(NetNames, V)
    BY FieldFits
  <1>1. ASSUME NEW pn \in NetNames, NEW own PROVE Fit(PutExtra(d, pn, n, own), d)
    <2>1. MotdIcon(d, pn, n, own) \in V
      BY IconTypes DEF MotdIcon
    <2> HIDE DEF V
    <2>2. Put(d.extra, n, MotdIcon(d, pn, n, own)) \in Some(NetNames, V)
      BY <1>0, <2>1, SomeFunctions
    <2> QED
      BY <2>2, FieldFits DEF PutExtra, V
  <1>2. Fit(DropExtra(d, n), d)
    <2> DEFINE X == DOMAIN d.extra \ {n}
    <2> HIDE DEF V
    <2>1. X \subseteq DOMAIN d.extra
      OBVIOUS
    <2> HIDE DEF X
    <2>2. Restrict(d.extra, X) \in Some(NetNames, V)
      BY <1>0, <2>1, SomeFunctions
    <2> USE DEF V, X
    <2> QED
      BY <2>2, FieldFits DEF DropExtra
  <1>3. ASSUME NEW x \in DirIcons PROVE Fit(CopyIcon(d, x), d)
    <2>1. d.icons \cup {x} \in SUBSET DirIcons
      BY FieldFits
    <2> QED
      BY <2>1, FieldFits DEF CopyIcon
  <1>4. ASSUME NEW x PROVE Fit(DropIcon(d, x), d)
    <2>1. d.icons \ {x} \in SUBSET DirIcons
      BY FieldFits
    <2> QED
      BY <2>1, FieldFits DEF DropIcon
  <1>5. ASSUME NEW domain PROVE Fit(PutHost(d, domain, n), d)
    <2>1. CASE domain \in NetDomains
      <3>1. Put(d.hosts, domain, n) \in Some(NetDomains, NetNames)
        BY <2>1, FieldFits, SomeFunctions
      <3> QED
        BY <2>1, <3>1, FieldFits DEF PutHost
    <2>2. CASE domain \notin NetDomains
      BY <2>2, FieldFits DEF PutHost
    <2> QED
      BY <2>1, <2>2
  <1> QED
    BY <1>1, <1>2, <1>3, <1>4, <1>5

LEMMA RenameFits ==
    ASSUME NEW d \in DirRecords, NEW n \in NetNames, NEW o \in NetNames, NEW pn \in NetNames,
           NEW domain, NEW own
    PROVE  Fit(RenameMotd(d, pn, o, n, domain, own), d)
  <1> DEFINE e == IF o \in DOMAIN d.extra THEN PutExtra(DropExtra(d, o), pn, n, own) ELSE d
             f == IF <<"server", o>> \in e.icons
                  THEN CopyIcon(DropIcon(e, <<"server", o>>), <<"server", n>>) ELSE e
  <1>1. Fit(e, d)
    <2>1. Fit(DropExtra(d, o), d)
      BY MotdFits
    <2>2. DropExtra(d, o) \in DirRecords
      BY <2>1 DEF Fit
    <2>3. Fit(PutExtra(DropExtra(d, o), pn, n, own), DropExtra(d, o))
      BY <2>2, MotdFits
    <2>4. Fit(PutExtra(DropExtra(d, o), pn, n, own), d)
      BY <2>1, <2>3, FitTwice
    <2> QED
      BY <2>4, FieldFits
  <1>2. e \in DirRecords
    BY <1>1 DEF Fit
  <1> HIDE DEF e
  <1>3. Fit(f, e)
    <2>1. Fit(DropIcon(e, <<"server", o>>), e)
      BY <1>2, MotdFits
    <2>2. DropIcon(e, <<"server", o>>) \in DirRecords
      BY <2>1 DEF Fit
    <2>3. Fit(CopyIcon(DropIcon(e, <<"server", o>>), <<"server", n>>), DropIcon(e, <<"server", o>>))
      BY <2>2, IconTypes, MotdFits
    <2>4. Fit(CopyIcon(DropIcon(e, <<"server", o>>), <<"server", n>>), e)
      BY <2>1, <2>3, FitTwice
    <2> QED
      BY <1>2, <2>4, FieldFits
  <1>4. f \in DirRecords
    BY <1>3 DEF Fit
  <1>5. RenameMotd(d, pn, o, n, domain, own) = PutHost(f, domain, n)
    BY DEF RenameMotd, e
  <1> HIDE DEF f
  <1>6. Fit(PutHost(f, domain, n), f)
    BY <1>4, MotdFits
  <1>7. Fit(f, d)
    BY <1>1, <1>3, FitTwice
  <1> QED
    BY <1>5, <1>6, <1>7, FitTwice

LEMMA RefreshFits ==
    ASSUME NEW d \in DirRecords, NEW pn \in NetNames, NEW ps
    PROVE  Fit(Refreshed(d, pn, ps), d)
  <1> DEFINE V == DirIcons \cup {NetNone}
             Has(x) == \E p \in ps : \E i \in Members(p) : servers[i].name = x
             g == [x \in DOMAIN d.extra |->
                     IF Has(x) THEN SyncExtra(d, pn, x, OwnIcon(x)).extra[x] ELSE d.extra[x]]
  <1>1. d.extra \in Some(NetNames, V)
    BY FieldFits
  <1> HIDE DEF V, Has
  <1>2. DOMAIN d.extra \subseteq NetNames /\ \A x \in DOMAIN d.extra : d.extra[x] \in V
    BY <1>1, SomeFunctions
  <1>3. ASSUME NEW x \in DOMAIN d.extra PROVE SyncExtra(d, pn, x, OwnIcon(x)).extra[x] \in V
    <2>1. x \in NetNames
      BY <1>2
    <2>2. PutExtra(d, pn, x, OwnIcon(x)) \in DirRecords
      BY <2>1, MotdFits DEF Fit
    <2>3. PutExtra(d, pn, x, OwnIcon(x)).extra \in Some(NetNames, V)
      BY <2>2, FieldFits DEF V
    <2>4. x \in DOMAIN PutExtra(d, pn, x, OwnIcon(x)).extra
      BY DEF PutExtra, Put, DirRecords
    <2>5. PutExtra(d, pn, x, OwnIcon(x)).extra[x] \in V
      BY <2>3, <2>4, SomeFunctions
    <2> QED
      BY <2>5 DEF SyncExtra
  <1>4. \A x \in DOMAIN d.extra : g[x] \in V
    BY <1>2, <1>3
  <1>5. g = [x \in DOMAIN d.extra |-> g[x]]
    OBVIOUS
  <1>6. Refreshed(d, pn, ps) = [d EXCEPT !.extra = g]
    BY DEF Refreshed, Has
  <1> HIDE DEF g
  <1>7. g \in Some(NetNames, V)
    BY <1>1, <1>4, <1>5, SomeFunctions
  <1> QED
    BY <1>6, <1>7, FieldFits DEF V

(* What is told of rows and files is still true where neither has changed.  *)
LEMMA ServersKeep ==
    ASSUME NEW I, NEW J, KeptBut(I), users' = users,
           \A j \in LiveServers' \ J :
               /\ j \in LiveServers \ I
               /\ servers'[j].name = servers[j].name /\ servers'[j].proxy = servers[j].proxy
               /\ servers'[j].port = servers[j].port /\ servers'[j].limbo = servers[j].limbo
               /\ servers[j].proxy \in LiveProxies' => servers[j].proxy \in LiveProxies
               /\ DirStays(servers[j].name)
    PROVE  KeptBut(J)'
  <1>1. ASSUME NEW j \in LiveServers' \ J
        PROVE  LET n == servers'[j].name
               IN  /\ dirs'[n] # NetNone
                   /\ servers'[j].proxy \in LiveProxies' =>
                        /\ ~dirs'[n].online
                        /\ Follows(j)' => /\ dirs'[n].secret = servers'[j].proxy
                                          /\ dirs'[n].port = servers'[j].port
    <2> DEFINE n == servers[j].name
    <2>1. KeptAt(j, n)
      BY <1>1 DEF KeptBut
    <2>2. dirs[n] # NetNone /\ Fit(dirs'[n], dirs[n])
      BY <1>1, <2>1 DEF KeptAt, DirStays
    <2>3. dirs'[n] # NetNone
      BY <2>2, NetDirAssumption DEF Fit
    <2>4. Follows(j)' => Follows(j)
      BY <1>1 DEF Follows, Joins
    <2> HIDE DEF Follows
    <2> QED
      BY <1>1, <2>1, <2>2, <2>3, <2>4 DEF KeptAt, Fit, SameCore, Behind
  <1> QED
    BY <1>1 DEF KeptBut, KeptAt, Behind

LEMMA HomesKeep ==
    ASSUME Homes,
           \A p \in LiveProxies' :
               /\ p \in LiveProxies /\ proxies'[p].name = proxies[p].name
               /\ DirStays(proxies[p].name)
    PROVE  Homes'
  <1>1. ASSUME NEW p \in LiveProxies' PROVE dirs'[proxies'[p].name] # NetNone
    <2>1. dirs[proxies[p].name] # NetNone
      BY <1>1 DEF Homes
    <2>2. Fit(dirs'[proxies[p].name], dirs[proxies[p].name])
      BY <1>1, <2>1 DEF DirStays
    <2> QED
      BY <1>1, <2>2, NetDirAssumption DEF Fit
  <1> QED
    BY <1>1 DEF Homes

LEMMA ProxiesKeep ==
    ASSUME NEW P, NEW Q, SyncedBut(P), users' = users,
           \A p \in LiveProxies' \ Q :
               /\ p \in LiveProxies \ P /\ proxies'[p].name = proxies[p].name
               /\ DirStays(proxies[p].name)
               /\ "move" \notin users.ops => VelocityOf(p)' = VelocityOf(p)
    PROVE  SyncedBut(Q)'
  <1>1. ASSUME NEW p \in LiveProxies' \ Q
        PROVE  /\ dirs'[proxies'[p].name] # NetNone
               /\ "move" \notin users.ops => dirs'[proxies'[p].name].toml = VelocityOf(p)'
    <2> DEFINE n == proxies[p].name
    <2>1. SyncedAt(p, n)
      BY <1>1 DEF SyncedBut
    <2>2. Fit(dirs'[n], dirs[n])
      BY <1>1, <2>1 DEF SyncedAt, DirStays
    <2> QED
      BY <1>1, <2>1, <2>2, NetDirAssumption DEF Fit, SameCore, SyncedAt
  <1> QED
    BY <1>1 DEF SyncedBut, SyncedAt

LEMMA VelocityStays ==
    ASSUME NEW p, Members(p)' = Members(p),
           \A j \in Members(p) :
               /\ servers'[j].name = servers[j].name /\ servers'[j].port = servers[j].port
               /\ servers'[j].domain = servers[j].domain
    PROVE  VelocityOf(p)' = VelocityOf(p)
  <1>1. MemberRows(p)' = MemberRows(p)
    BY DEF MemberRows
  <1> QED
    BY <1>1 DEF VelocityOf

LEMMA MembersStay ==
    ASSUME NEW p, \A j : (j \in LiveServers' /\ servers'[j].proxy = p) <=>
                         (j \in LiveServers /\ servers[j].proxy = p)
    PROVE  Members(p)' = Members(p)
  BY DEF Members

LEMMA NamesTyped ==
    ASSUME RowsTyped
    PROVE  /\ \A i \in LiveServers : servers[i].name \in NetNames /\ servers[i].proxy \in Nat
           /\ \A p \in LiveProxies : proxies[p].name \in NetNames
  BY DEF RowsTyped, ServerRows, ProxyRows

LEMMA StillKept ==
    ASSUME RowsTyped, Still
    PROVE  /\ \A I : KeptBut(I) => KeptBut(I)'
           /\ \A P : SyncedBut(P) => SyncedBut(P)'
           /\ Homes => Homes'
           /\ NamesApart => NamesApart'
           /\ \A p : Members(p)' = Members(p) /\ VelocityOf(p)' = VelocityOf(p)
           /\ \A i, p : Mine(i, p) => Mine(i, p)'
  <1>1. \A p : Members(p)' = Members(p)
    BY MembersStay DEF Still
  <1>2. \A p : VelocityOf(p)' = VelocityOf(p)
    <2>1. ASSUME NEW p PROVE VelocityOf(p)' = VelocityOf(p)
      <3>1. \A j \in Members(p) : j \in LiveServers
        BY DEF Members
      <3> QED
        BY <1>1, <3>1, VelocityStays DEF Still
    <2> QED
      BY <2>1
  <1>3. ASSUME NEW I, KeptBut(I) PROVE KeptBut(I)'
    BY <1>3, NamesTyped, ServersKeep DEF Still
  <1>4. ASSUME NEW P, SyncedBut(P) PROVE SyncedBut(P)'
    BY <1>2, <1>4, NamesTyped, ProxiesKeep DEF Still
  <1>5. ASSUME Homes PROVE Homes'
    BY <1>5, NamesTyped, HomesKeep DEF Still
  <1>6. ASSUME NamesApart PROVE NamesApart'
    BY <1>6 DEF NamesApart, Still
  <1>7. ASSUME NEW i, NEW p, Mine(i, p) PROVE Mine(i, p)'
    BY <1>7 DEF Mine, Still, Joins
  <1> QED
    BY <1>1, <1>2, <1>3, <1>4, <1>5, <1>6, <1>7

(* Steps that are left. *)
LEMMA HarmlessSteps ==
    /\ Harmless(<<>>)
    /\ \A x : HarmlessStep(x) => Harmless(<<x>>)
    /\ \A x, y : HarmlessStep(x) /\ HarmlessStep(y) => Harmless(<<x, y>>)
    /\ \A q, r : Harmless(q) /\ Harmless(r) => Harmless(q \o r)
    /\ \A q : Harmless(q) /\ q # <<>> => HarmlessStep(Head(q)) /\ Harmless(Tail(q))
  <1>1. Harmless(<<>>)
    <2> DEFINE S == {}
    <2>1. <<>> \in Seq(S) /\ \A s \in S : HarmlessStep(s)
      OBVIOUS
    <2> HIDE DEF S
    <2> QED
      BY <2>1 DEF Harmless
  <1>2. ASSUME NEW x, HarmlessStep(x) PROVE Harmless(<<x>>)
    <2> DEFINE S == {x}
    <2>1. <<x>> \in Seq(S) /\ \A s \in S : HarmlessStep(s)
      BY <1>2
    <2> HIDE DEF S
    <2> QED
      BY <2>1 DEF Harmless
  <1>3. ASSUME NEW x, NEW y, HarmlessStep(x), HarmlessStep(y) PROVE Harmless(<<x, y>>)
    <2> DEFINE S == {x, y}
    <2>1. <<x, y>> \in Seq(S) /\ \A s \in S : HarmlessStep(s)
      BY <1>3
    <2> HIDE DEF S
    <2> QED
      BY <2>1 DEF Harmless
  <1>4. ASSUME NEW q, NEW r, Harmless(q), Harmless(r) PROVE Harmless(q \o r)
    <2>1. PICK S : q \in Seq(S) /\ \A s \in S : HarmlessStep(s)
      BY <1>4 DEF Harmless
    <2>2. PICK T : r \in Seq(T) /\ \A s \in T : HarmlessStep(s)
      BY <1>4 DEF Harmless
    <2>3. q \in Seq(S \cup T) /\ r \in Seq(S \cup T)
      BY <2>1, <2>2
    <2>4. q \o r \in Seq(S \cup T)
      BY <2>3
    <2> QED
      BY <2>1, <2>2, <2>4 DEF Harmless
  <1>5. ASSUME NEW q, Harmless(q), q # <<>> PROVE HarmlessStep(Head(q)) /\ Harmless(Tail(q))
    <2>1. PICK S : q \in Seq(S) /\ \A s \in S : HarmlessStep(s)
      BY <1>5 DEF Harmless
    <2>2. Head(q) \in S /\ Tail(q) \in Seq(S)
      BY <1>5, <2>1
    <2> QED
      BY <2>1, <2>2 DEF Harmless
  <1> QED
    BY <1>1, <1>2, <1>3, <1>4, <1>5

LEMMA HarmlessAfter ==
    ASSUME NEW s, NEW r, Harmless(r)
    PROVE  <<s>> \o r # <<>> /\ Head(<<s>> \o r) = s /\ Tail(<<s>> \o r) = r
  <1>1. PICK S : r \in Seq(S)
    BY DEF Harmless
  <1> QED
    BY <1>1

LEMMA EmptyAround ==
    ASSUME NEW q, Harmless(q)
    PROVE  <<>> \o q = q /\ q \o <<>> = q
  <1>1. PICK S : q \in Seq(S)
    BY DEF Harmless
  <1> QED
    BY <1>1

(* The head of what is left tells the stage. *)
LEMMA FileStageIs ==
    ASSUME NEW t, FileStage(t), todo[t] # <<>>
    PROVE  LET do == Head(todo[t]).do IN
           /\ do = "sync" => Syncing(t)
           /\ do = "toml" => Syncing(t)
           /\ do = "renameMotd" => Syncing(t) \/ Resting(t)
           /\ do = "assign" => Assigning(t)
           /\ do = "moveMotd" => Assigning(t) \/ Resting(t)
           /\ do = "joinFiles" => Joining(t)
           /\ do = "row" => ChangingRow(t)
           /\ do = "change" => Changing(t)
           /\ do = "udp" => Changing(t) \/ Resting(t)
           /\ do = "insert" => Entering(t)
           /\ do \in {"files", "configure"} => Filling(t)
           /\ do = "rmdir" => Going(t) \/ Leaving(t)
           /\ do = "deleteServer" => Going(t)
           /\ do \in {"insertProxy", "proxyFiles", "proxyRow"} => Founding(t)
           /\ do \in {"kill", "unassign", "deleteProxy"} => Leaving(t)
           /\ do \in {"motd", "forget", "unmotd", "lines", "refresh", "leave", "domain",
                      "start", "stop", "mark"} => Resting(t)
  <1> DEFINE do == Head(todo[t]).do
  <1>1. Resting(t) => do \in {"motd", "forget", "unmotd", "moveMotd", "renameMotd", "lines",
            "refresh", "leave", "domain", "udp", "start", "stop", "mark"}
    BY HarmlessSteps DEF Resting, HarmlessStep
  <1>2. Leaving(t) => do \in {"kill", "rmdir", "unassign", "deleteProxy"}
    BY TuplesOff DEF Leaving
  <1>3. /\ Syncing(t) => do \in {"sync", "renameMotd", "toml"}
        /\ Assigning(t) => do \in {"assign", "moveMotd"}
        /\ Joining(t) => do = "joinFiles"
        /\ ChangingRow(t) => do = "row"
        /\ Changing(t) => do \in {"udp", "change"}
        /\ Entering(t) => do = "insert"
        /\ Filling(t) => do \in {"files", "configure"}
        /\ Going(t) => do \in {"rmdir", "deleteServer"}
        /\ Founding(t) => do \in {"insertProxy", "proxyFiles", "proxyRow"}
    BY DEF Syncing, Assigning, Joining, ChangingRow, Changing, Entering, Filling, Going,
       Founding, At
  <1> HIDE DEF do
  <1>4. /\ do = "sync" => Syncing(t)
        /\ do = "toml" => Syncing(t)
        /\ do = "renameMotd" => Syncing(t) \/ Resting(t)
        /\ do = "assign" => Assigning(t)
        /\ do = "moveMotd" => Assigning(t) \/ Resting(t)
        /\ do = "joinFiles" => Joining(t)
        /\ do = "row" => ChangingRow(t)
        /\ do = "change" => Changing(t)
        /\ do = "udp" => Changing(t) \/ Resting(t)
        /\ do = "insert" => Entering(t)
        /\ do \in {"files", "configure"} => Filling(t)
    BY <1>1, <1>2, <1>3 DEF FileStage
  <1>5. /\ do = "rmdir" => Going(t) \/ Leaving(t)
        /\ do = "deleteServer" => Going(t)
        /\ do \in {"insertProxy", "proxyFiles", "proxyRow"} => Founding(t)
        /\ do \in {"kill", "unassign", "deleteProxy"} => Leaving(t)
        /\ do \in {"motd", "forget", "unmotd", "lines", "refresh", "leave", "domain",
                   "start", "stop", "mark"} => Resting(t)
    BY <1>1, <1>2, <1>3 DEF FileStage
  <1> QED
    BY <1>4, <1>5 DEF do

LEMMA FileStageSettles ==
    ASSUME NEW t, FileStage(t), todo[t] = <<>>
    PROVE  Resting(t)
  <1>1. ~Leaving(t)
    BY DEF Leaving
  <1> QED
    BY <1>1 DEF FileStage, Syncing, Assigning, Joining, ChangingRow, Changing, Entering, Filling,
       Going, Founding, At

(* What becomes of one directory. *)
Written(n) == DirStays(n) /\ (dirs'[n] = NetNone \/ dirs'[n] \in DirRecords)

LEMMA NewDirTyped == NewDir \in DirRecords
  <1> DEFINE V == DirIcons \cup {NetNone}
  <1>1. NoFiles \in [{} -> V] /\ NoFiles \in [{} -> NetNames]
    BY DEF NoFiles
  <1> HIDE DEF V
  <1>2. NoFiles \in Some(NetNames, V) /\ NoFiles \in Some(NetDomains, NetNames)
    BY <1>1 DEF Some
  <1> DEFINE X == Some(NetNames, V)
             H == Some(NetDomains, NetNames)
             I == SUBSET DirIcons
             T == VelocityFiles \cup {NetNone}
  <1>3. DirRecords = [online : BOOLEAN, port : Nat, secret : Nat, toml : T,
                      icon : BOOLEAN, extra : X, icons : I, hosts : H]
    BY DEF DirRecords, V
  <1>4. NoFiles \in X /\ NoFiles \in H /\ {} \in I /\ NetNone \in T
    BY <1>2
  <1> HIDE DEF X, H, I, T
  <1> QED
    BY <1>3, <1>4 DEF NewDir

LEMMA MadeTyped ==
    ASSUME NEW d, d = NetNone \/ d \in DirRecords
    PROVE  Made(d) \in DirRecords /\ (d # NetNone => Made(d) = d)
  BY NewDirTyped DEF Made

LEMMA WrittenAs ==
    ASSUME NEW n, dirs[n] = NetNone \/ dirs[n] \in DirRecords,
           \/ Fit(dirs'[n], Made(dirs[n]))
           \/ dirs'[n] = dirs[n]
           \/ (dirs[n] # NetNone /\ Fit(dirs'[n], dirs[n]))
    PROVE  Written(n)
  <1>1. dirs[n] # NetNone => Made(dirs[n]) = dirs[n]
    BY MadeTyped
  <1>2. dirs[n] # NetNone => Fit(dirs[n], dirs[n])
    BY FieldFits
  <1> QED
    BY <1>1, <1>2 DEF Written, DirStays, Fit

LEMMA CreateMotdWrites ==
    ASSUME DirsTyped, DOMAIN dirs = NetNames, NEW t, CreateMotd(t), HarmlessStep(Now(t)),
           NEW n \in NetNames
    PROVE  Written(n)
  <1> DEFINE row == Now(t).row
             pn == Now(t).at
             own == OwnIcon(row.name)
             put(d) == PutExtra(Made(d), pn, row.name, own)
             extra(d) == IF row.lines # "set" THEN d
                         ELSE IF own THEN CopyIcon(put(d), <<"server", row.name>>) ELSE put(d)
             host(d) == IF row.domain \in NetDomains
                        THEN PutHost(Made(d), row.domain, row.name) ELSE d
             e == extra(dirs[n])
  <1>1. row.name \in NetNames
    BY DEF CreateMotd, At, HarmlessStep, Now
  <1>2. dirs[n] = NetNone \/ dirs[n] \in DirRecords
    BY DEF DirsTyped
  <1>3. dirs'[n] = IF n = pn THEN host(e) ELSE dirs[n]
    BY DEF CreateMotd
  <1>4. CASE n # pn
    BY <1>2, <1>3, <1>4, WrittenAs
  <1>5. CASE n = pn
    <2> DEFINE m == Made(dirs[n])
    <2>1. m \in DirRecords
      BY <1>2, MadeTyped
    <2>2. Fit(put(dirs[n]), m)
      BY <1>1, <1>5, <2>1, MotdFits
    <2>3. Fit(CopyIcon(put(dirs[n]), <<"server", row.name>>), m)
      <3>1. put(dirs[n]) \in DirRecords
        BY <2>2 DEF Fit
      <3> HIDE DEF put
      <3>2. Fit(CopyIcon(put(dirs[n]), <<"server", row.name>>), put(dirs[n]))
        BY <1>1, <3>1, IconTypes, MotdFits
      <3> QED
        BY <2>2, <3>2, FitTwice
    <2>4. e = dirs[n] \/ Fit(e, m)
      BY <2>2, <2>3
    <2>5. Made(e) \in DirRecords /\ Fit(Made(e), m)
      <3>1. CASE e = dirs[n]
        BY <2>1, <3>1, FieldFits
      <3>2. CASE Fit(e, m)
        <4>1. e \in DirRecords /\ e # NetNone
          BY <3>2, NetDirAssumption DEF Fit
        <4> HIDE DEF e
        <4> QED
          BY <3>2, <4>1, MadeTyped
      <3> QED
        BY <2>4, <3>1, <3>2
    <2> HIDE DEF e, m
    <2>6. Fit(PutHost(Made(e), row.domain, row.name), m)
      <3>1. Fit(PutHost(Made(e), row.domain, row.name), Made(e))
        BY <1>1, <2>5, MotdFits
      <3> QED
        BY <2>5, <3>1, FitTwice
    <2>7. host(e) = dirs[n] \/ Fit(host(e), m)
      BY <2>4, <2>6
    <2> HIDE DEF host
    <2> QED
      BY <1>2, <1>3, <1>5, <2>7, WrittenAs DEF m
  <1> QED
    BY <1>4, <1>5

LEMMA ForgetWrites ==
    ASSUME DirsTyped, NEW t, ForgetServer(t), HarmlessStep(Now(t)), NEW n \in NetNames
    PROVE  Written(n)
  <1> DEFINE x == Now(t).name
             pn == ProxyName(Now(t).proxy)
             d == dirs[n]
             e == DropExtra(d, x)
             f == DropIcon(e, <<"server", x>>)
  <1>1. x \in NetNames
    BY DEF ForgetServer, At, HarmlessStep, Now
  <1>2. dirs[n] = NetNone \/ dirs[n] \in DirRecords
    BY DEF DirsTyped
  <1>3. dirs'[n] = IF n = pn /\ dirs[n] # NetNone THEN f ELSE dirs[n]
    BY DEF ForgetServer
  <1>4. CASE dirs[n] # NetNone
    <2>1. Fit(e, d)
      BY <1>1, <1>2, <1>4, MotdFits
    <2>2. e \in DirRecords
      BY <2>1 DEF Fit
    <2> HIDE DEF e
    <2>3. Fit(f, e)
      BY <1>1, <2>2, MotdFits
    <2>4. Fit(f, d)
      BY <2>1, <2>3, FitTwice
    <2> HIDE DEF f
    <2> QED
      BY <1>2, <1>3, <1>4, <2>4, WrittenAs DEF d
  <1>5. CASE dirs[n] = NetNone
    BY <1>2, <1>3, <1>5, WrittenAs
  <1> QED
    BY <1>4, <1>5

LEMMA LeaveMotdWrites ==
    ASSUME DirsTyped, DOMAIN dirs = NetNames, NEW t, LeaveMotd(t), HarmlessStep(Now(t)),
           NEW n \in NetNames
    PROVE  Written(n)
  <1> DEFINE x == Now(t).cur.name
             d == dirs[n]
             e == DropExtra(d, x)
  <1>1. x \in NetNames
    BY DEF LeaveMotd, At, HarmlessStep, Now
  <1>2. dirs[n] = NetNone \/ dirs[n] \in DirRecords
    BY DEF DirsTyped
  <1>3. dirs'[n] = dirs[n] \/ (dirs[n] # NetNone /\ dirs'[n] = e)
    BY DEF LeaveMotd, Change
  <1>4. dirs[n] # NetNone => Fit(e, d)
    BY <1>1, <1>2, MotdFits
  <1> HIDE DEF e
  <1> QED
    BY <1>2, <1>3, <1>4, WrittenAs DEF d

LEMMA MoveMotdWrites ==
    ASSUME DirsTyped, DOMAIN dirs = NetNames, NEW t, MoveMotd(t), HarmlessStep(Now(t)),
           NEW n \in NetNames
    PROVE  Written(n)
  <1> DEFINE s == Now(t)
             x == s.cur.name
             own == OwnIcon(x)
             left(d) == DropIcon(DropExtra(d, x), <<"server", x>>)
             put(d) == PutExtra(Made(d), s.at, x, own)
             joined(d) == IF own THEN CopyIcon(put(d), <<"server", x>>) ELSE put(d)
             without == IF s.from = NetNone THEN dirs
                        ELSE [dirs EXCEPT ![s.from] = Change(@, left)]
             w == without[n]
  <1>1. x \in NetNames
    BY DEF MoveMotd, At, HarmlessStep, Now
  <1>2. dirs[n] = NetNone \/ dirs[n] \in DirRecords
    BY DEF DirsTyped
  <1>3. dirs[n] # NetNone => Fit(left(dirs[n]), dirs[n])
    <2> SUFFICES ASSUME dirs[n] # NetNone PROVE Fit(left(dirs[n]), dirs[n])
      OBVIOUS
    <2>1. Fit(DropExtra(dirs[n], x), dirs[n])
      BY <1>1, <1>2, MotdFits
    <2>2. DropExtra(dirs[n], x) \in DirRecords
      BY <2>1 DEF Fit
    <2>3. Fit(left(dirs[n]), DropExtra(dirs[n], x))
      BY <1>1, <2>2, MotdFits
    <2> QED
      BY <2>1, <2>3, FitTwice
  <1>4. /\ w = dirs[n] \/ (dirs[n] # NetNone /\ w = left(dirs[n]))
        /\ DOMAIN without = NetNames
    BY DEF Change
  <1>5. dirs' = [without EXCEPT ![s.at] = PutHost(joined(@), s.cur.domain, x)]
    BY Zenon DEF MoveMotd
  <1> HIDE DEF without
  <1>6. dirs'[n] = IF n = s.at THEN PutHost(joined(w), s.cur.domain, x) ELSE w
    BY <1>4, <1>5
  <1> HIDE DEF left
  <1>7. /\ w = NetNone \/ w \in DirRecords
        /\ Fit(Made(w), Made(dirs[n]))
        /\ w = dirs[n] \/ (dirs[n] # NetNone /\ Fit(w, dirs[n]))
    <2>1. CASE w = dirs[n]
      BY <1>2, <2>1, MadeTyped, FieldFits
    <2>2. CASE dirs[n] # NetNone /\ w = left(dirs[n])
      <3>1. Fit(w, dirs[n]) /\ w \in DirRecords
        BY <1>3, <2>2 DEF Fit
      <3>2. w # NetNone
        BY <3>1, NetDirAssumption
      <3>3. Made(w) = w /\ Made(dirs[n]) = dirs[n]
        BY <1>2, <2>2, <3>1, <3>2, MadeTyped
      <3> QED
        BY <2>2, <3>1, <3>3
    <2> QED
      BY <1>4, <2>1, <2>2
  <1> HIDE DEF w
  <1>8. CASE n # s.at
    BY <1>2, <1>6, <1>7, <1>8, WrittenAs
  <1>9. CASE n = s.at
    <2> DEFINE m == Made(w)
               j == joined(w)
    <2>1. m \in DirRecords
      BY <1>7, MadeTyped
    <2>2. Fit(put(w), m)
      BY <1>1, <1>9, <2>1, MotdFits
    <2>3. put(w) \in DirRecords
      BY <2>2 DEF Fit
    <2> HIDE DEF put, m
    <2>4. Fit(CopyIcon(put(w), <<"server", x>>), put(w))
      BY <1>1, <2>3, IconTypes, MotdFits
    <2>5. Fit(j, m)
      BY <2>2, <2>4, FitTwice
    <2>6. j \in DirRecords
      BY <2>5 DEF Fit
    <2> HIDE DEF j
    <2>7. Fit(PutHost(j, s.cur.domain, x), j)
      BY <1>1, <2>6, MotdFits
    <2>8. Fit(dirs'[n], m)
      BY <1>6, <1>9, <2>5, <2>7, FitTwice DEF j
    <2>9. Fit(dirs'[n], Made(dirs[n]))
      BY <1>7, <2>8, FitTwice DEF m
    <2> QED
      BY <1>2, <2>9, WrittenAs
  <1> QED
    BY <1>8, <1>9

LEMMA RenameMotdWrites ==
    ASSUME DirsTyped, DOMAIN dirs = NetNames, NEW t, RenameMotdFiles(t), HarmlessStep(Now(t)),
           NEW n \in NetNames
    PROVE  Written(n)
  <1> DEFINE s == Now(t)
             e == RenameMotd(dirs[n], s.at, s.cur.name, s.fields.name, s.cur.domain,
                             OwnIcon(s.cur.name))
  <1>1. s.cur.name \in NetNames /\ s.fields.name \in NetNames
    BY DEF RenameMotdFiles, At, HarmlessStep, Now
  <1>2. dirs[n] = NetNone \/ dirs[n] \in DirRecords
    BY DEF DirsTyped
  <1>3. dirs'[n] = dirs[n] \/ (n = s.at /\ dirs[n] # NetNone /\ dirs'[n] = e)
    BY DEF RenameMotdFiles, Change
  <1>4. n = s.at /\ dirs[n] # NetNone => Fit(e, dirs[n])
    BY <1>1, <1>2, RenameFits
  <1> HIDE DEF e
  <1> QED
    BY <1>2, <1>3, <1>4, WrittenAs

LEMMA LinesMotdWrites ==
    ASSUME DirsTyped, DOMAIN dirs = NetNames, NEW t, LinesMotd(t), HarmlessStep(Now(t)),
           NEW n \in NetNames
    PROVE  Written(n)
  <1> DEFINE s == Now(t)
             x == s.cur.name
             e == PutExtra(Made(dirs[n]), s.at, x, OwnIcon(x))
             f == DropExtra(dirs[n], x)
  <1>1. x \in NetNames
    BY DEF LinesMotd, At, HarmlessStep, Now
  <1>2. dirs[n] = NetNone \/ dirs[n] \in DirRecords
    BY DEF DirsTyped
  <1>3. \/ dirs'[n] = dirs[n]
        \/ n = s.at /\ dirs'[n] = e
        \/ dirs[n] # NetNone /\ dirs'[n] = f
    BY DEF LinesMotd, Change
  <1>4. n = s.at => Fit(e, Made(dirs[n]))
    <2>1. Made(dirs[n]) \in DirRecords
      BY <1>2, MadeTyped
    <2> QED
      BY <1>1, <2>1, MotdFits
  <1>5. dirs[n] # NetNone => Fit(f, dirs[n])
    BY <1>1, <1>2, MotdFits
  <1> HIDE DEF e, f
  <1> QED
    BY <1>2, <1>3, <1>4, <1>5, WrittenAs

LEMMA RefreshWrites ==
    ASSUME DirsTyped, DOMAIN dirs = NetNames, NEW t, RefreshIcons(t), NEW n \in NetNames
    PROVE  Written(n)
  <1> DEFINE s == Now(t)
             e == Refreshed(dirs[n], s.name, {s.id})
  <1>1. dirs[n] = NetNone \/ dirs[n] \in DirRecords
    BY DEF DirsTyped
  <1>2. dirs'[n] = dirs[n] \/ (n = s.name /\ dirs[n] # NetNone /\ dirs'[n] = e)
    BY DEF RefreshIcons
  <1>3. n = s.name /\ dirs[n] # NetNone => Fit(e, dirs[n])
    BY <1>1, RefreshFits
  <1> HIDE DEF e
  <1> QED
    BY <1>1, <1>2, <1>3, WrittenAs

(* The stage that begins, from the steps that are left. *)
LEMMA NowResting ==
    ASSUME NEW t, Harmless(todo'[t]), KeptBut({})', SyncedBut({})'
    PROVE  FileStage(t)'
  BY DEF FileStage, Resting

LEMMA NowSyncing ==
    ASSUME NEW t, NEW s, NEW r, NEW p, todo'[t] # <<>>, Head(todo'[t]) = s, Tail(todo'[t]) = r,
           KeptBut({})', Homes', SyncedBut({p})',
           \/ s.do = "sync" /\ s.proxy = p /\ Harmless(r)
           \/ /\ s.do = "renameMotd" /\ HarmlessStep(s) /\ r # <<>> /\ Head(r).do = "sync"
              /\ Head(r).proxy = p /\ Harmless(Tail(r))
           \/ /\ s.do = "toml" /\ Harmless(r) /\ p \in LiveProxies'
              /\ s.name = proxies'[p].name /\ s.config = VelocityOf(p)'
    PROVE  FileStage(t)'
  <1>1. CASE s.do = "sync" /\ s.proxy = p /\ Harmless(r)
    <2>1. Syncing(t)'
      BY <1>1 DEF Syncing, At, Now, SyncedBut, SyncedAt
    <2> QED
      BY <2>1 DEF FileStage
  <1>2. CASE /\ s.do = "renameMotd" /\ HarmlessStep(s) /\ r # <<>> /\ Head(r).do = "sync"
             /\ Head(r).proxy = p /\ Harmless(Tail(r))
    <2>1. Syncing(t)'
      BY <1>2 DEF Syncing, At, Now, SyncedBut, SyncedAt
    <2> QED
      BY <2>1 DEF FileStage
  <1>3. CASE /\ s.do = "toml" /\ Harmless(r) /\ p \in LiveProxies'
             /\ s.name = proxies'[p].name /\ s.config = VelocityOf(p)'
    <2>1. Syncing(t)'
      BY <1>3 DEF Syncing, At, Now, SyncedBut, SyncedAt
    <2> QED
      BY <2>1 DEF FileStage
  <1> QED
    BY <1>1, <1>2, <1>3

LEMMA NowAssigning ==
    ASSUME NEW t, NEW s, NEW r, NEW i, NEW p, todo'[t] # <<>>, Head(todo'[t]) = s,
           Tail(todo'[t]) = r, KeptBut({})', SyncedBut({})', Mine(i, p)',
           \/ s.do = "assign" /\ s.id = i /\ s.proxy = p /\ Harmless(r)
           \/ /\ s.do = "moveMotd" /\ HarmlessStep(s) /\ r # <<>> /\ Head(r).do = "assign"
              /\ Head(r).id = i /\ Head(r).proxy = p /\ Harmless(Tail(r))
    PROVE  FileStage(t)'
  <1>1. Assigning(t)'
    BY DEF Assigning, At, Now, Mine
  <1> QED
    BY <1>1 DEF FileStage

LEMMA NowJoining ==
    ASSUME NEW t, NEW s, NEW r, NEW i, NEW p, todo'[t] # <<>>, Head(todo'[t]) = s,
           Tail(todo'[t]) = r, Harmless(r), Homes', SyncedBut({p})', KeptBut({i})',
           s.do = "joinFiles", s.proxy = p, i \in LiveServers', s.name = servers'[i].name,
           s.port = servers'[i].port, s.limbo = servers'[i].limbo, p = servers'[i].proxy,
           dirs'[s.name] # NetNone, Joins'
    PROVE  FileStage(t)'
  <1>1. Joining(t)'
    BY DEF Joining, At, Now, SyncedBut, SyncedAt
  <1> QED
    BY <1>1 DEF FileStage

(* A step of an update, in the next state. *)
ChangeNext(s, i) ==
    /\ s.do = "change" /\ s.id = i /\ i \in LiveServers'
    /\ s.cur.name \in NetNames /\ s.cur.proxy = servers'[i].proxy
    /\ s.fields.name \in NetNames \cup {NetNone}
    /\ s.fields.name # NetNone => s.fields.proxy = NetNone /\ s.fields.domain = NetNone
    /\ s.fields.proxy \notin {NetNone, 0} =>
        Joins' /\ ("move" \notin users'.ops => servers'[i].proxy \in {0, s.fields.proxy})

LEMMA NowChangingRow ==
    ASSUME NEW t, NEW s, NEW r, NEW i, NEW n, todo'[t] # <<>>, Head(todo'[t]) = s,
           Tail(todo'[t]) = r, r # <<>>, s.do = "row", s.id = i, s.new = n,
           i \in LiveServers', SyncedBut({})', KeptBut({i})', KeptAt(i, n)',
           \/ /\ Tail(r) = <<>> /\ ChangeNext(Head(r), i)
              /\ n # servers'[i].name => Head(r).fields.name # NetNone
           \/ /\ Head(r).do = "udp" /\ n = servers'[i].name
              /\ Tail(r) # <<>> /\ ChangeNext(Head(Tail(r)), i) /\ Tail(Tail(r)) = <<>>
              /\ Head(Tail(r)).fields.name = NetNone
    PROVE  FileStage(t)'
  <1>1. KeptBut({s.id})' /\ KeptAt(s.id, s.new)'
    BY DEF KeptBut, KeptAt, Behind
  <1>2. CASE /\ Tail(r) = <<>> /\ ChangeNext(Head(r), i)
             /\ n # servers'[i].name => Head(r).fields.name # NetNone
    <2>1. ChangingRow(t)'
      BY <1>2, ZenonT(60) DEF ChangingRow, ChangeStep, ChangeNext, At, Now, Mine, KeptBut, KeptAt, Behind
    <2> QED
      BY <2>1 DEF FileStage
  <1>3. CASE /\ Head(r).do = "udp" /\ n = servers'[i].name
             /\ Tail(r) # <<>> /\ ChangeNext(Head(Tail(r)), i) /\ Tail(Tail(r)) = <<>>
             /\ Head(Tail(r)).fields.name = NetNone
    <2>1. ChangingRow(t)'
      BY <1>3 DEF ChangingRow, ChangeStep, ChangeNext, At, Now, Mine, KeptBut, KeptAt, Behind
    <2> QED
      BY <2>1 DEF FileStage
  <1> QED
    BY <1>2, <1>3

LEMMA NowChanging ==
    ASSUME NEW t, NEW s, NEW r, NEW i, NEW p, todo'[t] # <<>>, Head(todo'[t]) = s,
           Tail(todo'[t]) = r, KeptBut({})', Homes',
           \/ /\ s.do = "udp" /\ SyncedBut({})' /\ r # <<>> /\ ChangeNext(Head(r), i)
              /\ Tail(r) = <<>> /\ Head(r).fields.name = NetNone
           \/ /\ s.do = "change" /\ ChangeNext(s, i) /\ r = <<>>
              /\ s.fields.name = NetNone => SyncedBut({})'
              /\ s.cur.proxy = p
              /\ s.fields.name # NetNone => SyncedBut({p})'
    PROVE  FileStage(t)'
  <1>1. CASE /\ s.do = "udp" /\ SyncedBut({})' /\ r # <<>> /\ ChangeNext(Head(r), i)
             /\ Tail(r) = <<>> /\ Head(r).fields.name = NetNone
    <2>1. Changing(t)'
      BY <1>1 DEF Changing, ChangeStep, ChangeNext, At, Now, Mine
    <2> QED
      BY <2>1 DEF FileStage
  <1>2. CASE /\ s.do = "change" /\ ChangeNext(s, i) /\ r = <<>>
             /\ s.fields.name = NetNone => SyncedBut({})'
             /\ s.cur.proxy = p
             /\ s.fields.name # NetNone => SyncedBut({p})'
    <2>1. Changing(t)'
      BY <1>2 DEF Changing, ChangeStep, ChangeNext, At, Now, Mine, SyncedBut, SyncedAt
    <2> QED
      BY <2>1 DEF FileStage
  <1> QED
    BY <1>1, <1>2

LEMMA NowEntering ==
    ASSUME NEW t, todo'[t] # <<>>, Head(todo'[t]).do = "insert", Tail(todo'[t]) = <<>>,
           KeptBut({})', SyncedBut({})'
    PROVE  FileStage(t)'
  BY DEF FileStage, Entering, At

LEMMA NowFilling ==
    ASSUME NEW t, NEW s, NEW r, NEW i, NEW p, todo'[t] # <<>>, Head(todo'[t]) = s,
           Tail(todo'[t]) = r, Homes', SyncedBut({p})', KeptBut({i})', i \in LiveServers',
           s.row = servers'[i], s.row.proxy = p,
           \/ s.do = "files" /\ p = 0 /\ r = <<>>
           \/ /\ s.do = "files" /\ p # 0 /\ r # <<>> /\ Head(r).do = "configure"
              /\ Head(r).row = s.row /\ Tail(r) = <<>>
           \/ /\ s.do = "configure" /\ r = <<>> /\ dirs'[s.row.name] # NetNone
              /\ ~dirs'[s.row.name].online
              /\ ~s.row.limbo => dirs'[s.row.name].port = s.row.port
    PROVE  FileStage(t)'
  <1>1. Filling(t)'
    BY DEF Filling, At, Now, SyncedBut, SyncedAt
  <1> QED
    BY <1>1 DEF FileStage

LEMMA NowGoing ==
    ASSUME NEW t, NEW s, NEW r, NEW i, todo'[t] # <<>>, Head(todo'[t]) = s,
           Tail(todo'[t]) = r, SyncedBut({})', i \in LiveServers',
           \/ /\ s.do = "rmdir" /\ KeptBut({})' /\ r # <<>> /\ Head(r).do = "deleteServer"
              /\ Head(r).id = i /\ s.name = servers'[i].name /\ Owed(Tail(r), servers'[i].proxy)
           \/ /\ s.do = "deleteServer" /\ KeptBut({i})' /\ s.id = i
              /\ Owed(r, servers'[i].proxy)
    PROVE  FileStage(t)'
  <1>1. CASE /\ s.do = "rmdir" /\ KeptBut({})' /\ r # <<>> /\ Head(r).do = "deleteServer"
             /\ Head(r).id = i /\ s.name = servers'[i].name /\ Owed(Tail(r), servers'[i].proxy)
    <2>1. Going(t)'
      BY <1>1 DEF Going, At, Now
    <2> QED
      BY <2>1 DEF FileStage
  <1>2. CASE /\ s.do = "deleteServer" /\ KeptBut({i})' /\ s.id = i
             /\ Owed(r, servers'[i].proxy)
    <2>1. Going(t)'
      BY <1>2 DEF Going, At, Now, KeptBut, KeptAt, Behind
    <2> QED
      BY <2>1 DEF FileStage
  <1> QED
    BY <1>1, <1>2

LEMMA NowFounding ==
    ASSUME NEW t, NEW s, NEW p, todo'[t] # <<>>, Head(todo'[t]) = s, Tail(todo'[t]) = <<>>,
           KeptBut({})',
           \/ s.do = "insertProxy" /\ SyncedBut({})'
           \/ /\ s.do = "proxyFiles" /\ SyncedBut({p})' /\ s.id = p
              /\ p \in LiveProxies' /\ s.name = proxies'[p].name /\ Members(p)' = {}
           \/ /\ s.do = "proxyRow" /\ SyncedBut({p})' /\ s.id = p /\ p \in LiveProxies'
              /\ dirs'[s.name] # NetNone
              /\ "move" \notin users'.ops => dirs'[s.name].toml = VelocityOf(p)'
    PROVE  FileStage(t)'
  <1>1. CASE s.do = "insertProxy" /\ SyncedBut({})'
    <2>1. Founding(t)'
      BY <1>1 DEF Founding, At, Now
    <2> QED
      BY <2>1 DEF FileStage
  <1>2. CASE /\ s.do = "proxyFiles" /\ SyncedBut({p})' /\ s.id = p
             /\ p \in LiveProxies' /\ s.name = proxies'[p].name /\ Members(p)' = {}
    <2>1. Founding(t)'
      BY <1>2 DEF Founding, At, Now, SyncedBut, SyncedAt, Members
    <2> QED
      BY <2>1 DEF FileStage
  <1>3. CASE /\ s.do = "proxyRow" /\ SyncedBut({p})' /\ s.id = p /\ p \in LiveProxies'
             /\ dirs'[s.name] # NetNone
             /\ "move" \notin users'.ops => dirs'[s.name].toml = VelocityOf(p)'
    <2>1. Founding(t)'
      BY <1>3 DEF Founding, At, Now, SyncedBut, SyncedAt
    <2> QED
      BY <2>1 DEF FileStage
  <1> QED
    BY <1>1, <1>2, <1>3

LEMMA NowLeaving ==
    ASSUME NEW t, NEW p, NEW n, p \in LiveProxies', proxies'[p].name = n,
           KeptBut({})', SyncedBut({p})',
           todo'[t] \in {<<[do |-> "kill", name |-> n], [do |-> "rmdir", name |-> n],
                           [do |-> "unassign", id |-> p], [do |-> "deleteProxy", id |-> p]>>,
                         <<[do |-> "rmdir", name |-> n],
                           [do |-> "unassign", id |-> p], [do |-> "deleteProxy", id |-> p]>>,
                         <<[do |-> "unassign", id |-> p], [do |-> "deleteProxy", id |-> p]>>,
                         <<[do |-> "deleteProxy", id |-> p]>>}
    PROVE  FileStage(t)'
  <1>1. Leaving(t)'
    BY DEF Leaving
  <1> QED
    BY <1>1 DEF FileStage

(* Directories no step has come near. *)
LEMMA DirsWritten ==
    ASSUME DirsTyped, \A n \in NetNames : Written(n)
    PROVE  DirsTyped' /\ \A n \in NetNames : DirStays(n)
  BY DEF DirsTyped, Written

LEMMA DirsSame ==
    ASSUME DirsTyped, UNCHANGED dirs
    PROVE  DirsTyped' /\ \A n \in NetNames : DirStays(n)
  <1>1. \A n \in NetNames : dirs[n] # NetNone => Fit(dirs[n], dirs[n])
    BY FieldFits DEF DirsTyped
  <1>2. \A n : dirs'[n] = dirs[n]
    OBVIOUS
  <1> QED
    BY <1>1, <1>2 DEF DirsTyped, DirStays

LEMMA StillRows ==
    ASSUME UNCHANGED <<servers, proxies, users>>, \A n \in NetNames : DirStays(n)
    PROVE  Still
  BY SameServers, SameProxies DEF Still

LEMMA OnlyDirs ==
    ASSUME DirsTyped, UNCHANGED <<servers, proxies, users>>, \A n \in NetNames : Written(n)
    PROVE  Still /\ DirsTyped'
  BY DirsWritten, StillRows

(* Steps that leave rows and files as they are. *)
LEMMA MarkStill ==
    ASSUME NetIInv, RowsTyped, DirsTyped, NEW t \in NetThreads, Stage(t), MarkProxy(t)
    PROVE  Still /\ DirsTyped'
  <1>1. /\ UNCHANGED <<servers, dirs, users>> /\ todo[t] # <<>> /\ Head(todo[t]).do = "mark"
        /\ Now(t) = Head(todo[t]) /\ Sequence(proxies)
    BY Threads DEF MarkProxy, At, Now, Continue
  <1>2. Switching(t)
    BY <1>1, StageIs
  <1>3. PICK p \in LiveProxies : \E n, start, stop, on, off :
          /\ SwitchParts(p, n, start, stop, on, off) /\ Housed
          /\ Switched(todo[t], n, start, stop, on, off)
    BY <1>2, SwitchIs
  <1>4. PICK n, start, stop, on, off :
          /\ SwitchParts(p, n, start, stop, on, off) /\ Housed
          /\ Switched(todo[t], n, start, stop, on, off)
    BY <1>3
  <1> DEFINE run == Now(t).run
             z == [proxies[p] EXCEPT !.run = run]
  <1>5. run \in BOOLEAN /\ Now(t).id = p
    BY <1>1, <1>4 DEF Switched, SwitchParts
  <1>6. proxies' = [proxies EXCEPT ![p] = z]
    BY <1>5 DEF MarkProxy
  <1> HIDE DEF run
  <1>7. z \in ProxyRows /\ z.name = proxies[p].name
    BY <1>5 DEF RowsTyped, ProxyRows
  <1> HIDE DEF z
  <1>8. z # NetNone
    BY <1>7, NetRowAssumption
  <1>9. /\ LiveProxies' = LiveProxies /\ \A q \in LiveProxies : proxies'[q].name = proxies[q].name
    BY <1>1, <1>6, <1>7, <1>8, ProxySet, ZenonT(60)
  <1>10. DirsTyped' /\ \A m \in NetNames : DirStays(m)
    BY <1>1, DirsSame
  <1> QED
    BY <1>1, <1>9, <1>10, SameServers DEF Still

LEMMA UdpStill ==
    ASSUME NetIInv, RowsTyped, DirsTyped, NEW t \in NetThreads, Stage(t), SetUdp(t)
    PROVE  Still /\ DirsTyped' /\ (Continue(t) \/ Abort(t))
  <1> DEFINE h == Now(t).port
             k == Now(t).server
             q == Now(t).proxy
  <1>1. h \in Nat
    <2>1. At(t, "udp")
      BY DEF SetUdp
    <2>2. Calm(t)
      BY <2>1, StageIs DEF At, Turning
    <2>3. PlainStep(Head(todo[t]), ServerNames, ProxyNames)
      BY <2>1, <2>2, PlainSteps DEF Calm, At
    <2> QED
      BY <2>1, <2>3 DEF PlainStep, At, Now
  <1>2. Sequence(servers) /\ Sequence(proxies)
    BY Threads
  <1>3. UNCHANGED <<dirs, users>> /\ (Continue(t) \/ Abort(t))
    BY DEF SetUdp, Continue, Abort
  <1>4. DirsTyped' /\ \A m \in NetNames : DirStays(m)
    BY <1>3, DirsSame
  <1>5. CASE UNCHANGED <<servers, proxies>>
    BY <1>3, <1>4, <1>5, StillRows
  <1>6. CASE ~UNCHANGED <<servers, proxies>>
    <2>1. /\ servers' = IF k \in LiveServers THEN [servers EXCEPT ![k].udp = h] ELSE servers
          /\ proxies' = IF q \in LiveProxies THEN [proxies EXCEPT ![q].udp = h] ELSE proxies
      BY <1>6 DEF SetUdp, rows
    <2> HIDE DEF h, k, q
    <2> DEFINE z == [servers[k] EXCEPT !.udp = h]
    <2>2. /\ LiveServers' = LiveServers
          /\ \A i \in LiveServers :
                /\ servers'[i].name = servers[i].name /\ servers'[i].proxy = servers[i].proxy
                /\ servers'[i].port = servers[i].port /\ servers'[i].limbo = servers[i].limbo
      BY <1>1, <1>2, <2>1, ServerUdp
    <2>3. /\ LiveProxies' = LiveProxies
          /\ \A p \in LiveProxies : proxies'[p].name = proxies[p].name
      BY <1>1, <1>2, <2>1, ProxyUdp
    <2>4. \A i \in LiveServers : servers'[i].domain = servers[i].domain
      <3>1. CASE k \notin LiveServers
        BY <2>1, <3>1
      <3>2. CASE k \in LiveServers
        <4>1. z \in ServerRows /\ z.domain = servers[k].domain
          BY <1>1, <3>2 DEF RowsTyped, ServerRows
        <4>2. servers' = [servers EXCEPT ![k] = z]
          BY <2>1, <3>2
        <4> HIDE DEF z
        <4>3. servers'[k] = z /\ \A j \in LiveServers \ {k} : servers'[j] = servers[j]
          BY <1>2, <3>2, <4>2, ServerSet
        <4> QED
          BY <4>1, <4>3
      <3> QED
        BY <3>1, <3>2
    <2> QED
      BY <1>3, <1>4, <2>2, <2>3, <2>4 DEF Still
  <1> QED
    BY <1>3, <1>5, <1>6

(* Steps that only write what no row is copied to, or nothing. *)
Minor(t) ==
    \/ CreateMotd(t) \/ ForgetServer(t) \/ LeaveMotd(t) \/ MoveMotd(t) \/ RenameMotdFiles(t)
    \/ LinesMotd(t)

LEMMA StepStill ==
    ASSUME NetIInv, RowsTyped, DirsTyped, ~users.failing, NEW t \in NetThreads, Stage(t),
           \/ Minor(t) /\ HarmlessStep(Now(t))
           \/ RefreshIcons(t) \/ StartContainer(t) \/ StopContainer(t) \/ MarkProxy(t) \/ SetUdp(t)
    PROVE  Still /\ DirsTyped' /\ (Continue(t) \/ Abort(t)) /\ todo[t] # <<>>
  <1>1. DOMAIN dirs = NetNames
    BY DEF NetIInv, RestOK
  <1>2. todo[t] # <<>>
    BY DEF Minor, CreateMotd, ForgetServer, LeaveMotd, MoveMotd, RenameMotdFiles, LinesMotd,
       RefreshIcons, StartContainer, StopContainer, MarkProxy, SetUdp, At
  <1>3. CASE Minor(t) /\ HarmlessStep(Now(t))
    <2>1. UNCHANGED <<servers, proxies>> /\ Continue(t)
      BY <1>3 DEF Minor, CreateMotd, ForgetServer, LeaveMotd, MoveMotd, RenameMotdFiles, LinesMotd, rows
    <2>2. UNCHANGED users
      BY <2>1 DEF Continue
    <2>3. \A n \in NetNames : Written(n)
      BY <1>1, <1>3, CreateMotdWrites, ForgetWrites, LeaveMotdWrites, MoveMotdWrites,
         RenameMotdWrites, LinesMotdWrites DEF Minor
    <2> QED
      BY <1>2, <2>1, <2>2, <2>3, OnlyDirs
  <1>4. CASE RefreshIcons(t)
    <2>1. UNCHANGED <<servers, proxies, users>> /\ Continue(t)
      BY <1>4 DEF RefreshIcons, rows, Continue
    <2>2. \A n \in NetNames : Written(n)
      BY <1>1, <1>4, RefreshWrites
    <2> QED
      BY <1>2, <2>1, <2>2, OnlyDirs
  <1>5. CASE StartContainer(t) \/ StopContainer(t)
    <2>1. UNCHANGED <<servers, proxies, dirs, users>> /\ Continue(t)
      BY <1>5 DEF StartContainer, StopContainer, rows, Continue
    <2> QED
      BY <1>2, <2>1, DirsSame, StillRows
  <1>6. CASE MarkProxy(t)
    BY <1>2, <1>6, MarkStill DEF MarkProxy
  <1>7. CASE SetUdp(t)
    BY <1>2, <1>7, UdpStill
  <1> QED
    BY <1>3, <1>4, <1>5, <1>6, <1>7

LEMMA RestingGoesOn ==
    ASSUME RowsTyped, Still, NEW t \in DOMAIN todo, Resting(t), todo[t] # <<>>,
           Continue(t) \/ Abort(t)
    PROVE  FileStage(t)'
  <1>1. KeptBut({})' /\ SyncedBut({})'
    BY StillKept DEF Resting
  <1>2. todo'[t] = Tail(todo[t]) \/ todo'[t] = <<>>
    BY DEF Continue, Abort
  <1>3. Harmless(todo'[t])
    BY <1>2, HarmlessSteps DEF Resting
  <1> QED
    BY <1>1, <1>3, NowResting

(* What holds while a request of the only thread goes on. *)
FilesNow(t) ==
    /\ NetIInv /\ ~users.failing /\ RowsTyped /\ RowsApart /\ Stage(t)
    /\ DirsTyped /\ NamesApart /\ FileStage(t)

FilesNext(t) == DirsTyped' /\ NamesApart' /\ FileStage(t)'

LEMMA NamesAway ==
    ASSUME RowsApart
    PROVE  \A i \in LiveServers : \A p \in LiveProxies : servers[i].name # proxies[p].name
  <1>1. ServerNames \cap ProxyNames = {}
    BY DEF RowsApart
  <1> QED
    BY <1>1 DEF ServerNames, ProxyNames

LEMMA OneDir ==
    ASSUME DirsTyped, DOMAIN dirs = NetNames, NEW x, NEW e, e = NetNone \/ e \in DirRecords,
           dirs' = [dirs EXCEPT ![x] = e]
    PROVE  /\ DirsTyped'
           /\ x \in NetNames => dirs'[x] = e
           /\ \A n \in NetNames : n # x => dirs'[n] = dirs[n] /\ DirStays(n)
  <1>1. \A n \in NetNames : dirs[n] # NetNone => Fit(dirs[n], dirs[n])
    BY FieldFits DEF DirsTyped
  <1>2. \A n \in NetNames : dirs'[n] = IF n = x THEN e ELSE dirs[n]
    OBVIOUS
  <1> QED
    BY <1>1, <1>2 DEF DirsTyped, DirStays

(* What one more right file, or one fewer, makes of the others. *)
LEMMA OneMore ==
    /\ \A i : KeptBut({}) => KeptBut({i})
    /\ \A p : SyncedBut({}) => SyncedBut({p})
    /\ \A p : p \notin LiveProxies /\ SyncedBut({p}) => SyncedBut({})
    /\ SyncedBut({}) => Homes
    /\ \A p : SyncedBut({p}) /\ (p \in LiveProxies => dirs[proxies[p].name] # NetNone) => Homes
  BY DEF KeptBut, SyncedBut, SyncedAt, Homes

LEMMA OneMoreNext ==
    /\ \A i : (KeptBut({}) => KeptBut({i}))'
    /\ \A p : (SyncedBut({}) => SyncedBut({p}))'
    /\ \A p : (p \notin LiveProxies /\ SyncedBut({p}) => SyncedBut({}))'
    /\ (SyncedBut({}) => Homes)'
    /\ \A p : (SyncedBut({p}) /\ (p \in LiveProxies => dirs[proxies[p].name] # NetNone) => Homes)'
  BY DEF KeptBut, SyncedBut, SyncedAt, Homes

LEMMA AllKept ==
    ASSUME NEW i, KeptBut({i})',
           i \in LiveServers' =>
             /\ dirs'[servers'[i].name] # NetNone
             /\ servers'[i].proxy \in LiveProxies' =>
                  /\ ~dirs'[servers'[i].name].online
                  /\ Follows(i)' => /\ dirs'[servers'[i].name].secret = servers'[i].proxy
                                    /\ dirs'[servers'[i].name].port = servers'[i].port
    PROVE  KeptBut({})'
  BY DEF KeptBut, KeptAt, Behind

LEMMA AllSynced ==
    ASSUME NEW p, SyncedBut({p})',
           p \in LiveProxies' =>
             /\ dirs'[proxies'[p].name] # NetNone
             /\ "move" \notin users'.ops => dirs'[proxies'[p].name].toml = VelocityOf(p)'
    PROVE  SyncedBut({})'
  BY DEF SyncedBut, SyncedAt

(* Files change, rows do not. *)
LEMMA RowsSame ==
    ASSUME RowsTyped, UNCHANGED <<servers, proxies, users>>
    PROVE  /\ LiveServers' = LiveServers /\ LiveProxies' = LiveProxies
           /\ \A p : Members(p)' = Members(p) /\ VelocityOf(p)' = VelocityOf(p)
           /\ NamesApart => NamesApart'
           /\ \A I : KeptBut(I) /\ (\A i \in LiveServers \ I : DirStays(servers[i].name)) => KeptBut(I)'
           /\ \A P : SyncedBut(P) /\ (\A p \in LiveProxies \ P : DirStays(proxies[p].name))
                        => SyncedBut(P)'
           /\ Homes /\ (\A p \in LiveProxies : DirStays(proxies[p].name)) => Homes'
  <1>1. /\ LiveServers' = LiveServers /\ LiveProxies' = LiveProxies
        /\ \A i : servers'[i] = servers[i] /\ \A p : proxies'[p] = proxies[p]
    BY SameServers, SameProxies
  <1>2. \A p : Members(p)' = Members(p)
    BY <1>1 DEF Members
  <1>3. \A p : VelocityOf(p)' = VelocityOf(p)
    <2>1. ASSUME NEW p PROVE VelocityOf(p)' = VelocityOf(p)
      BY <1>1, <1>2, VelocityStays
    <2> QED
      BY <2>1
  <1>4. NamesApart => NamesApart'
    BY <1>1 DEF NamesApart
  <1>5. ASSUME NEW I, KeptBut(I), \A i \in LiveServers \ I : DirStays(servers[i].name)
        PROVE  KeptBut(I)'
    BY <1>1, <1>5, ServersKeep
  <1>6. ASSUME NEW P, SyncedBut(P), \A p \in LiveProxies \ P : DirStays(proxies[p].name)
        PROVE  SyncedBut(P)'
    BY <1>1, <1>3, <1>6, ProxiesKeep
  <1>7. ASSUME Homes, \A p \in LiveProxies : DirStays(proxies[p].name)
        PROVE  Homes'
    BY <1>1, <1>7, HomesKeep
  <1> QED
    BY <1>1, <1>2, <1>3, <1>4, <1>5, <1>6, <1>7

(* The row of one server changes, and perhaps its own files. *)
LEMMA OneRow ==
    ASSUME NetIInv, RowsTyped, RowsApart, NamesApart, NEW i \in LiveServers, NEW z \in ServerRows,
           servers' = [servers EXCEPT ![i] = z], UNCHANGED <<proxies, users>>,
           \A n \in NetNames : n # servers[i].name => DirStays(n)
    PROVE  /\ LiveServers' = LiveServers /\ LiveProxies' = LiveProxies /\ servers'[i] = z
           /\ \A j \in LiveServers \ {i} : servers'[j] = servers[j]
           /\ z.name = servers[i].name \/ z.name \notin ServerNames => NamesApart'
           /\ KeptBut({i}) => KeptBut({i})'
           /\ \A P : SyncedBut(P) /\ (\A q \in LiveProxies \ P :
                        "move" \notin users.ops => q \notin {servers[i].proxy, z.proxy})
                        => SyncedBut(P)'
           /\ Homes => Homes'
  <1>1. Sequence(servers) /\ z # NetNone
    BY Threads, NetRowAssumption
  <1>2. /\ LiveServers' = LiveServers /\ servers'[i] = z
        /\ \A j \in LiveServers \ {i} : servers'[j] = servers[j]
    BY <1>1, ServerSet
  <1>3. LiveProxies' = LiveProxies /\ \A p : proxies'[p] = proxies[p]
    BY SameProxies
  <1>4. /\ \A j \in LiveServers \ {i} : servers[j].name # servers[i].name /\ servers[j].name \in NetNames
        /\ \A p \in LiveProxies : proxies[p].name # servers[i].name /\ proxies[p].name \in NetNames
    BY NamesAway, NamesTyped DEF NamesApart
  <1>5. z.name = servers[i].name \/ z.name \notin ServerNames => NamesApart'
    <2> SUFFICES ASSUME z.name = servers[i].name \/ z.name \notin ServerNames PROVE NamesApart'
      OBVIOUS
    <2>1. \A j \in LiveServers \ {i} : servers[j].name # z.name
      BY <1>4 DEF ServerNames
    <2> QED
      BY <1>2, <1>3, <2>1 DEF NamesApart
  <1>6. KeptBut({i}) => KeptBut({i})'
    BY <1>2, <1>3, <1>4, ServersKeep
  <1>7. ASSUME NEW q, q # servers[i].proxy, q # z.proxy PROVE VelocityOf(q)' = VelocityOf(q)
    <2>1. Members(q)' = Members(q)
      BY <1>2, <1>7, MembersStay
    <2>2. \A j \in Members(q) : servers'[j] = servers[j]
      BY <1>2, <1>7 DEF Members
    <2> QED
      BY <2>1, <2>2, VelocityStays
  <1>8. ASSUME NEW P, SyncedBut(P),
               \A q \in LiveProxies \ P : "move" \notin users.ops => q \notin {servers[i].proxy, z.proxy}
        PROVE  SyncedBut(P)'
    <2>1. \A p \in LiveProxies' \ P :
            /\ p \in LiveProxies \ P /\ proxies'[p].name = proxies[p].name
            /\ DirStays(proxies[p].name)
            /\ "move" \notin users.ops => VelocityOf(p)' = VelocityOf(p)
      BY <1>3, <1>4, <1>7, <1>8
    <2> QED
      BY <1>8, <2>1, ProxiesKeep
  <1>9. Homes => Homes'
    BY <1>3, <1>4, HomesKeep
  <1> QED
    BY <1>2, <1>3, <1>5, <1>6, <1>8, <1>9

(* What velocity.toml should say is a file. *)
LEMMA VelocityTyped ==
    ASSUME NetIInv, RowsTyped, NEW p
    PROVE  VelocityOf(p) \in VelocityFiles
  <1> DEFINE ms == MemberRows(p)
             D == DOMAIN ms
             named(d) == {i \in D : ms[i].domain = d}
             E == {d \in NetDomains : named(d) # {}}
             sv == {<<ms[i].name, ms[i].port>> : i \in D}
             try == IF D = {} THEN NetNone ELSE ms[Min(D)].name
             hs == [d \in E |-> ms[Max(named(d))].name]
  <1>1. /\ D \subseteq LiveServers
        /\ \A i \in D : ms[i].name \in NetNames /\ ms[i].port \in Nat
    <2>1. \A i \in LiveServers : servers[i].name \in NetNames /\ servers[i].port \in Nat
      BY DEF RowsTyped, ServerRows
    <2> QED
      BY <2>1 DEF MemberRows, Members
  <1>2. Len(servers) \in Nat /\ LiveServers \subseteq 0 .. Len(servers)
    <2>1. Sequence(servers)
      BY Threads
    <2>2. DOMAIN servers = 1 .. Len(servers) /\ Len(servers) \in Nat
      BY <2>1, Sequences
    <2> QED
      BY <2>2 DEF LiveServers
  <1>3. VelocityOf(p) = [servers |-> sv, try |-> try, hosts |-> hs]
    BY DEF VelocityOf, VelocityFile
  <1> HIDE DEF ms
  <1>4. sv \in SUBSET (NetNames \X Nat)
    BY <1>1
  <1>5. try \in NetNames \cup {NetNone}
    <2>1. CASE D = {}
      BY <2>1
    <2>2. CASE D # {}
      <3> HIDE DEF D
      <3>1. D \subseteq Nat
        <4>1. D \subseteq 0 .. Len(servers) /\ Len(servers) \in Nat
          BY <1>1, <1>2
        <4> QED
          BY <4>1
      <3>2. \E x \in D : \A y \in D : x <= y
        BY <2>2, <3>1, LeastNatural
      <3>3. Min(D) \in D
        BY <3>2 DEF Min
      <3> QED
        BY <1>1, <2>2, <3>3
    <2> QED
      BY <2>1, <2>2
  <1>6. hs \in [E -> NetNames]
    <2>1. ASSUME NEW d \in E PROVE ms[Max(named(d))].name \in NetNames
      <3> DEFINE N == named(d)
      <3>1. N \subseteq D /\ N # {}
        OBVIOUS
      <3> HIDE DEF N, D
      <3>2. N \subseteq 0 .. Len(servers)
        BY <1>1, <1>2, <3>1
      <3>3. Max(N) \in N
        BY <1>2, <3>1, <3>2, Greatest
      <3>4. ms[Max(N)].name \in NetNames
        BY <1>1, <3>1, <3>3
      <3> QED
        BY <3>4 DEF N
    <2> HIDE DEF E, named
    <2> QED
      BY <2>1
  <1>7. hs \in Some(NetDomains, NetNames)
    <2>1. E \in SUBSET NetDomains
      OBVIOUS
    <2> HIDE DEF hs, E
    <2> QED
      BY <1>6, <2>1 DEF Some
  <1> HIDE DEF sv, try, hs
  <1> QED
    BY <1>3, <1>4, <1>5, <1>7 DEF VelocityFiles

(* The steps that leave rows and files as they are. *)
LEMMA ChangeKept ==
    ASSUME Still, NEW s, ChangeStep(s)
    PROVE  ChangeNext(s, s.id)
  BY DEF ChangeStep, ChangeNext, Mine, Joins, Still

LEMMA MinorFiles ==
    ASSUME NEW t \in NetThreads, FilesNow(t), Minor(t)
    PROVE  FilesNext(t)
  <1>1. PICK r : r = Tail(todo[t])
    OBVIOUS
  <1>2. /\ todo[t] # <<>> /\ Now(t) = Head(todo[t]) /\ t \in DOMAIN todo /\ todo'[t] = r
        /\ Continue(t)
        /\ Head(todo[t]).do \in {"motd", "forget", "unmotd", "moveMotd", "renameMotd", "lines"}
    BY <1>1, Threads DEF FilesNow, Minor, CreateMotd, ForgetServer, LeaveMotd, MoveMotd,
       RenameMotdFiles, LinesMotd, At, Now, Continue
  <1>3. \/ Resting(t)
        \/ Syncing(t) /\ Head(todo[t]).do = "renameMotd"
        \/ Assigning(t) /\ Head(todo[t]).do = "moveMotd"
    BY <1>2, FileStageIs DEF FilesNow
  <1>4. HarmlessStep(Now(t))
    <2>1. CASE Resting(t)
      BY <1>2, <2>1, HarmlessSteps DEF Resting
    <2>2. CASE ~Resting(t)
      BY <1>2, <1>3, <2>2 DEF Syncing, Assigning, At
    <2> QED
      BY <2>1, <2>2
  <1>5. Still /\ DirsTyped'
    BY <1>4, StepStill DEF FilesNow
  <1>6. NamesApart'
    BY <1>5, StillKept DEF FilesNow
  <1>7. CASE Resting(t)
    BY <1>2, <1>5, <1>6, <1>7, RestingGoesOn DEF FilesNow, FilesNext
  <1>8. CASE Syncing(t) /\ Head(todo[t]).do = "renameMotd"
    <2>1. PICK p : p = Head(r).proxy
      OBVIOUS
    <2>2. /\ KeptBut({}) /\ Homes /\ SyncedBut({p}) /\ r # <<>> /\ Head(r).do = "sync"
          /\ Harmless(Tail(r))
      BY <1>1, <1>8, <2>1 DEF Syncing, At
    <2>3. KeptBut({})' /\ Homes' /\ SyncedBut({p})'
      BY <1>5, <2>2, StillKept DEF FilesNow
    <2>4. FileStage(t)'
      BY <1>2, <2>1, <2>2, <2>3, NowSyncing
    <2> QED
      BY <1>5, <1>6, <2>4 DEF FilesNext
  <1>9. CASE Assigning(t) /\ Head(todo[t]).do = "moveMotd"
    <2>1. PICK i, p : i = Head(r).id /\ p = Head(r).proxy
      OBVIOUS
    <2>2. /\ KeptBut({}) /\ SyncedBut({}) /\ r # <<>> /\ Head(r).do = "assign"
          /\ Mine(i, p) /\ Harmless(Tail(r))
      BY <1>1, <1>9, <2>1 DEF Assigning, At
    <2>3. KeptBut({})' /\ SyncedBut({})' /\ Mine(i, p)'
      BY <1>5, <2>2, StillKept DEF FilesNow
    <2>4. FileStage(t)'
      BY <1>2, <2>1, <2>2, <2>3, NowAssigning
    <2> QED
      BY <1>5, <1>6, <2>4 DEF FilesNext
  <1> QED
    BY <1>3, <1>7, <1>8, <1>9

LEMMA QuietFiles ==
    ASSUME NEW t \in NetThreads, FilesNow(t),
           RefreshIcons(t) \/ StartContainer(t) \/ StopContainer(t) \/ MarkProxy(t) \/ SetUdp(t)
    PROVE  FilesNext(t)
  <1>1. Still /\ DirsTyped' /\ (Continue(t) \/ Abort(t)) /\ todo[t] # <<>>
    BY StepStill DEF FilesNow
  <1>2. NamesApart' /\ t \in DOMAIN todo
    BY <1>1, StillKept, Threads DEF FilesNow
  <1>3. Head(todo[t]).do \in {"refresh", "start", "stop", "kill", "mark", "udp"}
    BY DEF RefreshIcons, StartContainer, StopContainer, MarkProxy, SetUdp, At
  <1>4. \/ Resting(t)
        \/ Leaving(t) /\ Head(todo[t]).do = "kill"
        \/ Changing(t) /\ Head(todo[t]).do = "udp"
    BY <1>1, <1>3, FileStageIs DEF FilesNow
  <1>5. CASE Resting(t)
    BY <1>1, <1>2, <1>5, RestingGoesOn DEF FilesNow, FilesNext
  <1>6. CASE Leaving(t) /\ Head(todo[t]).do = "kill"
    <2>1. Continue(t)
      BY <1>6 DEF RefreshIcons, StartContainer, StopContainer, MarkProxy, SetUdp, At
    <2>2. PICK p \in LiveProxies :
            LET n == proxies[p].name
                kill == [do |-> "kill", name |-> n]
                rmdir == [do |-> "rmdir", name |-> n]
                unassign == [do |-> "unassign", id |-> p]
                delete == [do |-> "deleteProxy", id |-> p]
            IN  /\ KeptBut({}) /\ SyncedBut({p})
                /\ todo[t] \in {<<kill, rmdir, unassign, delete>>, <<rmdir, unassign, delete>>,
                                <<unassign, delete>>, <<delete>>}
      BY <1>6 DEF Leaving
    <2>3. PICK n : n = proxies[p].name
      OBVIOUS
    <2>4. todo[t] = <<[do |-> "kill", name |-> n], [do |-> "rmdir", name |-> n],
                      [do |-> "unassign", id |-> p], [do |-> "deleteProxy", id |-> p]>>
      BY <1>6, <2>2, <2>3, TuplesOff
    <2>5. todo'[t] = <<[do |-> "rmdir", name |-> n],
                       [do |-> "unassign", id |-> p], [do |-> "deleteProxy", id |-> p]>>
      BY <1>2, <2>1, <2>4, TuplesOff DEF Continue
    <2>6. KeptBut({})' /\ SyncedBut({p})' /\ p \in LiveProxies' /\ proxies'[p].name = n
      BY <1>1, <2>2, <2>3, StillKept DEF FilesNow, Still
    <2>7. FileStage(t)'
      BY <2>5, <2>6, NowLeaving
    <2> QED
      BY <1>1, <1>2, <2>7 DEF FilesNext
  <1>7. CASE Changing(t) /\ Head(todo[t]).do = "udp"
    <2>1. PICK r : r = Tail(todo[t])
      OBVIOUS
    <2>2. /\ KeptBut({}) /\ Homes /\ SyncedBut({}) /\ r # <<>> /\ ChangeStep(Head(r))
          /\ Tail(r) = <<>> /\ Head(r).fields.name = NetNone
      BY <1>7, <2>1 DEF Changing, At
    <2>3. KeptBut({})' /\ Homes' /\ SyncedBut({})'
      BY <1>1, <2>2, StillKept DEF FilesNow
    <2>4. CASE Continue(t)
      <3>1. PICK s, i, p : s = Head(r) /\ i = s.id /\ p = s.cur.proxy
        OBVIOUS
      <3>2. ChangeNext(s, i) /\ s.do = "change"
        BY <1>1, <2>2, <3>1, ChangeKept DEF ChangeStep
      <3>3. todo'[t] = r
        BY <1>2, <2>1, <2>4 DEF Continue
      <3>4. FileStage(t)'
        BY <2>2, <2>3, <3>1, <3>2, <3>3, NowChanging
      <3> QED
        BY <1>1, <1>2, <3>4 DEF FilesNext
    <2>5. CASE Abort(t)
      <3>1. todo'[t] = <<>>
        BY <1>2, <2>5 DEF Abort
      <3>2. FileStage(t)'
        BY <2>3, <3>1, HarmlessSteps, NowResting
      <3> QED
        BY <1>1, <1>2, <3>2 DEF FilesNext
    <2> QED
      BY <1>1, <2>4, <2>5
  <1> QED
    BY <1>4, <1>5, <1>6, <1>7

(* velocity.toml is read off the rows and written. *)
LEMMA SyncReadFiles ==
    ASSUME NEW t \in NetThreads, FilesNow(t), SyncRead(t)
    PROVE  FilesNext(t)
  <1>1. PICK p, r : p = Now(t).proxy /\ r = Tail(todo[t])
    OBVIOUS
  <1>2. /\ todo[t] # <<>> /\ Head(todo[t]).do = "sync" /\ Now(t) = Head(todo[t])
        /\ DOMAIN todo = NetThreads
    BY Threads DEF SyncRead, At, Now, FilesNow
  <1>3. Syncing(t)
    BY <1>2, FileStageIs DEF FilesNow
  <1>4. KeptBut({}) /\ Homes /\ SyncedBut({p}) /\ Harmless(r)
    BY <1>1, <1>2, <1>3 DEF Syncing, At
  <1>5. UNCHANGED <<servers, proxies, users, dirs>>
    BY DEF SyncRead, rows, GoOn, Continue
  <1>6. DirsTyped' /\ \A n \in NetNames : DirStays(n)
    BY <1>5, DirsSame DEF FilesNow
  <1>7. Still
    BY <1>5, <1>6, StillRows
  <1>8. /\ NamesApart' /\ KeptBut({})' /\ Homes' /\ SyncedBut({p})' /\ LiveProxies' = LiveProxies
        /\ VelocityOf(p)' = VelocityOf(p)
    BY <1>4, <1>7, StillKept DEF FilesNow, Still
  <1>9. CASE p \notin LiveProxies
    <2>1. todo'[t] = r
      BY <1>1, <1>2, <1>9 DEF SyncRead, Continue
    <2>2. SyncedBut({})'
      BY <1>8, <1>9, OneMoreNext
    <2>3. FileStage(t)'
      BY <1>4, <1>8, <2>1, <2>2, NowResting
    <2> QED
      BY <1>6, <1>8, <2>3 DEF FilesNext
  <1>10. CASE p \in LiveProxies
    <2>1. PICK s : s = [do |-> "toml", name |-> proxies[p].name, config |-> VelocityOf(p)]
      OBVIOUS
    <2>2. todo'[t] = <<s>> \o r
      BY <1>1, <1>2, <1>10, <2>1 DEF SyncRead, GoOn
    <2>3. todo'[t] # <<>> /\ Head(todo'[t]) = s /\ Tail(todo'[t]) = r
      BY <1>4, <2>2, HarmlessAfter
    <2>4. /\ s.do = "toml" /\ s.name = proxies'[p].name /\ s.config = VelocityOf(p)'
          /\ p \in LiveProxies'
      BY <1>5, <1>8, <1>10, <2>1
    <2>5. FileStage(t)'
      BY <1>4, <1>8, <2>3, <2>4, NowSyncing
    <2> QED
      BY <1>6, <1>8, <2>5 DEF FilesNext
  <1> QED
    BY <1>9, <1>10

LEMMA SyncWriteFiles ==
    ASSUME NEW t \in NetThreads, FilesNow(t), SyncWrite(t)
    PROVE  FilesNext(t)
  <1>1. PICK r : r = Tail(todo[t])
    OBVIOUS
  <1>2. /\ todo[t] # <<>> /\ Head(todo[t]).do = "toml" /\ Now(t) = Head(todo[t])
        /\ DOMAIN dirs = NetNames
    BY DEF SyncWrite, At, Now, FilesNow, NetIInv, RestOK
  <1>3. Syncing(t)
    BY <1>2, FileStageIs DEF FilesNow
  <1>4. KeptBut({}) /\ Homes /\ Harmless(r)
    BY <1>1, <1>2, <1>3 DEF Syncing, At
  <1>5. PICK p \in LiveProxies : /\ Now(t).name = proxies[p].name /\ Now(t).config = VelocityOf(p)
                                 /\ SyncedBut({p})
    BY <1>2, <1>3 DEF Syncing, At
  <1>6. PICK n, e : n = proxies[p].name /\ e = [dirs[n] EXCEPT !.toml = VelocityOf(p)]
    OBVIOUS
  <1>7. UNCHANGED <<servers, proxies, users>> /\ todo'[t] = r
    BY <1>1, Threads DEF SyncWrite, rows, Continue, FilesNow
  <1>8. dirs[n] # NetNone /\ n \in NetNames /\ dirs[n] \in DirRecords
    BY <1>4, <1>6, NamesTyped DEF Homes, FilesNow, DirsTyped
  <1>9. e \in DirRecords /\ e.toml = VelocityOf(p)
    <2>1. VelocityOf(p) \in VelocityFiles
      BY VelocityTyped DEF FilesNow
    <2> QED
      BY <1>6, <1>8, <2>1 DEF DirRecords
  <1>10. dirs' = [dirs EXCEPT ![n] = e]
    BY <1>2, <1>5, <1>6, <1>8 DEF SyncWrite
  <1>11. /\ DirsTyped' /\ dirs'[n] = e
         /\ \A x \in NetNames : x # n => dirs'[x] = dirs[x] /\ DirStays(x)
    <2>1. DirsTyped
      BY DEF FilesNow
    <2> QED
      BY <1>2, <1>8, <1>9, <1>10, <2>1, OneDir
  <1>12. /\ \A i \in LiveServers : DirStays(servers[i].name)
         /\ \A q \in LiveProxies \ {p} : DirStays(proxies[q].name)
    BY <1>6, <1>11, NamesAway, NamesTyped DEF FilesNow, NamesApart
  <1>13. NamesApart' /\ KeptBut({})' /\ SyncedBut({p})' /\ VelocityOf(p)' = VelocityOf(p)
    BY <1>4, <1>5, <1>7, <1>12, RowsSame DEF FilesNow
  <1>14. e # NetNone
    BY <1>9, NetDirAssumption
  <1>15. SyncedBut({})'
    BY <1>6, <1>7, <1>9, <1>11, <1>13, <1>14, AllSynced
  <1>16. FileStage(t)'
    BY <1>4, <1>7, <1>13, <1>15, NowResting
  <1> QED
    BY <1>11, <1>13, <1>16 DEF FilesNext

LEMMA NothingAfter ==
    /\ \A x : <<x>> \o <<>> = <<x>>
    /\ \A x, y : <<x, y>> \o <<>> = <<x, y>>
  <1>1. ASSUME NEW x PROVE <<x>> \o <<>> = <<x>>
    <2>1. <<x>> \in Seq({x})
      OBVIOUS
    <2> QED
      BY <2>1
  <1>2. ASSUME NEW x, NEW y PROVE <<x, y>> \o <<>> = <<x, y>>
    <2>1. <<x, y>> \in Seq({x, y})
      OBVIOUS
    <2> QED
      BY <2>1
  <1> QED
    BY <1>1, <1>2

LEMMA NoZero ==
    ASSUME NetIInv
    PROVE  0 \notin LiveProxies /\ 0 \notin LiveServers
  BY Threads, Sequences DEF LiveProxies, LiveServers

(* A server joins a proxy. *)
LEMMA AssignFiles ==
    ASSUME NEW t \in NetThreads, FilesNow(t), AssignServer(t)
    PROVE  FilesNext(t)
  <1>1. PICK i, p, r : i = Now(t).id /\ p = Now(t).proxy /\ r = Tail(todo[t])
    OBVIOUS
  <1>2. /\ todo[t] # <<>> /\ Head(todo[t]).do = "assign" /\ Now(t) = Head(todo[t])
        /\ DOMAIN todo = NetThreads /\ Sequence(servers) /\ 0 \notin LiveProxies
    BY Threads, NoZero DEF AssignServer, At, Now, FilesNow
  <1>3. Assigning(t)
    BY <1>2, FileStageIs DEF FilesNow
  <1>4. KeptBut({}) /\ SyncedBut({}) /\ Mine(i, p) /\ Harmless(r)
    BY <1>1, <1>2, <1>3 DEF Assigning, At
  <1>5. UNCHANGED <<proxies, dirs, users>>
    BY DEF AssignServer, GoOn, Continue
  <1>6. DirsTyped' /\ \A n \in NetNames : DirStays(n)
    BY <1>5, DirsSame DEF FilesNow
  <1>7. CASE ~(i \in LiveServers /\ p \in LiveProxies)
    <2>1. UNCHANGED servers /\ todo'[t] = r
      BY <1>1, <1>2, <1>7 DEF AssignServer, Continue
    <2>2. NamesApart' /\ KeptBut({})' /\ SyncedBut({})'
      BY <1>4, <1>5, <1>6, <2>1, StillRows, StillKept DEF FilesNow
    <2>3. FileStage(t)'
      BY <1>4, <2>1, <2>2, NowResting
    <2> QED
      BY <1>6, <2>2, <2>3 DEF FilesNext
  <1>8. CASE i \in LiveServers /\ p \in LiveProxies
    <2>1. PICK h, s : /\ h = NextPort(p)
                      /\ s = [do |-> "joinFiles", name |-> servers[i].name,
                              limbo |-> servers[i].limbo, port |-> h, proxy |-> p]
      OBVIOUS
    <2> DEFINE z == [servers[i] EXCEPT !.proxy = p, !.port = h, !.domain = NetNone]
    <2>2. /\ servers' = [servers EXCEPT ![i].proxy = p, ![i].port = h, ![i].domain = NetNone]
          /\ todo'[t] = <<s>> \o r
      BY <1>1, <1>2, <1>8, <2>1 DEF AssignServer, GoOn
    <2>3. servers' = [servers EXCEPT ![i] = z]
      BY <1>2, <1>8, <2>2, Sequences DEF LiveServers
    <2>4. p \in Nat /\ h \in Nat
      <3>1. p \in Nat
        BY <1>8, Threads, Sequences DEF LiveProxies, FilesNow
      <3> QED
        BY <2>1, <3>1, NextPortFree DEF FilesNow
    <2>5. NetNone \in RowDomains
      BY Domains
    <2>6. /\ z \in ServerRows /\ z.name = servers[i].name /\ z.proxy = p /\ z.port = h
          /\ z.limbo = servers[i].limbo
      BY <1>8, <2>4, <2>5 DEF RowsTyped, ServerRows, FilesNow
    <2> HIDE DEF z
    <2>7. KeptBut({i}) /\ SyncedBut({p}) /\ Homes
      BY <1>4, OneMore
    <2>8. \A q \in LiveProxies \ {p} : "move" \notin users.ops => q \notin {servers[i].proxy, z.proxy}
      BY <1>2, <1>4, <1>8, <2>6 DEF Mine
    <2>9. /\ LiveServers' = LiveServers /\ servers'[i] = z /\ NamesApart' /\ KeptBut({i})'
          /\ SyncedBut({p})' /\ Homes'
      BY <1>5, <1>6, <1>8, <2>3, <2>6, <2>7, <2>8, OneRow DEF FilesNow
    <2>10. dirs'[s.name] # NetNone
      BY <1>4, <1>5, <1>8, <2>1 DEF KeptBut, KeptAt
    <2>11. todo'[t] # <<>> /\ Head(todo'[t]) = s /\ Tail(todo'[t]) = r
      BY <1>4, <2>2, HarmlessAfter
    <2>12. /\ s.do = "joinFiles" /\ s.proxy = p /\ i \in LiveServers' /\ s.name = servers'[i].name
           /\ s.port = servers'[i].port /\ s.limbo = servers'[i].limbo
           /\ p = servers'[i].proxy /\ Joins'
      <3>1. Joins'
        BY <1>4, <1>5 DEF Mine, Joins
      <3> QED
        BY <1>8, <2>1, <2>6, <2>9, <3>1
    <2>13. FileStage(t)'
      BY <1>4, <2>9, <2>10, <2>11, <2>12, NowJoining
    <2> QED
      BY <1>6, <2>9, <2>13 DEF FilesNext
  <1> QED
    BY <1>7, <1>8

LEMMA JoinFilesFiles ==
    ASSUME NEW t \in NetThreads, FilesNow(t), JoinFiles(t)
    PROVE  FilesNext(t)
  <1>1. PICK p, r : p = Now(t).proxy /\ r = Tail(todo[t])
    OBVIOUS
  <1>2. /\ todo[t] # <<>> /\ Head(todo[t]).do = "joinFiles" /\ Now(t) = Head(todo[t])
        /\ DOMAIN todo = NetThreads /\ DOMAIN dirs = NetNames
    BY Threads DEF JoinFiles, At, Now, FilesNow, NetIInv, RestOK
  <1>3. Joining(t)
    BY <1>2, FileStageIs DEF FilesNow
  <1>4. Harmless(r) /\ Homes /\ SyncedBut({p}) /\ Joins
    BY <1>1, <1>2, <1>3 DEF Joining
  <1>5. PICK i \in LiveServers :
          /\ Now(t).name = servers[i].name /\ Now(t).port = servers[i].port
          /\ p = servers[i].proxy /\ Now(t).limbo = servers[i].limbo
          /\ dirs[servers[i].name] # NetNone /\ KeptBut({i})
    BY <1>1, <1>3 DEF Joining
  <1>6. PICK n, h, limbo, e :
          /\ n = servers[i].name /\ h = servers[i].port /\ limbo = servers[i].limbo
          /\ e = IF limbo THEN [dirs[n] EXCEPT !.online = FALSE]
                 ELSE [dirs[n] EXCEPT !.online = FALSE, !.port = h, !.secret = p]
    OBVIOUS
  <1>7. n \in NetNames /\ p \in Nat /\ h \in Nat /\ dirs[n] \in DirRecords /\ dirs[n] # NetNone
    BY <1>5, <1>6 DEF FilesNow, RowsTyped, ServerRows, DirsTyped
  <1>8. /\ e \in DirRecords /\ e.online = FALSE /\ e # NetNone
        /\ ~limbo => e.secret = p /\ e.port = h
    <2>1. e \in DirRecords /\ e.online = FALSE /\ (~limbo => e.secret = p /\ e.port = h)
      BY <1>6, <1>7 DEF DirRecords
    <2> QED
      BY <2>1, NetDirAssumption
  <1>9. /\ dirs' = [dirs EXCEPT ![n] = e] /\ UNCHANGED <<servers, proxies, users>>
        /\ todo'[t] = <<SyncStep(p)>> \o r
    <2>1. Configured(Properties(dirs[n], limbo, h, FALSE), limbo, p) = e
      <3>1. PICK d : d = Properties(dirs[n], limbo, h, FALSE)
        OBVIOUS
      <3>2. d \in DirRecords /\ d = [dirs[n] EXCEPT !.online = FALSE, !.port = IF limbo THEN @ ELSE h]
        BY <1>7, <3>1 DEF Properties, DirRecords
      <3>3. Made(d) = d
        BY <3>2, NetDirAssumption DEF Made
      <3>4. CASE limbo
        <4>1. d = [dirs[n] EXCEPT !.online = FALSE]
          BY <1>7, <3>2, <3>4 DEF DirRecords
        <4> QED
          BY <1>6, <3>1, <3>4, <4>1 DEF Configured
      <3>5. CASE ~limbo
        <4>1. d = [dirs[n] EXCEPT !.online = FALSE, !.port = h]
          BY <1>7, <3>2, <3>5 DEF DirRecords
        <4>2. [d EXCEPT !.secret = p] = [dirs[n] EXCEPT !.online = FALSE, !.port = h, !.secret = p]
          BY <1>7, <4>1 DEF DirRecords
        <4> QED
          BY <1>6, <3>1, <3>3, <3>5, <4>2 DEF Configured
      <3> QED
        BY <3>4, <3>5
    <2>2. dirs' = [dirs EXCEPT ![n] = Configured(Properties(@, limbo, h, FALSE), limbo, p)]
          /\ GoOn(t, <<SyncStep(p)>>) /\ UNCHANGED <<servers, proxies>>
      BY <1>1, <1>5, <1>6, <1>7 DEF JoinFiles, FilesNow, rows
    <2> QED
      BY <1>1, <1>2, <2>1, <2>2 DEF GoOn
  <1>10. /\ DirsTyped' /\ dirs'[n] = e
         /\ \A x \in NetNames : x # n => dirs'[x] = dirs[x] /\ DirStays(x)
    <2>1. DirsTyped
      BY DEF FilesNow
    <2> QED
      BY <1>2, <1>7, <1>8, <1>9, <2>1, OneDir
  <1>11. /\ \A j \in LiveServers \ {i} : DirStays(servers[j].name)
         /\ \A q \in LiveProxies : DirStays(proxies[q].name)
    BY <1>5, <1>6, <1>10, NamesAway, NamesTyped DEF FilesNow, NamesApart
  <1>12. NamesApart' /\ KeptBut({i})' /\ SyncedBut({p})' /\ Homes'
    BY <1>4, <1>5, <1>9, <1>11, RowsSame DEF FilesNow
  <1>13. KeptBut({})'
    <2>1. Follows(i)' => ~limbo
      BY <1>4, <1>6, <1>9 DEF Follows, Joins
    <2> QED
      BY <1>5, <1>6, <1>8, <1>9, <1>10, <1>12, <2>1, AllKept, ZenonT(60)
  <1>14. PICK s : s = SyncStep(p)
    OBVIOUS
  <1>15. /\ todo'[t] # <<>> /\ Head(todo'[t]) = s /\ Tail(todo'[t]) = r
         /\ s.do = "sync" /\ s.proxy = p
    BY <1>4, <1>9, <1>14, HarmlessAfter DEF SyncStep
  <1>16. FileStage(t)'
    BY <1>4, <1>12, <1>13, <1>15, NowSyncing
  <1> QED
    BY <1>10, <1>12, <1>16 DEF FilesNext

(* ... or leaves it. *)
LEMMA LeaveFiles ==
    ASSUME NEW t \in NetThreads, FilesNow(t), LeaveRow(t)
    PROVE  FilesNext(t)
  <1>1. PICK i, p, r : i = Now(t).id /\ p = servers[i].proxy /\ r = Tail(todo[t])
    OBVIOUS
  <1>2. /\ todo[t] # <<>> /\ Head(todo[t]).do = "leave" /\ Now(t) = Head(todo[t])
        /\ DOMAIN todo = NetThreads /\ Sequence(servers) /\ 0 \notin LiveProxies
        /\ DOMAIN dirs = NetNames
    BY Threads, NoZero DEF LeaveRow, At, Now, FilesNow, NetIInv, RestOK
  <1>3. Resting(t)
    BY <1>2, FileStageIs DEF FilesNow
  <1>4. KeptBut({}) /\ SyncedBut({}) /\ Harmless(r)
    BY <1>1, <1>2, <1>3, HarmlessSteps DEF Resting
  <1>5. CASE ~(i \in LiveServers /\ p # 0)
    <2>1. UNCHANGED <<servers, proxies, dirs, users>> /\ Continue(t)
      BY <1>1, <1>5 DEF LeaveRow, Continue
    <2>2. Still /\ DirsTyped' /\ NamesApart'
      BY <2>1, DirsSame, StillRows, StillKept DEF FilesNow
    <2> QED
      BY <1>2, <1>3, <2>1, <2>2, RestingGoesOn DEF FilesNow, FilesNext
  <1>6. CASE i \in LiveServers /\ p # 0
    <2>1. PICK n, s, e : /\ n = servers[i].name /\ s = SyncStep(p)
                         /\ e = [dirs[n] EXCEPT !.online = TRUE,
                                               !.secret = IF servers[i].limbo THEN @ ELSE 0]
      OBVIOUS
    <2> DEFINE z == [servers[i] EXCEPT !.proxy = 0, !.port = 0]
    <2>2. dirs[n] # NetNone /\ n \in NetNames /\ dirs[n] \in DirRecords
      BY <1>4, <1>6, <2>1, NamesTyped DEF KeptBut, KeptAt, FilesNow, DirsTyped
    <2>3. /\ servers' = [servers EXCEPT ![i].proxy = 0, ![i].port = 0]
          /\ dirs' = [dirs EXCEPT ![n] = Reverted(@, servers[i].limbo)]
          /\ todo'[t] = <<s>> \o r /\ UNCHANGED <<proxies, users>>
      BY <1>1, <1>2, <1>6, <2>1 DEF LeaveRow, GoOn
    <2>4. servers' = [servers EXCEPT ![i] = z]
      BY <1>2, <1>6, <2>3, Sequences DEF LiveServers
    <2>5. z \in ServerRows /\ z.name = n /\ z.proxy = 0 /\ z.port = 0
      BY <1>6, <2>1 DEF FilesNow, RowsTyped, ServerRows
    <2> HIDE DEF z
    <2>6. dirs' = [dirs EXCEPT ![n] = e]
      BY <2>1, <2>2, <2>3 DEF Reverted
    <2>7. e \in DirRecords /\ e # NetNone
      <3>1. e \in DirRecords
        BY <2>1, <2>2 DEF DirRecords
      <3> QED
        BY <3>1, NetDirAssumption
    <2>8. /\ DirsTyped' /\ dirs'[n] = e /\ \A x \in NetNames : x # n => DirStays(x)
      <3>1. DirsTyped
        BY DEF FilesNow
      <3> QED
        BY <1>2, <2>2, <2>6, <2>7, <3>1, OneDir
    <2>9. KeptBut({i}) /\ SyncedBut({p}) /\ Homes
      BY <1>4, OneMore
    <2>10. \A q \in LiveProxies \ {p} : q \notin {servers[i].proxy, z.proxy}
      BY <1>1, <1>2, <2>5
    <2>11. /\ LiveProxies' = LiveProxies /\ servers'[i] = z /\ NamesApart' /\ KeptBut({i})'
           /\ SyncedBut({p})' /\ Homes'
      <3>1. NetIInv /\ RowsTyped /\ RowsApart /\ NamesApart
        BY DEF FilesNow
      <3>2. \A x \in NetNames : x # servers[i].name => DirStays(x)
        BY <2>1, <2>8
      <3>3. z.name = servers[i].name
        BY <2>1, <2>5
      <3> QED
        BY <1>6, <2>3, <2>4, <2>5, <2>9, <2>10, <3>1, <3>2, <3>3, OneRow
    <2>12. KeptBut({})'
      BY <1>2, <2>5, <2>7, <2>8, <2>11, AllKept
    <2>13. /\ todo'[t] # <<>> /\ Head(todo'[t]) = s /\ Tail(todo'[t]) = r
           /\ s.do = "sync" /\ s.proxy = p
      BY <1>4, <2>1, <2>3, HarmlessAfter DEF SyncStep
    <2>14. FileStage(t)'
      BY <1>4, <2>11, <2>12, <2>13, NowSyncing
    <2> QED
      BY <2>8, <2>11, <2>14 DEF FilesNext
  <1> QED
    BY <1>5, <1>6

(* A server's domain. *)
LEMMA DomainFiles ==
    ASSUME NEW t \in NetThreads, FilesNow(t), DomainRow(t)
    PROVE  FilesNext(t)
  <1>1. PICK i, p, r : i = Now(t).id /\ p = servers[i].proxy /\ r = Tail(todo[t])
    OBVIOUS
  <1>2. /\ todo[t] # <<>> /\ Head(todo[t]).do = "domain" /\ Now(t) = Head(todo[t])
        /\ DOMAIN todo = NetThreads /\ Sequence(servers) /\ 0 \notin LiveProxies
        /\ DOMAIN dirs = NetNames
    BY Threads, NoZero DEF DomainRow, At, Now, FilesNow, NetIInv, RestOK
  <1>3. Resting(t) /\ Calm(t)
    BY <1>2, FileStageIs, StageIs DEF FilesNow, Turning
  <1>4. /\ KeptBut({}) /\ SyncedBut({}) /\ Harmless(r)
        /\ Now(t).name \in NetNames /\ Now(t).domain \in RowDomains
    <2>1. HarmlessStep(Now(t)) /\ Harmless(r)
      BY <1>1, <1>2, <1>3, HarmlessSteps DEF Resting
    <2>2. PlainStep(Now(t), ServerNames, ProxyNames)
      BY <1>2, <1>3, PlainSteps DEF Calm
    <2> QED
      BY <1>2, <1>3, <2>1, <2>2 DEF Resting, HarmlessStep, PlainStep
  <1>5. UNCHANGED <<proxies, users>>
    BY DEF DomainRow, GoOn, Continue
  <1>6. \A n \in NetNames : Written(n)
    <2> TAKE n \in NetNames
    <2> DEFINE e == PutHost(Made(dirs[n]), Now(t).domain, Now(t).name)
    <2>1. dirs'[n] = dirs[n] \/ dirs'[n] = e
      BY <1>2 DEF DomainRow
    <2>2. dirs[n] = NetNone \/ dirs[n] \in DirRecords
      BY DEF FilesNow, DirsTyped
    <2>3. Made(dirs[n]) \in DirRecords
      BY <2>2, MadeTyped
    <2>4. Fit(e, Made(dirs[n]))
      BY <1>4, <2>3, MotdFits
    <2> HIDE DEF e
    <2> QED
      BY <2>1, <2>2, <2>4, WrittenAs
  <1>7. DirsTyped' /\ \A n \in NetNames : DirStays(n)
    BY <1>6, DirsWritten DEF FilesNow
  <1>8. CASE i \notin LiveServers
    <2>1. UNCHANGED <<servers, proxies, users>> /\ Continue(t)
      BY <1>1, <1>5, <1>8 DEF DomainRow
    <2>2. Still /\ NamesApart'
      BY <1>7, <2>1, StillRows, StillKept DEF FilesNow
    <2> QED
      BY <1>2, <1>3, <1>7, <2>1, <2>2, RestingGoesOn DEF FilesNow, FilesNext
  <1>9. CASE i \in LiveServers
    <2>1. PICK n, s, d : n = servers[i].name /\ s = SyncStep(p) /\ d = Now(t).domain
      OBVIOUS
    <2> DEFINE z == [servers[i] EXCEPT !.domain = d]
    <2>2. servers' = [servers EXCEPT ![i] = z]
      BY <1>1, <1>9, <2>1 DEF DomainRow
    <2>3. /\ z \in ServerRows /\ z.name = n /\ z.proxy = p /\ z.port = servers[i].port
          /\ z.limbo = servers[i].limbo
      BY <1>1, <1>4, <1>9, <2>1 DEF FilesNow, RowsTyped, ServerRows
    <2> HIDE DEF z
    <2>4. KeptBut({i}) /\ SyncedBut({p}) /\ Homes
      BY <1>4, OneMore
    <2>5. \A q \in LiveProxies \ {p} : q \notin {servers[i].proxy, z.proxy}
      BY <1>1, <2>3
    <2>6. /\ LiveServers' = LiveServers /\ LiveProxies' = LiveProxies /\ servers'[i] = z
          /\ NamesApart' /\ KeptBut({i})' /\ SyncedBut({p})' /\ Homes'
      BY <1>5, <1>7, <1>9, <2>1, <2>2, <2>3, <2>4, <2>5, OneRow, ZenonT(60) DEF FilesNow
    <2>7. KeptAt(i, n) /\ n \in NetNames
      BY <1>4, <1>9, <2>1, NamesTyped DEF KeptBut, FilesNow
    <2>8. Fit(dirs'[n], dirs[n])
      BY <1>7, <2>7 DEF KeptAt, DirStays
    <2>9. KeptBut({})'
      <3>1. dirs'[n] # NetNone
        BY <2>8, NetDirAssumption DEF Fit
      <3>2. servers'[i].name = n /\ servers'[i].proxy = p /\ servers'[i].port = servers[i].port
            /\ servers'[i].limbo = servers[i].limbo
        BY <2>3, <2>6
      <3>3. Follows(i)' => Follows(i)
        BY <1>5, <3>2 DEF Follows, Joins
      <3>4. p \in LiveProxies =>
              /\ ~dirs'[n].online
              /\ Follows(i) => dirs'[n].secret = p /\ dirs'[n].port = servers[i].port
        BY <1>1, <2>7, <2>8 DEF KeptAt, Behind, Fit, SameCore
      <3> QED
        BY <2>6, <3>1, <3>2, <3>3, <3>4, AllKept
    <2>10. CASE p = 0
      <3>1. todo'[t] = r
        BY <1>1, <1>2, <2>10 DEF DomainRow, Continue
      <3>2. SyncedBut({})'
        BY <1>2, <2>6, <2>10, OneMoreNext
      <3>3. FileStage(t)'
        BY <1>4, <2>9, <3>1, <3>2, NowResting
      <3> QED
        BY <1>7, <2>6, <3>3 DEF FilesNext
    <2>11. CASE p # 0
      <3>1. todo'[t] = <<s>> \o r
        BY <1>1, <1>2, <1>9, <2>1, <2>11 DEF DomainRow, GoOn
      <3>2. /\ todo'[t] # <<>> /\ Head(todo'[t]) = s /\ Tail(todo'[t]) = r
            /\ s.do = "sync" /\ s.proxy = p
        BY <1>4, <2>1, <3>1, HarmlessAfter DEF SyncStep
      <3>3. FileStage(t)'
        BY <1>4, <2>6, <2>9, <3>2, NowSyncing
      <3> QED
        BY <1>7, <2>6, <3>3 DEF FilesNext
    <2> QED
      BY <2>10, <2>11
  <1> QED
    BY <1>8, <1>9

(* A server's own directory changes, rows do not. *)
LEMMA OwnDir ==
    ASSUME NEW t, FilesNow(t), NEW i \in LiveServers, UNCHANGED <<servers, proxies, users>>,
           \A x \in NetNames : x # servers[i].name => DirStays(x)
    PROVE  /\ NamesApart' /\ LiveServers' = LiveServers /\ LiveProxies' = LiveProxies
           /\ KeptBut({i}) => KeptBut({i})'
           /\ \A P : SyncedBut(P) => SyncedBut(P)'
           /\ Homes => Homes'
  <1>1. RowsTyped /\ RowsApart /\ NamesApart
    BY DEF FilesNow
  <1>2. /\ \A j \in LiveServers \ {i} : DirStays(servers[j].name)
        /\ \A q \in LiveProxies : DirStays(proxies[q].name)
    BY <1>1, NamesAway, NamesTyped DEF NamesApart
  <1> QED
    BY <1>1, <1>2, RowsSame

(* A new server's files. *)
LEMMA ServerFilesFiles ==
    ASSUME NEW t \in NetThreads, FilesNow(t), ServerFiles(t)
    PROVE  FilesNext(t)
  <1>1. PICK z, r, n : z = Now(t).row /\ r = Tail(todo[t]) /\ n = z.name
    OBVIOUS
  <1>2. /\ todo[t] # <<>> /\ Head(todo[t]).do = "files" /\ DOMAIN todo = NetThreads
        /\ DOMAIN dirs = NetNames /\ 0 \notin LiveProxies /\ ~users.failing
    BY Threads, NoZero DEF ServerFiles, At, FilesNow, NetIInv, RestOK
  <1>3. Filling(t)
    BY <1>2, FileStageIs DEF FilesNow
  <1>4. Homes /\ SyncedBut({z.proxy})
    BY <1>1, <1>3 DEF Filling
  <1>5. PICK i \in LiveServers :
          /\ z = servers[i] /\ KeptBut({i})
          /\ \/ z.proxy = 0 /\ r = <<>>
             \/ /\ z.proxy # 0 /\ r # <<>> /\ Tail(r) = <<>>
                /\ Head(r).do = "configure" /\ Head(r).row = z
    BY <1>1, <1>2, <1>3 DEF Filling, At
  <1>6. PICK e : e = Properties(Made(dirs[n]), z.limbo, z.port, z.proxy = 0)
    OBVIOUS
  <1>7. z.port \in Nat /\ n \in NetNames /\ (dirs[n] = NetNone \/ dirs[n] \in DirRecords)
    BY <1>1, <1>5 DEF FilesNow, RowsTyped, ServerRows, DirsTyped
  <1>8. /\ e \in DirRecords /\ e.online = (z.proxy = 0) /\ e # NetNone
        /\ ~z.limbo => e.port = z.port
    <2>1. PICK d : d = Made(dirs[n])
      OBVIOUS
    <2>2. d \in DirRecords
      BY <1>7, <2>1, MadeTyped
    <2>3. e \in DirRecords /\ e.online = (z.proxy = 0) /\ (~z.limbo => e.port = z.port)
      BY <1>6, <1>7, <2>1, <2>2 DEF DirRecords, Properties
    <2> QED
      BY <2>3, NetDirAssumption
  <1>9. /\ dirs' = [dirs EXCEPT ![n] = e] /\ UNCHANGED <<servers, proxies, users>> /\ todo'[t] = r
    BY <1>1, <1>2, <1>6 DEF ServerFiles, Continue, rows
  <1>10. /\ DirsTyped' /\ NamesApart' /\ dirs'[n] = e /\ LiveServers' = LiveServers
         /\ LiveProxies' = LiveProxies /\ servers'[i] = z /\ KeptBut({i})' /\ SyncedBut({z.proxy})'
         /\ Homes'
    <2>1. n = servers[i].name /\ DirsTyped
      BY <1>1, <1>5 DEF FilesNow
    <2>2. DirsTyped' /\ dirs'[n] = e /\ \A x \in NetNames : x # n => DirStays(x)
      BY <1>2, <1>7, <1>8, <1>9, <2>1, OneDir
    <2>3. /\ NamesApart' /\ LiveServers' = LiveServers /\ LiveProxies' = LiveProxies
          /\ KeptBut({i})' /\ SyncedBut({z.proxy})' /\ Homes'
      BY <1>4, <1>5, <1>9, <2>1, <2>2, OwnDir
    <2> QED
      BY <1>5, <1>9, <2>2, <2>3
  <1>11. CASE z.proxy = 0 /\ r = <<>>
    <2>1. KeptBut({})'
      BY <1>1, <1>2, <1>8, <1>10, <1>11, AllKept
    <2>2. SyncedBut({})'
      BY <1>2, <1>10, <1>11, OneMoreNext
    <2>3. FileStage(t)'
      BY <1>9, <1>11, <2>1, <2>2, HarmlessSteps, NowResting
    <2> QED
      BY <1>10, <2>3 DEF FilesNext
  <1>12. CASE z.proxy # 0 /\ r # <<>> /\ Tail(r) = <<>> /\ Head(r).do = "configure" /\ Head(r).row = z
    <2>1. PICK s, p : s = Head(r) /\ p = z.proxy
      OBVIOUS
    <2>2. /\ dirs'[s.row.name] # NetNone /\ ~dirs'[s.row.name].online
          /\ ~s.row.limbo => dirs'[s.row.name].port = s.row.port
      BY <1>1, <1>8, <1>10, <1>12, <2>1
    <2>3. /\ todo'[t] # <<>> /\ Head(todo'[t]) = s /\ Tail(todo'[t]) = <<>>
          /\ s.do = "configure" /\ s.row = servers'[i] /\ s.row.proxy = p /\ i \in LiveServers'
      BY <1>5, <1>9, <1>10, <1>12, <2>1
    <2>4. FileStage(t)'
      BY <1>10, <2>1, <2>2, <2>3, NowFilling
    <2> QED
      BY <1>10, <2>4 DEF FilesNext
  <1> QED
    BY <1>5, <1>11, <1>12

LEMMA ConfigureFiles ==
    ASSUME NEW t \in NetThreads, FilesNow(t), ConfigureServer(t)
    PROVE  FilesNext(t)
  <1>1. PICK z, p, n : z = Now(t).row /\ p = z.proxy /\ n = z.name
    OBVIOUS
  <1>2. /\ todo[t] # <<>> /\ Head(todo[t]).do = "configure" /\ DOMAIN todo = NetThreads
        /\ DOMAIN dirs = NetNames
    BY Threads DEF ConfigureServer, At, FilesNow, NetIInv, RestOK
  <1>3. Filling(t)
    BY <1>2, FileStageIs DEF FilesNow
  <1>4. Homes /\ SyncedBut({p})
    BY <1>1, <1>3 DEF Filling
  <1>5. PICK i \in LiveServers :
          /\ z = servers[i] /\ KeptBut({i}) /\ Tail(todo[t]) = <<>>
          /\ dirs[n] # NetNone /\ ~dirs[n].online /\ (~z.limbo => dirs[n].port = z.port)
    BY <1>1, <1>2, <1>3 DEF Filling, At
  <1>6. UNCHANGED <<servers, proxies, users>>
    BY DEF ConfigureServer, rows, GoOn, Abort
  <1>7. /\ n \in NetNames /\ dirs[n] \in DirRecords /\ p \in Nat /\ z.port \in Nat
        /\ ~users.failing
    BY <1>1, <1>5 DEF FilesNow, RowsTyped, ServerRows, DirsTyped
  <1>8. CASE p \in LiveProxies
    <2>1. PICK e, s, m : /\ e = [dirs[n] EXCEPT !.secret = p, !.port = IF z.limbo THEN z.port ELSE @]
                         /\ s = SyncStep(p)
                         /\ m = [do |-> "motd", at |-> ProxyName(p), row |-> z]
      OBVIOUS
    <2>2. /\ dirs' = [dirs EXCEPT ![n] = e] /\ todo'[t] = <<s, m>> \o <<>>
      <3>1. (IF z.limbo THEN Settings(dirs[n], z) ELSE Configured(dirs[n], z.limbo, p)) = e
        BY <1>1, <1>5, <1>7, <2>1 DEF Settings, Configured, Made, DirRecords
      <3>2. /\ dirs' = [dirs EXCEPT ![n] = IF z.limbo THEN Settings(@, z)
                                           ELSE Configured(@, z.limbo, p)]
            /\ GoOn(t, <<s, m>>)
        BY <1>1, <1>7, <1>8, <2>1 DEF ConfigureServer
      <3> QED
        BY <1>2, <1>5, <3>1, <3>2 DEF GoOn
    <2>3. e \in DirRecords /\ e.secret = p /\ e.port = z.port /\ e.online = FALSE
      BY <1>5, <1>7, <2>1 DEF DirRecords
    <2>4. e # NetNone
      BY <2>3, NetDirAssumption
    <2>5. /\ DirsTyped' /\ NamesApart' /\ dirs'[n] = e /\ LiveServers' = LiveServers
          /\ servers'[i] = z /\ KeptBut({i})' /\ SyncedBut({p})' /\ Homes'
      <3>1. n = servers[i].name /\ DirsTyped
        BY <1>1, <1>5 DEF FilesNow
      <3>2. DirsTyped' /\ dirs'[n] = e /\ \A x \in NetNames : x # n => DirStays(x)
        BY <1>2, <1>7, <2>2, <2>3, <3>1, OneDir
      <3>3. /\ NamesApart' /\ LiveServers' = LiveServers
            /\ KeptBut({i})' /\ SyncedBut({p})' /\ Homes'
        BY <1>4, <1>5, <1>6, <3>1, <3>2, OwnDir
      <3> QED
        BY <1>5, <1>6, <3>2, <3>3
    <2>6. KeptBut({})'
      BY <1>1, <2>3, <2>4, <2>5, AllKept
    <2>7. /\ todo'[t] # <<>> /\ Head(todo'[t]) = s /\ Tail(todo'[t]) = <<m>>
          /\ s.do = "sync" /\ s.proxy = p
      BY <2>1, <2>2, NothingAfter, TuplesOff DEF SyncStep
    <2>8. Harmless(<<m>>)
      <3>1. HarmlessStep(m)
        BY <1>1, <1>7, <2>1 DEF HarmlessStep
      <3> QED
        BY <3>1, HarmlessSteps
    <2>9. FileStage(t)'
      BY <2>5, <2>6, <2>7, <2>8, NowSyncing
    <2> QED
      BY <2>5, <2>9 DEF FilesNext
  <1>9. CASE p \notin LiveProxies
    <2>1. UNCHANGED dirs /\ todo'[t] = <<>>
      BY <1>1, <1>2, <1>9 DEF ConfigureServer, Abort
    <2>2. DirsTyped' /\ \A x \in NetNames : DirStays(x)
      BY <2>1, DirsSame DEF FilesNow
    <2>3. /\ NamesApart' /\ KeptBut({i})' /\ SyncedBut({p})' /\ LiveServers' = LiveServers
          /\ LiveProxies' = LiveProxies
      BY <1>4, <1>5, <1>6, <2>2, StillRows, StillKept DEF FilesNow, Still
    <2>4. servers'[i] = z /\ dirs'[n] # NetNone
      BY <1>5, <1>6, <2>1
    <2>5. KeptBut({})'
      BY <1>1, <1>9, <2>3, <2>4, AllKept
    <2>6. SyncedBut({})'
      BY <1>9, <2>3, OneMoreNext
    <2>7. FileStage(t)'
      BY <2>1, <2>5, <2>6, HarmlessSteps, NowResting
    <2> QED
      BY <2>2, <2>3, <2>7 DEF FilesNext
  <1> QED
    BY <1>8, <1>9

(* A directory that goes. *)
LEMMA LeavingIs ==
    ASSUME RowsTyped, NEW t, Leaving(t), NEW do, todo[t] # <<>>, Head(todo[t]).do = do
    PROVE  \E p \in LiveProxies, n \in NetNames :
             LET rmdir == [do |-> "rmdir", name |-> n]
                 unassign == [do |-> "unassign", id |-> p]
                 delete == [do |-> "deleteProxy", id |-> p]
             IN  /\ n = proxies[p].name /\ KeptBut({}) /\ SyncedBut({p})
                 /\ do = "rmdir" => todo[t] = <<rmdir, unassign, delete>>
                 /\ do = "unassign" => todo[t] = <<unassign, delete>>
                 /\ do = "deleteProxy" => todo[t] = <<delete>>
  <1>1. PICK p \in LiveProxies :
          LET n == proxies[p].name
              kill == [do |-> "kill", name |-> n]
              rmdir == [do |-> "rmdir", name |-> n]
              unassign == [do |-> "unassign", id |-> p]
              delete == [do |-> "deleteProxy", id |-> p]
          IN  /\ KeptBut({}) /\ SyncedBut({p})
              /\ todo[t] \in {<<kill, rmdir, unassign, delete>>, <<rmdir, unassign, delete>>,
                              <<unassign, delete>>, <<delete>>}
    BY DEF Leaving
  <1>2. proxies[p].name \in NetNames
    BY NamesTyped
  <1>3. PICK n, kill, rmdir, unassign, delete :
          /\ n = proxies[p].name /\ kill = [do |-> "kill", name |-> n]
          /\ rmdir = [do |-> "rmdir", name |-> n] /\ unassign = [do |-> "unassign", id |-> p]
          /\ delete = [do |-> "deleteProxy", id |-> p]
    OBVIOUS
  <1>4. /\ kill.do = "kill" /\ rmdir.do = "rmdir" /\ unassign.do = "unassign"
        /\ delete.do = "deleteProxy"
    BY <1>3
  <1>5. todo[t] \in {<<kill, rmdir, unassign, delete>>, <<rmdir, unassign, delete>>,
                    <<unassign, delete>>, <<delete>>}
    BY <1>1, <1>3
  <1>6. /\ do = "rmdir" => todo[t] = <<rmdir, unassign, delete>>
        /\ do = "unassign" => todo[t] = <<unassign, delete>>
        /\ do = "deleteProxy" => todo[t] = <<delete>>
    BY <1>4, <1>5, TuplesOff
  <1> QED
    BY <1>1, <1>2, <1>3, <1>6

LEMMA RemoveDirFiles ==
    ASSUME NEW t \in NetThreads, FilesNow(t), RemoveDir(t)
    PROVE  FilesNext(t)
  <1>1. PICK n, r : n = Now(t).name /\ r = Tail(todo[t])
    OBVIOUS
  <1>2. /\ todo[t] # <<>> /\ Head(todo[t]).do = "rmdir" /\ DOMAIN todo = NetThreads
        /\ DOMAIN dirs = NetNames /\ UNCHANGED <<servers, proxies, users>> /\ todo'[t] = r
        /\ dirs' = [dirs EXCEPT ![n] = NetNone]
    BY <1>1, Threads DEF RemoveDir, At, FilesNow, NetIInv, RestOK, Continue, rows
  <1>3. CASE Going(t)
    <2>1. PICK i : i = Head(r).id
      OBVIOUS
    <2>2. /\ KeptBut({}) /\ SyncedBut({}) /\ r # <<>> /\ Head(r).do = "deleteServer"
          /\ i \in LiveServers /\ n = servers[i].name /\ Owed(Tail(r), servers[i].proxy)
      BY <1>1, <1>2, <1>3, <2>1 DEF Going, At
    <2>3. KeptBut({i})
      BY <2>2, OneMore
    <2>4. DirsTyped' /\ \A x \in NetNames : x # n => DirStays(x)
      <3>1. DirsTyped
        BY DEF FilesNow
      <3> QED
        BY <1>2, <3>1, OneDir
    <2>5. /\ NamesApart' /\ LiveServers' = LiveServers /\ KeptBut({i})' /\ SyncedBut({})'
      BY <1>2, <2>2, <2>3, <2>4, OwnDir
    <2>6. i \in LiveServers' /\ Owed(Tail(r), servers'[i].proxy)
      BY <1>2, <2>2, <2>5
    <2>7. FileStage(t)'
      BY <1>2, <2>1, <2>2, <2>5, <2>6, NowGoing
    <2> QED
      BY <2>4, <2>5, <2>7 DEF FilesNext
  <1>4. CASE Leaving(t)
    <2>1. PICK p \in LiveProxies, m \in NetNames :
            /\ m = proxies[p].name /\ KeptBut({}) /\ SyncedBut({p})
            /\ todo[t] = <<[do |-> "rmdir", name |-> m], [do |-> "unassign", id |-> p],
                           [do |-> "deleteProxy", id |-> p]>>
      BY <1>2, <1>4, LeavingIs DEF FilesNow
    <2>2. /\ n = m
          /\ todo'[t] = <<[do |-> "unassign", id |-> p], [do |-> "deleteProxy", id |-> p]>>
      BY <1>1, <1>2, <2>1, TuplesOff DEF Now
    <2>3. DirsTyped /\ RowsTyped /\ RowsApart /\ NamesApart
      BY DEF FilesNow
    <2>4. DirsTyped' /\ \A x \in NetNames : x # n => DirStays(x)
      BY <1>2, <2>3, OneDir
    <2>5. /\ \A j \in LiveServers : DirStays(servers[j].name)
          /\ \A q \in LiveProxies \ {p} : DirStays(proxies[q].name)
      BY <2>1, <2>2, <2>3, <2>4, NamesAway, NamesTyped DEF NamesApart
    <2>6. /\ LiveProxies' = LiveProxies /\ NamesApart' /\ KeptBut({})' /\ SyncedBut({p})'
      BY <1>2, <2>1, <2>3, <2>5, RowsSame
    <2>7. p \in LiveProxies' /\ proxies'[p].name = m
      BY <1>2, <2>1, <2>6
    <2>8. FileStage(t)'
      BY <2>2, <2>6, <2>7, NowLeaving
    <2> QED
      BY <2>4, <2>6, <2>8 DEF FilesNext
  <1> QED
    BY <1>2, <1>3, <1>4, FileStageIs DEF FilesNow

LEMMA DeleteServerRowFiles ==
    ASSUME NEW t \in NetThreads, FilesNow(t), DeleteServerRow(t)
    PROVE  FilesNext(t)
  <1>1. PICK i, p, r : i = Now(t).id /\ p = servers[i].proxy /\ r = Tail(todo[t])
    OBVIOUS
  <1>2. /\ todo[t] # <<>> /\ Head(todo[t]).do = "deleteServer" /\ DOMAIN todo = NetThreads
        /\ Sequence(servers) /\ 0 \notin LiveProxies
    BY Threads, NoZero DEF DeleteServerRow, At, FilesNow
  <1>3. Going(t)
    BY <1>2, FileStageIs DEF FilesNow
  <1>4. KeptBut({i}) /\ SyncedBut({}) /\ i \in LiveServers /\ Owed(r, p)
    BY <1>1, <1>2, <1>3 DEF Going, At
  <1>5. /\ servers' = [servers EXCEPT ![i] = NetNone] /\ UNCHANGED <<proxies, dirs, users>>
        /\ todo'[t] = r
    BY <1>1, <1>2, <1>4 DEF DeleteServerRow, Continue
  <1>6. /\ \A j \in LiveServers' : j \in LiveServers \ {i} /\ servers'[j] = servers[j]
        /\ \A j \in LiveServers \ {i} : j \in LiveServers' /\ servers'[j] = servers[j]
    <2>1. servers'[i] = NetNone
      BY <1>2, <1>4, <1>5, ServerSet
    <2> QED
      BY <1>2, <1>4, <1>5, <2>1, ServerSet DEF LiveServers
  <1>7. LiveProxies' = LiveProxies /\ \A q : proxies'[q] = proxies[q]
    BY <1>5, SameProxies
  <1>8. DirsTyped' /\ \A x \in NetNames : DirStays(x)
    BY <1>5, DirsSame DEF FilesNow
  <1>9. /\ \A j \in LiveServers : servers[j].name \in NetNames
        /\ \A q \in LiveProxies : proxies[q].name \in NetNames
    BY NamesTyped DEF FilesNow
  <1>10. NamesApart'
    BY <1>6, <1>7 DEF FilesNow, NamesApart
  <1>11. KeptBut({})'
    <2>1. \A j \in LiveServers' \ {} :
            /\ j \in LiveServers \ {i} /\ servers'[j].name = servers[j].name
            /\ servers'[j].proxy = servers[j].proxy /\ servers'[j].port = servers[j].port
            /\ servers'[j].limbo = servers[j].limbo
            /\ servers[j].proxy \in LiveProxies' => servers[j].proxy \in LiveProxies
            /\ DirStays(servers[j].name)
      BY <1>6, <1>7, <1>8, <1>9
    <2> QED
      BY <1>4, <1>5, <2>1, ServersKeep
  <1>12. ASSUME NEW q, q # p PROVE VelocityOf(q)' = VelocityOf(q)
    <2>1. Members(q)' = Members(q)
      BY <1>1, <1>6, <1>12, MembersStay
    <2>2. \A j \in Members(q) : servers'[j] = servers[j]
      BY <1>1, <1>6, <1>12 DEF Members
    <2> QED
      BY <2>1, <2>2, VelocityStays
  <1>13. SyncedBut({p})'
    <2>1. \A q \in LiveProxies' \ {p} :
            /\ q \in LiveProxies \ {} /\ proxies'[q].name = proxies[q].name
            /\ DirStays(proxies[q].name)
            /\ "move" \notin users.ops => VelocityOf(q)' = VelocityOf(q)
      BY <1>7, <1>8, <1>9, <1>12
    <2> QED
      BY <1>4, <1>5, <2>1, ProxiesKeep
  <1>14. Homes'
    <2>1. Homes
      BY <1>4, OneMore
    <2> QED
      BY <1>7, <1>8, <1>9, <2>1, HomesKeep
  <1>15. CASE p = 0 /\ r = <<>>
    <2>1. SyncedBut({})'
      BY <1>2, <1>7, <1>13, <1>15, OneMoreNext
    <2>2. FileStage(t)'
      BY <1>5, <1>11, <1>15, <2>1, HarmlessSteps, NowResting
    <2> QED
      BY <1>8, <1>10, <2>2 DEF FilesNext
  <1>16. CASE r # <<>> /\ Head(r).do = "sync" /\ Head(r).proxy = p /\ Harmless(Tail(r))
    <2>1. FileStage(t)'
      BY <1>5, <1>11, <1>13, <1>14, <1>16, NowSyncing
    <2> QED
      BY <1>8, <1>10, <2>1 DEF FilesNext
  <1> QED
    BY <1>4, <1>15, <1>16 DEF Owed

(* A proxy that goes. *)
LEMMA UnassignFiles ==
    ASSUME NEW t \in NetThreads, FilesNow(t), Unassign(t)
    PROVE  FilesNext(t)
  <1>1. /\ todo[t] # <<>> /\ Head(todo[t]).do = "unassign" /\ DOMAIN todo = NetThreads
        /\ Sequence(servers) /\ 0 \notin LiveProxies /\ UNCHANGED <<proxies, dirs, users>>
        /\ todo'[t] = Tail(todo[t])
    BY Threads, NoZero DEF Unassign, At, FilesNow, Continue
  <1>2. PICK p \in LiveProxies, m \in NetNames :
          /\ m = proxies[p].name /\ KeptBut({}) /\ SyncedBut({p})
          /\ todo[t] = <<[do |-> "unassign", id |-> p], [do |-> "deleteProxy", id |-> p]>>
    BY <1>1, FileStageIs, LeavingIs DEF FilesNow
  <1>3. Now(t).id = p /\ todo'[t] = <<[do |-> "deleteProxy", id |-> p]>>
    BY <1>1, <1>2, TuplesOff DEF Now
  <1>4. /\ DOMAIN servers' = DOMAIN servers
        /\ \A i \in DOMAIN servers :
             servers'[i] = IF i \in Members(p) THEN [servers[i] EXCEPT !.proxy = 0] ELSE servers[i]
    BY <1>3 DEF Unassign
  <1>5. ASSUME NEW i \in LiveServers
        PROVE  /\ servers'[i] # NetNone /\ servers'[i].name = servers[i].name
               /\ servers'[i].port = servers[i].port /\ servers'[i].domain = servers[i].domain
               /\ servers'[i].limbo = servers[i].limbo
               /\ servers'[i].proxy = IF servers[i].proxy = p THEN 0 ELSE servers[i].proxy
    <2>1. servers[i] \in ServerRows /\ i \in DOMAIN servers /\ servers[i] # NetNone
      BY DEF FilesNow, RowsTyped, LiveServers
    <2>2. CASE i \in Members(p)
      <3>1. PICK z : z = [servers[i] EXCEPT !.proxy = 0]
        OBVIOUS
      <3>2. /\ z \in ServerRows /\ z.name = servers[i].name /\ z.port = servers[i].port
            /\ z.domain = servers[i].domain /\ z.proxy = 0 /\ z.limbo = servers[i].limbo
        BY <2>1, <3>1 DEF ServerRows
      <3>3. servers'[i] = z /\ servers[i].proxy = p
        BY <1>4, <2>1, <2>2, <3>1 DEF Members
      <3>4. z # NetNone
        BY <3>2, NetRowAssumption
      <3> QED
        BY <3>2, <3>3, <3>4
    <2>3. CASE i \notin Members(p)
      BY <1>4, <2>1, <2>3 DEF Members
    <2> QED
      BY <2>2, <2>3
  <1>6. LiveServers' = LiveServers
    <2>1. \A i \in DOMAIN servers : i \notin LiveServers => servers'[i] = servers[i]
      BY <1>4 DEF Members
    <2> QED
      BY <1>4, <1>5, <2>1 DEF LiveServers
  <1>7. LiveProxies' = LiveProxies /\ \A q : proxies'[q] = proxies[q]
    BY <1>1, SameProxies
  <1>8. DirsTyped' /\ \A x \in NetNames : DirStays(x)
    BY <1>1, DirsSame DEF FilesNow
  <1>9. \A q \in LiveProxies : proxies[q].name \in NetNames
    BY NamesTyped DEF FilesNow
  <1>10. NamesApart'
    BY <1>5, <1>6, <1>7 DEF FilesNow, NamesApart
  <1>11. KeptBut({})'
    <2>1. ASSUME NEW j \in LiveServers'
          PROVE  LET x == servers'[j].name
                 IN  /\ dirs'[x] # NetNone
                     /\ servers'[j].proxy \in LiveProxies' =>
                          /\ ~dirs'[x].online
                          /\ Follows(j)' => /\ dirs'[x].secret = servers'[j].proxy
                                            /\ dirs'[x].port = servers'[j].port
      <3>1. Follows(j)' => Follows(j)
        BY <1>1, <1>5, <1>6, <2>1 DEF Follows, Joins
      <3> QED
        BY <1>1, <1>2, <1>5, <1>6, <1>7, <3>1 DEF KeptBut, KeptAt, Behind
    <2> QED
      BY <2>1 DEF KeptBut, KeptAt, Behind
  <1>12. ASSUME NEW q \in LiveProxies, q # p PROVE VelocityOf(q)' = VelocityOf(q)
    <2>1. Members(q)' = Members(q)
      BY <1>1, <1>5, <1>6, <1>12, MembersStay
    <2>2. \A j \in Members(q) : /\ servers'[j].name = servers[j].name /\ servers'[j].port = servers[j].port
                                /\ servers'[j].domain = servers[j].domain
      BY <1>5 DEF Members
    <2> QED
      BY <2>1, <2>2, VelocityStays
  <1>13. SyncedBut({p})'
    <2>1. \A q \in LiveProxies' \ {p} :
            /\ q \in LiveProxies \ {p} /\ proxies'[q].name = proxies[q].name
            /\ DirStays(proxies[q].name)
            /\ "move" \notin users.ops => VelocityOf(q)' = VelocityOf(q)
      BY <1>7, <1>8, <1>9, <1>12
    <2> QED
      BY <1>1, <1>2, <2>1, ProxiesKeep
  <1>14. FileStage(t)'
    BY <1>2, <1>3, <1>7, <1>11, <1>13, NowLeaving
  <1> QED
    BY <1>8, <1>10, <1>14 DEF FilesNext

LEMMA DeleteProxyRowFiles ==
    ASSUME NEW t \in NetThreads, FilesNow(t), DeleteProxyRow(t)
    PROVE  FilesNext(t)
  <1>1. /\ todo[t] # <<>> /\ Head(todo[t]).do = "deleteProxy" /\ DOMAIN todo = NetThreads
        /\ Sequence(proxies) /\ UNCHANGED <<servers, dirs, users>> /\ todo'[t] = Tail(todo[t])
    BY Threads DEF DeleteProxyRow, At, FilesNow, Continue
  <1>2. PICK p \in LiveProxies, m \in NetNames :
          /\ m = proxies[p].name /\ KeptBut({}) /\ SyncedBut({p})
          /\ todo[t] = <<[do |-> "deleteProxy", id |-> p]>>
    BY <1>1, FileStageIs, LeavingIs DEF FilesNow
  <1>3. Now(t).id = p /\ todo'[t] = <<>>
    BY <1>1, <1>2, TuplesOff DEF Now
  <1>4. proxies' = [proxies EXCEPT ![p] = NetNone]
    BY <1>2, <1>3 DEF DeleteProxyRow
  <1>5. \A q \in LiveProxies' : q \in LiveProxies \ {p} /\ proxies'[q] = proxies[q]
    <2>1. proxies'[p] = NetNone
      BY <1>1, <1>4, ProxySet
    <2> QED
      BY <1>1, <1>4, <2>1, ProxySet DEF LiveProxies
  <1>6. LiveServers' = LiveServers /\ \A j : servers'[j] = servers[j]
    BY <1>1, SameServers
  <1>7. DirsTyped' /\ \A x \in NetNames : DirStays(x)
    BY <1>1, DirsSame DEF FilesNow
  <1>8. /\ \A j \in LiveServers : servers[j].name \in NetNames
        /\ \A q \in LiveProxies : proxies[q].name \in NetNames
    BY NamesTyped DEF FilesNow
  <1>9. NamesApart'
    BY <1>5, <1>6 DEF FilesNow, NamesApart
  <1>10. KeptBut({})'
    <2>1. \A j \in LiveServers' \ {} :
            /\ j \in LiveServers \ {} /\ servers'[j].name = servers[j].name
            /\ servers'[j].proxy = servers[j].proxy /\ servers'[j].port = servers[j].port
            /\ servers'[j].limbo = servers[j].limbo
            /\ servers[j].proxy \in LiveProxies' => servers[j].proxy \in LiveProxies
            /\ DirStays(servers[j].name)
      BY <1>5, <1>6, <1>7, <1>8
    <2> QED
      BY <1>1, <1>2, <2>1, ServersKeep
  <1>11. \A q : VelocityOf(q)' = VelocityOf(q)
    <2>1. ASSUME NEW q PROVE VelocityOf(q)' = VelocityOf(q)
      <3>1. Members(q)' = Members(q)
        BY <1>6, MembersStay
      <3> QED
        BY <1>6, <3>1, VelocityStays
    <2> QED
      BY <2>1
  <1>12. SyncedBut({})'
    <2>1. \A q \in LiveProxies' \ {} :
            /\ q \in LiveProxies \ {p} /\ proxies'[q].name = proxies[q].name
            /\ DirStays(proxies[q].name)
            /\ "move" \notin users.ops => VelocityOf(q)' = VelocityOf(q)
      BY <1>5, <1>7, <1>8, <1>11
    <2> QED
      BY <1>1, <1>2, <2>1, ProxiesKeep
  <1>13. FileStage(t)'
    BY <1>3, <1>10, <1>12, HarmlessSteps, NowResting
  <1> QED
    BY <1>7, <1>9, <1>13 DEF FilesNext

LEMMA OneAndOne ==
    /\ \A x : <<>> \o <<x>> = <<x>>
    /\ \A x, y : <<x>> \o <<y>> = <<x, y>>
  <1>1. ASSUME NEW x PROVE <<>> \o <<x>> = <<x>>
    <2>1. PICK q : q = <<x>>
      OBVIOUS
    <2>2. q \in Seq({x})
      BY <2>1
    <2>3. <<>> \o q = q
      BY <2>2
    <2> QED
      BY <2>1, <2>3
  <1>2. ASSUME NEW x, NEW y PROVE <<x>> \o <<y>> = <<x, y>>
    <2> DEFINE S == {x, y}
               q == <<x>>
               r == <<y>>
    <2>1. q \in Seq(S) /\ r \in Seq(S) /\ Len(q) = 1 /\ Len(r) = 1 /\ q[1] = x /\ r[1] = y
      OBVIOUS
    <2> HIDE DEF S, q, r
    <2>2. /\ q \o r \in Seq(S) /\ Len(q \o r) = Len(q) + Len(r)
          /\ \A i \in 1 .. Len(q) + Len(r) : (q \o r)[i] = IF i <= Len(q) THEN q[i] ELSE r[i - Len(q)]
      <3>1. q \in Seq(S) /\ r \in Seq(S)
        BY <2>1
      <3> QED
        BY <3>1
    <2>3. q \o r = [i \in 1 .. 2 |-> (q \o r)[i]]
      <3>1. PICK w : w = q \o r
        OBVIOUS
      <3>2. Sequence(w) /\ Len(w) = 2
        BY <2>1, <2>2, <3>1 DEF Sequence
      <3>3. w = [i \in 1 .. 2 |-> w[i]]
        BY <3>2, Sequences
      <3> QED
        BY <3>1, <3>3
    <2>4. <<x, y>> = [i \in 1 .. 2 |-> IF i = 1 THEN x ELSE y]
      OBVIOUS
    <2>5. \A i \in 1 .. 2 : i = 1 \/ i = 2
      OBVIOUS
    <2>6. \A i \in 1 .. 2 : (q \o r)[i] = IF i = 1 THEN x ELSE y
      BY <2>1, <2>2, <2>5
    <2>7. q \o r = <<x, y>>
      BY <2>3, <2>4, <2>6
    <2> QED
      BY <2>7 DEF q, r
  <1> QED
    BY <1>1, <1>2

(* A server's row is new ... *)
LEMMA InsertServerFiles ==
    ASSUME NEW t \in NetThreads, FilesNow(t), InsertServer(t)
    PROVE  FilesNext(t)
  <1>1. PICK z, k : z = Now(t).row /\ k = Len(servers) + 1
    OBVIOUS
  <1>2. /\ todo[t] # <<>> /\ Head(todo[t]).do = "insert" /\ DOMAIN todo = NetThreads
        /\ Sequence(servers) /\ UNCHANGED <<proxies, dirs, users>>
    BY Threads DEF InsertServer, At, FilesNow, Abort, GoOn
  <1>3. KeptBut({}) /\ SyncedBut({}) /\ Tail(todo[t]) = <<>>
    BY <1>2, FileStageIs DEF FilesNow, Entering
  <1>4. z \in ServerRows /\ z.name \notin ServerNames
    <2>1. Inserting(t)
      BY <1>2, StageIs DEF FilesNow
    <2> QED
      BY <1>1, <2>1 DEF Inserting
  <1>5. DirsTyped' /\ \A n \in NetNames : DirStays(n)
    BY <1>2, DirsSame DEF FilesNow
  <1>6. CASE Abort(t) /\ UNCHANGED servers
    <2>1. todo'[t] = <<>>
      BY <1>2, <1>6 DEF Abort
    <2>2. NamesApart' /\ KeptBut({})' /\ SyncedBut({})'
      BY <1>2, <1>3, <1>5, <1>6, StillRows, StillKept DEF FilesNow
    <2>3. FileStage(t)'
      BY <2>1, <2>2, HarmlessSteps, NowResting
    <2> QED
      BY <1>5, <2>2, <2>3 DEF FilesNext
  <1>7. CASE ~(Abort(t) /\ UNCHANGED servers)
    <2>1. PICK s, u, p : /\ s = [do |-> "files", row |-> z] /\ u = [do |-> "configure", row |-> z]
                         /\ p = z.proxy
      OBVIOUS
    <2>2. /\ servers' = Append(servers, z)
          /\ todo'[t] = (<<s>> \o IF p = 0 THEN <<>> ELSE <<u>>) \o <<>>
      BY <1>1, <1>2, <1>3, <1>7, <2>1 DEF InsertServer, GoOn
    <2>3. todo'[t] = IF p = 0 THEN <<s>> ELSE <<s, u>>
      <3>1. <<s>> \o <<u>> = <<s, u>>
        BY OneAndOne
      <3> QED
        BY <2>2, <3>1, NothingAfter
    <2>4. z # NetNone
      BY <1>4, NetRowAssumption
    <2>5. /\ LiveServers' = LiveServers \cup {k} /\ k \notin LiveServers
          /\ servers'[k] = z /\ \A j \in LiveServers : servers'[j] = servers[j]
      BY <1>1, <1>2, <2>2, <2>4, ServerPut
    <2>6. LiveProxies' = LiveProxies /\ \A q : proxies'[q] = proxies[q]
      BY <1>2, SameProxies
    <2>7. /\ \A j \in LiveServers : servers[j].name \in NetNames
          /\ \A q \in LiveProxies : proxies[q].name \in NetNames
      BY NamesTyped DEF FilesNow
    <2>8. NamesApart'
      <3>1. NamesApart /\ \A j \in LiveServers : servers[j].name # z.name
        BY <1>4 DEF FilesNow, ServerNames
      <3> QED
        BY <2>5, <2>6, <3>1 DEF NamesApart
    <2>9. KeptBut({k})'
      <3>1. \A j \in LiveServers' \ {k} :
              /\ j \in LiveServers \ {} /\ servers'[j].name = servers[j].name
              /\ servers'[j].proxy = servers[j].proxy /\ servers'[j].port = servers[j].port
              /\ servers'[j].limbo = servers[j].limbo
              /\ servers[j].proxy \in LiveProxies' => servers[j].proxy \in LiveProxies
              /\ DirStays(servers[j].name)
        BY <1>5, <2>5, <2>6, <2>7
      <3> QED
        BY <1>2, <1>3, <3>1, ServersKeep
    <2>10. ASSUME NEW q, q # p PROVE VelocityOf(q)' = VelocityOf(q)
      <3>1. Members(q)' = Members(q)
        BY <2>1, <2>5, <2>10, MembersStay
      <3>2. \A j \in Members(q) : servers'[j] = servers[j]
        BY <2>5 DEF Members
      <3> QED
        BY <3>1, <3>2, VelocityStays
    <2>11. SyncedBut({p})'
      <3>1. \A q \in LiveProxies' \ {p} :
              /\ q \in LiveProxies \ {} /\ proxies'[q].name = proxies[q].name
              /\ DirStays(proxies[q].name)
              /\ "move" \notin users.ops => VelocityOf(q)' = VelocityOf(q)
        BY <1>5, <2>6, <2>7, <2>10
      <3> QED
        BY <1>2, <1>3, <3>1, ProxiesKeep
    <2>12. Homes'
      <3>1. Homes
        BY <1>3, OneMore
      <3> QED
        BY <1>5, <2>6, <2>7, <3>1, HomesKeep
    <2>13. s.do = "files" /\ s.row = servers'[k] /\ s.row.proxy = p /\ k \in LiveServers'
           /\ u.do = "configure" /\ u.row = s.row
      BY <2>1, <2>5
    <2>14. FileStage(t)'
      <3>1. CASE p = 0
        <4>1. todo'[t] # <<>> /\ Head(todo'[t]) = s /\ Tail(todo'[t]) = <<>>
          BY <2>3, <3>1, TuplesOff
        <4> QED
          BY <2>9, <2>11, <2>12, <2>13, <3>1, <4>1, NowFilling
      <3>2. CASE p # 0
        <4>1. PICK r : r = <<u>>
          OBVIOUS
        <4>2. /\ todo'[t] # <<>> /\ Head(todo'[t]) = s /\ Tail(todo'[t]) = r
              /\ r # <<>> /\ Head(r) = u /\ Tail(r) = <<>>
          BY <2>3, <3>2, <4>1, TuplesOff
        <4> QED
          BY <2>9, <2>11, <2>12, <2>13, <3>2, <4>2, NowFilling
      <3> QED
        BY <3>1, <3>2
    <2> QED
      BY <1>5, <2>8, <2>14 DEF FilesNext
  <1> QED
    BY <1>6, <1>7

(* ... or changes. *)
LEMMA RowUpdated ==
    ASSUME NetIInv, RowsTyped, RowsApart, NEW t \in NetThreads, Stage(t), UpdateRow(t)
    PROVE  \E i \in LiveServers, z \in ServerRows :
             /\ i = Now(t).id /\ z.name = Now(t).new /\ servers' = [servers EXCEPT ![i] = z]
             /\ z.proxy = servers[i].proxy /\ z.port = servers[i].port
             /\ z.udp = servers[i].udp /\ z.domain = servers[i].domain
             /\ z.limbo = servers[i].limbo
  <1> DEFINE s == Now(t)
             i == s.id
             old == servers[i].name
  <1>1. Renaming(t)
    BY StageIs DEF UpdateRow, At
  <1>2. /\ Sequence(servers) /\ i \in LiveServers
        /\ s.new = old \/ (s.new \notin ServerNames \cup ProxyNames /\ old \notin Directories)
    BY <1>1, Threads DEF UpdateRow, Renaming
  <1>3. s.new \in NetNames /\ s.lines \in Lines \cup {NetNone}
    BY FirstAndOthers DEF UpdateRow, At, Now, NetIInv, StepsOK, StepOK
  <1> DEFINE line == IF s.lines = NetNone THEN servers[i].lines ELSE s.lines
  <1>4. PICK kept \in BOOLEAN :
          /\ kept => \E j \in LiveServers \ {i} : servers[j].name = s.new
          /\ servers' = [j \in DOMAIN servers |->
                  IF j # i \/ servers[j] = NetNone THEN servers[j]
                  ELSE [servers[j] EXCEPT
                          !.name = IF kept THEN servers[j].name ELSE s.new,
                          !.lines = IF s.lines = NetNone THEN servers[j].lines ELSE s.lines]]
    BY Zenon DEF UpdateRow, Refusals
  <1> DEFINE z == [servers[i] EXCEPT !.name = s.new, !.lines = line]
  <1>5. servers[i] \in ServerRows
    BY <1>2 DEF RowsTyped
  <1>6. kept => s.new = old
    <2>1. kept => s.new \in ServerNames
      BY <1>4 DEF ServerNames
    <2> QED
      BY <1>2, <2>1
  <1>7. servers' = [servers EXCEPT ![i] = z]
    <2>1. DOMAIN servers = 1 .. Len(servers) /\ servers = [j \in DOMAIN servers |-> servers[j]]
      BY <1>2, Sequences
    <2>2. i \in DOMAIN servers /\ servers[i] # NetNone
      BY <1>2 DEF LiveServers
    <2>3. (IF kept THEN servers[i].name ELSE s.new) = s.new
      BY <1>6
    <2>4. [servers[i] EXCEPT
                          !.name = IF kept THEN servers[i].name ELSE s.new,
                          !.lines = IF s.lines = NetNone THEN servers[i].lines ELSE s.lines] = z
      BY <2>3
    <2> DEFINE f(j) == [servers[j] EXCEPT
                          !.name = IF kept THEN servers[j].name ELSE s.new,
                          !.lines = IF s.lines = NetNone THEN servers[j].lines ELSE s.lines]
    <2>5. servers' = [j \in DOMAIN servers |-> IF j # i \/ servers[j] = NetNone THEN servers[j] ELSE f(j)]
      BY <1>4, Zenon
    <2>6. f(i) = z
      BY <2>4
    <2> HIDE DEF f, z, i
    <2>7. \A j \in DOMAIN servers : servers'[j] = IF j = i THEN z ELSE servers[j]
      BY <2>2, <2>5, <2>6
    <2>8. servers' = [j \in DOMAIN servers |-> servers'[j]]
      BY <2>5
    <2> QED
      BY <2>1, <2>7, <2>8
  <1>8. z \in ServerRows /\ z.name = s.new /\ z.proxy = servers[i].proxy /\ z.port = servers[i].port
        /\ z.udp = servers[i].udp /\ z.domain = servers[i].domain
        /\ z.limbo = servers[i].limbo
    <2>1. line \in Lines
      BY <1>3, <1>5 DEF ServerRows, Lines
    <2> HIDE DEF line, s
    <2> QED
      BY <1>3, <1>5, <2>1 DEF ServerRows, Lines
  <1> HIDE DEF z
  <1> QED
    BY <1>2, <1>7, <1>8

LEMMA UpdateRowFiles ==
    ASSUME NEW t \in NetThreads, FilesNow(t), UpdateRow(t)
    PROVE  FilesNext(t)
  <1>1. PICK i \in LiveServers, z \in ServerRows :
          /\ i = Now(t).id /\ z.name = Now(t).new /\ servers' = [servers EXCEPT ![i] = z]
          /\ z.proxy = servers[i].proxy /\ z.port = servers[i].port
          /\ z.udp = servers[i].udp /\ z.domain = servers[i].domain
          /\ z.limbo = servers[i].limbo
    BY RowUpdated DEF FilesNow
  <1>2. PICK r, p : r = Tail(todo[t]) /\ p = servers[i].proxy
    OBVIOUS
  <1>3. /\ todo[t] # <<>> /\ Head(todo[t]).do = "row" /\ DOMAIN todo = NetThreads
        /\ UNCHANGED <<proxies, dirs, users>> /\ todo'[t] = r
    BY <1>2, Threads DEF UpdateRow, At, FilesNow, Continue
  <1>4. ChangingRow(t) /\ Renaming(t)
    BY <1>3, FileStageIs, StageIs DEF FilesNow
  <1>5. /\ r # <<>> /\ KeptBut({i}) /\ KeptAt(i, z.name) /\ SyncedBut({})
        /\ \/ /\ Tail(r) = <<>> /\ ChangeStep(Head(r)) /\ Head(r).id = i
              /\ z.name # servers[i].name => Head(r).fields.name # NetNone
           \/ /\ Head(r).do = "udp" /\ z.name = servers[i].name
              /\ Tail(r) # <<>> /\ ChangeStep(Head(Tail(r))) /\ Tail(Tail(r)) = <<>>
              /\ Head(Tail(r)).fields.name = NetNone
    BY <1>1, <1>2, <1>4 DEF ChangingRow
  <1>6. z.name = servers[i].name \/ z.name \notin ServerNames
    BY <1>1, <1>4 DEF Renaming
  <1>7. DirsTyped' /\ \A n \in NetNames : DirStays(n)
    BY <1>3, DirsSame DEF FilesNow
  <1>8. /\ LiveServers' = LiveServers /\ LiveProxies' = LiveProxies /\ servers'[i] = z
        /\ \A j \in LiveServers \ {i} : servers'[j] = servers[j]
        /\ NamesApart' /\ KeptBut({i})' /\ SyncedBut({p})' /\ Homes'
    <2>1. SyncedBut({p}) /\ Homes
      BY <1>5, OneMore
    <2>2. \A q \in LiveProxies \ {p} : q \notin {servers[i].proxy, z.proxy}
      BY <1>1, <1>2
    <2>3. NetIInv /\ RowsTyped /\ RowsApart /\ NamesApart
      BY DEF FilesNow
    <2> QED
      BY <1>1, <1>3, <1>5, <1>6, <1>7, <2>1, <2>2, <2>3, OneRow
  <1>9. KeptBut({})'
    <2>1. /\ dirs'[z.name] # NetNone
          /\ z.proxy \in LiveProxies =>
               /\ ~dirs'[z.name].online
               /\ Follows(i) => dirs'[z.name].secret = z.proxy /\ dirs'[z.name].port = z.port
      BY <1>1, <1>3, <1>5 DEF KeptAt, Behind
    <2>2. Follows(i)' => Follows(i)
      BY <1>1, <1>3, <1>8 DEF Follows, Joins
    <2> QED
      BY <1>8, <2>1, <2>2, AllKept
  <1>10. z.name = servers[i].name => SyncedBut({})'
    <2> SUFFICES ASSUME z.name = servers[i].name PROVE SyncedBut({})'
      OBVIOUS
    <2>1. \A j \in LiveServers :
            /\ servers'[j].name = servers[j].name /\ servers'[j].proxy = servers[j].proxy
            /\ servers'[j].port = servers[j].port /\ servers'[j].domain = servers[j].domain
            /\ servers'[j].limbo = servers[j].limbo
      BY <1>1, <1>8
    <2>2. Still
      BY <1>3, <1>7, <1>8, <2>1 DEF Still
    <2> QED
      BY <1>5, <2>2, StillKept DEF FilesNow
  <1>11. ASSUME NEW s, ChangeStep(s) PROVE ChangeNext(s, s.id)
    <2>1. \A j \in LiveServers : servers'[j].proxy = servers[j].proxy
      BY <1>1, <1>8
    <2> QED
      BY <1>3, <1>8, <1>11, <2>1 DEF ChangeStep, ChangeNext, Mine, Joins
  <1>12. CASE /\ Tail(r) = <<>> /\ ChangeStep(Head(r)) /\ Head(r).id = i
              /\ z.name # servers[i].name => Head(r).fields.name # NetNone
    <2>1. PICK s : s = Head(r)
      OBVIOUS
    <2>2. ChangeNext(s, i) /\ s.do = "change" /\ s.cur.proxy = p
      BY <1>2, <1>11, <1>12, <2>1 DEF ChangeStep
    <2>3. s.fields.name = NetNone => SyncedBut({})'
      BY <1>10, <1>12, <2>1
    <2>4. FileStage(t)'
      BY <1>3, <1>5, <1>8, <1>9, <1>12, <2>1, <2>2, <2>3, NowChanging
    <2> QED
      BY <1>7, <1>8, <2>4 DEF FilesNext
  <1>13. CASE /\ Head(r).do = "udp" /\ z.name = servers[i].name
              /\ Tail(r) # <<>> /\ ChangeStep(Head(Tail(r))) /\ Tail(Tail(r)) = <<>>
              /\ Head(Tail(r)).fields.name = NetNone
    <2>1. PICK s, q, u, k : s = Head(r) /\ q = Tail(r) /\ u = Head(q) /\ k = u.id
      OBVIOUS
    <2>2. ChangeNext(u, k) /\ SyncedBut({})'
      BY <1>10, <1>11, <1>13, <2>1
    <2>3. /\ todo'[t] # <<>> /\ Head(todo'[t]) = s /\ Tail(todo'[t]) = q /\ s.do = "udp"
          /\ q # <<>> /\ Head(q) = u /\ Tail(q) = <<>> /\ u.fields.name = NetNone
      BY <1>3, <1>5, <1>13, <2>1
    <2>4. FileStage(t)'
      BY <1>8, <1>9, <2>2, <2>3, NowChanging
    <2> QED
      BY <1>7, <1>8, <2>4 DEF FilesNext
  <1> QED
    BY <1>5, <1>12, <1>13

(* Steps one after the other. *)
LEMMA Joined ==
    ASSUME NEW q, NEW r, Harmless(q), Harmless(r)
    PROVE  /\ \A x : (<<x>> \o q) \o r = <<x>> \o (q \o r)
           /\ \A x, y : (<<x, y>> \o q) \o r = <<x, y>> \o (q \o r)
           /\ \A x, y : /\ <<x, y>> \o q # <<>> /\ Head(<<x, y>> \o q) = x
                        /\ Tail(<<x, y>> \o q) = <<y>> \o q
  <1>1. PICK S : q \in Seq(S)
    BY DEF Harmless
  <1>2. PICK T : r \in Seq(T)
    BY DEF Harmless
  <1>3. ASSUME NEW x PROVE (<<x>> \o q) \o r = <<x>> \o (q \o r)
    <2> DEFINE A == S \cup T \cup {x}
    <2>1. q \in Seq(A) /\ r \in Seq(A) /\ <<x>> \in Seq(A)
      BY <1>1, <1>2
    <2> HIDE DEF A
    <2> QED
      BY <2>1, ConcatAssociative
  <1>4. ASSUME NEW x, NEW y
        PROVE  /\ (<<x, y>> \o q) \o r = <<x, y>> \o (q \o r)
               /\ <<x, y>> \o q # <<>> /\ Head(<<x, y>> \o q) = x
               /\ Tail(<<x, y>> \o q) = <<y>> \o q
    <2> DEFINE A == S \cup T \cup {x, y}
    <2>1. /\ q \in Seq(A) /\ r \in Seq(A) /\ <<x, y>> \in Seq(A) /\ <<x>> \in Seq(A)
          /\ <<y>> \in Seq(A)
      BY <1>1, <1>2
    <2> HIDE DEF A
    <2>2. (<<x, y>> \o q) \o r = <<x, y>> \o (q \o r)
      BY <2>1, ConcatAssociative
    <2>3. (<<x>> \o <<y>>) \o q = <<x>> \o (<<y>> \o q)
      BY <2>1, ConcatAssociative
    <2>4. <<x, y>> \o q = <<x>> \o (<<y>> \o q)
      BY <2>3, OneAndOne
    <2>5. <<y>> \o q \in Seq(A)
      BY <2>1
    <2> DEFINE u == <<y>> \o q
    <2> HIDE DEF u
    <2>6. u \in Seq(A)
      BY <2>5 DEF u
    <2>7. <<x>> \o u # <<>> /\ Head(<<x>> \o u) = x /\ Tail(<<x>> \o u) = u
      BY <2>6
    <2> QED
      BY <2>2, <2>4, <2>7 DEF u
  <1> QED
    BY <1>3, <1>4

(* The rest of a server's update. *)
LEMMA ChangeServerFiles ==
    ASSUME NEW t \in NetThreads, FilesNow(t), ChangeServer(t)
    PROVE  FilesNext(t)
  <1>0. PICK i, cur, f, at, has, pn :
          /\ i = Now(t).id /\ cur = Now(t).cur /\ f = Now(t).fields /\ at = Now(t).at
          /\ has = (i \in LiveServers /\ servers[i].lines # "null")
          /\ pn = ProxyName(f.proxy)
    OBVIOUS
  <1> DEFINE files(do, p) == [do |-> do, at |-> p, from |-> at, cur |-> cur, fields |-> f]
             proxied == cur.proxy # 0
             leave == IF proxied /\ has THEN <<files("unmotd", at)>> ELSE <<>>
             join == IF f.proxy \in LiveProxies /\ has
                     THEN <<files("moveMotd", pn)>> ELSE <<>>
             quit == [do |-> "leave", id |-> i]
             assign == [do |-> "assign", id |-> i, proxy |-> f.proxy]
             domain == [do |-> "domain", id |-> i, at |-> at, has |-> has,
                        name |-> cur.name, domain |-> f.domain]
             rename == files("renameMotd", at)
             lines == files("lines", at)
             sync == SyncStep(cur.proxy)
             x1 == CASE f.proxy = NetNone -> <<>>
                     [] f.proxy = 0 -> leave \o <<quit>>
                     [] OTHER -> join \o <<assign>>
             x2 == IF f.domain = NetNone THEN <<>> ELSE <<domain>>
             x3 == IF f.name # NetNone /\ has /\ proxied THEN <<rename>> ELSE <<>>
             x4 == IF f.name # NetNone /\ proxied THEN <<sync>> ELSE <<>>
             x5 == IF f.lines # NetNone /\ proxied THEN <<lines>> ELSE <<>>
  <1>1. /\ todo[t] # <<>> /\ Head(todo[t]).do = "change" /\ DOMAIN todo = NetThreads
        /\ UNCHANGED <<servers, proxies, dirs, users>> /\ 0 \notin LiveProxies
        /\ Now(t) = Head(todo[t])
    BY Threads, NoZero DEF ChangeServer, At, FilesNow, GoOn, rows, Now
  <1>2. Changing(t)
    BY <1>1, FileStageIs DEF FilesNow
  <1>3. /\ KeptBut({}) /\ Homes /\ ChangeStep(Now(t)) /\ Tail(todo[t]) = <<>>
        /\ IF f.name = NetNone THEN SyncedBut({}) ELSE SyncedBut({cur.proxy})
    BY <1>0, <1>1, <1>2 DEF Changing, At
  <1>4. todo'[t] = (x1 \o x2 \o x3 \o x4 \o x5) \o Tail(todo[t])
    BY <1>0, <1>1 DEF ChangeServer, GoOn
  <1>5. /\ cur.name \in NetNames /\ f.name \in NetNames \cup {NetNone}
        /\ f.name # NetNone => f.proxy = NetNone /\ f.domain = NetNone
        /\ f.proxy \notin {NetNone, 0} => Mine(i, f.proxy)
    BY <1>0, <1>3 DEF ChangeStep
  <1>6. /\ Harmless(leave) /\ Harmless(<<quit>>) /\ Harmless(x2) /\ Harmless(x3) /\ Harmless(x5)
        /\ f.name # NetNone => HarmlessStep(rename)
        /\ f.proxy \notin {NetNone, 0} => HarmlessStep(files("moveMotd", pn))
    <2>1. HarmlessStep(files("unmotd", at)) /\ HarmlessStep(quit) /\ HarmlessStep(domain)
          /\ HarmlessStep(lines)
      BY <1>5 DEF HarmlessStep
    <2>2. f.name # NetNone => HarmlessStep(rename)
      BY <1>5 DEF HarmlessStep
    <2>3. HarmlessStep(files("moveMotd", pn))
      BY <1>5 DEF HarmlessStep
    <2> HIDE DEF files, quit, domain, lines, rename, proxied
    <2> QED
      BY <2>1, <2>2, <2>3, HarmlessSteps
  <1>7. DirsTyped' /\ \A n \in NetNames : DirStays(n)
    BY <1>1, DirsSame DEF FilesNow
  <1>8. Still
    BY <1>1, <1>7, StillRows
  <1>9. NamesApart' /\ KeptBut({})' /\ Homes' /\ LiveProxies' = LiveProxies
    BY <1>3, <1>8, StillKept DEF FilesNow, Still
  <1>10. assign.do = "assign" /\ assign.id = i /\ assign.proxy = f.proxy
         /\ sync.do = "sync" /\ sync.proxy = cur.proxy /\ rename.do = "renameMotd"
    BY DEF SyncStep
  <1>11. files("moveMotd", pn).do = "moveMotd"
    OBVIOUS
  <1> HIDE DEF files, quit, assign, domain, rename, lines, sync
  <1>12. CASE f.name # NetNone
    <2>1. x1 = <<>> /\ x2 = <<>>
      BY <1>5, <1>12, NetAssumption
    <2>2. SyncedBut({cur.proxy})'
      BY <1>3, <1>8, <1>12, StillKept DEF FilesNow
    <2>3. Harmless(<<>>)
      BY HarmlessSteps
    <2>4. (x1 \o x2) \o x3 = x3
      <3>1. Harmless(x3)
        BY <1>6
      <3> HIDE DEF x1, x2, x3, x4, x5
      <3>2. <<>> \o <<>> = <<>> /\ <<>> \o x3 = x3
        BY <2>3, <3>1, EmptyAround
      <3> QED
        BY <2>1, <3>2
    <2>5. todo'[t] = ((x3 \o x4) \o x5) \o <<>>
      <3> HIDE DEF x1, x2, x3, x4, x5
      <3> QED
        BY <1>3, <1>4, <2>4
    <2>6. CASE ~proxied
      <3>1. x3 = <<>> /\ x4 = <<>>
        BY <2>6
      <3>2. Harmless(x5) /\ Harmless(x3) /\ Harmless(x4)
        BY <1>6, <2>3, <3>1
      <3> HIDE DEF x3, x4, x5, x1, x2
      <3>3. Harmless(todo'[t])
        BY <2>3, <2>5, <3>2, HarmlessSteps
      <3>4. SyncedBut({})'
        BY <1>1, <1>9, <2>2, <2>6, OneMoreNext
      <3>5. FileStage(t)'
        BY <1>9, <3>3, <3>4, NowResting
      <3> QED
        BY <1>7, <1>9, <3>5 DEF FilesNext
    <2>7. CASE proxied /\ has
      <3>1. x3 = <<rename>> /\ x4 = <<sync>>
        BY <1>12, <2>7
      <3>2. Harmless(x5) /\ HarmlessStep(rename)
        BY <1>6, <1>12
      <3> HIDE DEF x1, x2, x3, x4, x5, proxied
      <3>3. x3 \o x4 = <<rename, sync>>
        BY <3>1, OneAndOne
      <3>4. x5 \o <<>> = x5
        BY <3>2, EmptyAround
      <3>5. todo'[t] = <<rename, sync>> \o x5
        BY <2>3, <2>5, <3>2, <3>3, <3>4, Joined
      <3>6. /\ todo'[t] # <<>> /\ Head(todo'[t]) = rename /\ Tail(todo'[t]) = <<sync>> \o x5
        BY <3>2, <3>5, Joined
      <3>7. /\ <<sync>> \o x5 # <<>> /\ Head(<<sync>> \o x5) = sync /\ Tail(<<sync>> \o x5) = x5
        BY <3>2, HarmlessAfter
      <3>8. FileStage(t)'
        BY <1>9, <1>10, <2>2, <3>2, <3>6, <3>7, NowSyncing
      <3> QED
        BY <1>7, <1>9, <3>8 DEF FilesNext
    <2>8. CASE proxied /\ ~has
      <3>1. x3 = <<>> /\ x4 = <<sync>>
        BY <1>12, <2>8
      <3>2. Harmless(x5)
        BY <1>6
      <3> HIDE DEF x1, x2, x3, x4, x5, proxied
      <3>3. x3 \o x4 = <<sync>>
        BY <3>1, OneAndOne
      <3>4. x5 \o <<>> = x5
        BY <3>2, EmptyAround
      <3>5. todo'[t] = <<sync>> \o x5
        BY <2>3, <2>5, <3>2, <3>3, <3>4, Joined
      <3>6. /\ todo'[t] # <<>> /\ Head(todo'[t]) = sync /\ Tail(todo'[t]) = x5
        BY <3>2, <3>5, HarmlessAfter
      <3>7. FileStage(t)'
        BY <1>9, <1>10, <2>2, <3>2, <3>6, NowSyncing
      <3> QED
        BY <1>7, <1>9, <3>7 DEF FilesNext
    <2> QED
      BY <2>6, <2>7, <2>8
  <1>13. CASE f.name = NetNone
    <2>1. x3 = <<>> /\ x4 = <<>>
      BY <1>13
    <2>2. SyncedBut({})'
      BY <1>3, <1>8, <1>13, StillKept DEF FilesNow
    <2>3. Harmless(<<>>) /\ Harmless(x2) /\ Harmless(x5)
      BY <1>6, HarmlessSteps
    <2>4. todo'[t] = ((((x1 \o x2) \o <<>>) \o <<>>) \o x5) \o <<>>
      BY <1>3, <1>4, <2>1
    <2>5. CASE f.proxy \in {NetNone, 0}
      <3>1. x1 = <<>> \/ x1 = leave \o <<quit>>
        BY <2>5
      <3>2. Harmless(leave) /\ Harmless(<<quit>>)
        BY <1>6
      <3> HIDE DEF x1, x2, x3, x4, x5, leave
      <3>3. Harmless(x1)
        BY <2>3, <3>1, <3>2, HarmlessSteps
      <3>4. Harmless(todo'[t])
        BY <2>3, <2>4, <3>3, HarmlessSteps
      <3>5. FileStage(t)'
        BY <1>9, <2>2, <3>4, NowResting
      <3> QED
        BY <1>7, <1>9, <3>5 DEF FilesNext
    <2>6. CASE f.proxy \notin {NetNone, 0}
      <3>1. PICK k, p, m : k = i /\ p = f.proxy /\ m = files("moveMotd", pn)
        OBVIOUS
      <3>2. x1 = join \o <<assign>>
        BY <2>6
      <3>3. join = <<>> \/ join = <<m>>
        BY <3>1
      <3>4. Mine(k, p)' /\ HarmlessStep(m) /\ m.do = "moveMotd"
        BY <1>5, <1>6, <1>8, <1>11, <2>6, <3>1, StillKept DEF FilesNow
      <3>5. assign.do = "assign" /\ assign.id = k /\ assign.proxy = p
        BY <1>10, <3>1
      <3> HIDE DEF x1, x2, x3, x4, x5, join
      <3>6. x1 = <<assign>> \/ x1 = <<m, assign>>
        BY <3>2, <3>3, OneAndOne
      <3>7. PICK q : q = x2 \o x5
        OBVIOUS
      <3>8. Harmless(q)
        BY <2>3, <3>7, HarmlessSteps
      <3>9. /\ x2 \o <<>> = x2 /\ q \o <<>> = q
        BY <2>3, <3>8, EmptyAround
      <3>10. CASE x1 = <<assign>>
        <4>1. (x1 \o x2) \o <<>> = x1 \o x2
          BY <2>3, <3>9, <3>10, Joined
        <4>2. (x1 \o x2) \o x5 = x1 \o q
          BY <2>3, <3>7, <3>10, Joined
        <4>3. (x1 \o q) \o <<>> = x1 \o q
          BY <2>3, <3>8, <3>9, <3>10, Joined
        <4>4. todo'[t] = <<assign>> \o q
          BY <2>4, <3>10, <4>1, <4>2, <4>3
        <4>5. todo'[t] # <<>> /\ Head(todo'[t]) = assign /\ Tail(todo'[t]) = q
          BY <3>8, <4>4, HarmlessAfter
        <4>6. FileStage(t)'
          BY <1>9, <2>2, <3>4, <3>5, <3>8, <4>5, NowAssigning
        <4> QED
          BY <1>7, <1>9, <4>6 DEF FilesNext
      <3>11. CASE x1 = <<m, assign>>
        <4>1. (x1 \o x2) \o <<>> = x1 \o x2
          BY <2>3, <3>9, <3>11, Joined
        <4>2. (x1 \o x2) \o x5 = x1 \o q
          BY <2>3, <3>7, <3>11, Joined
        <4>3. (x1 \o q) \o <<>> = x1 \o q
          BY <2>3, <3>8, <3>9, <3>11, Joined
        <4>4. todo'[t] = <<m, assign>> \o q
          BY <2>4, <3>11, <4>1, <4>2, <4>3
        <4>5. todo'[t] # <<>> /\ Head(todo'[t]) = m /\ Tail(todo'[t]) = <<assign>> \o q
          BY <2>3, <3>8, <4>4, Joined
        <4>6. /\ <<assign>> \o q # <<>> /\ Head(<<assign>> \o q) = assign
              /\ Tail(<<assign>> \o q) = q
          BY <3>8, HarmlessAfter
        <4>7. FileStage(t)'
          BY <1>9, <2>2, <3>4, <3>5, <3>8, <4>5, <4>6, NowAssigning
        <4> QED
          BY <1>7, <1>9, <4>7 DEF FilesNext
      <3> QED
        BY <3>6, <3>10, <3>11
    <2> QED
      BY <2>5, <2>6
  <1> QED
    BY <1>12, <1>13

(* A new proxy: its row, ... *)
LEMMA InsertProxyFiles ==
    ASSUME NEW t \in NetThreads, FilesNow(t), InsertProxy(t)
    PROVE  FilesNext(t)
  <1>1. PICK m, p : m = Now(t).name /\ p = Len(proxies) + 1
    OBVIOUS
  <1>2. PICK z, s : /\ z = [name |-> m, port |-> Now(t).port, udp |-> 0, run |-> FALSE]
                    /\ s = [do |-> "proxyFiles", id |-> p, name |-> m]
    OBVIOUS
  <1>3. /\ todo[t] # <<>> /\ Head(todo[t]).do = "insertProxy" /\ DOMAIN todo = NetThreads
        /\ UNCHANGED <<servers, dirs, users>> /\ Sequence(proxies)
    BY Threads DEF InsertProxy, At, FilesNow, GoOn, Abort
  <1>4. Founding(t) /\ InsertingProxy(t)
    BY <1>3, FileStageIs, StageIs DEF FilesNow
  <1>5. Tail(todo[t]) = <<>> /\ KeptBut({}) /\ SyncedBut({})
    BY <1>3, <1>4 DEF Founding, At
  <1>6. m \in NetNames /\ m \notin ProxyNames /\ z \in ProxyRows /\ z.name = m
    BY <1>1, <1>2, <1>4 DEF InsertingProxy, ProxyRows
  <1>7. DirsTyped' /\ \A n \in NetNames : DirStays(n)
    BY <1>3, DirsSame DEF FilesNow
  <1>8. CASE Abort(t) /\ UNCHANGED proxies
    <2>1. todo'[t] = <<>>
      BY <1>3, <1>8 DEF Abort
    <2>2. NamesApart' /\ KeptBut({})' /\ SyncedBut({})'
      BY <1>3, <1>5, <1>7, <1>8, StillRows, StillKept DEF FilesNow
    <2>3. FileStage(t)'
      BY <2>1, <2>2, HarmlessSteps, NowResting
    <2> QED
      BY <1>7, <2>2, <2>3 DEF FilesNext
  <1>9. CASE ~(Abort(t) /\ UNCHANGED proxies)
    <2>1. proxies' = Append(proxies, z) /\ todo'[t] = <<s>> \o <<>>
      BY <1>1, <1>2, <1>3, <1>5, <1>9 DEF InsertProxy, GoOn
    <2>2. z # NetNone
      BY <1>6, NetRowAssumption
    <2>3. /\ LiveProxies' = LiveProxies \cup {p} /\ p \notin LiveProxies
          /\ proxies'[p] = z /\ \A q \in LiveProxies : proxies'[q] = proxies[q]
      BY <1>1, <1>3, <2>1, <2>2, ProxyPut
    <2>4. LiveServers' = LiveServers /\ \A j : servers'[j] = servers[j]
      BY <1>3, SameServers
    <2>5. \A j \in LiveServers : servers[j].proxy # p
      <3>1. Len(proxies) \in Nat
        BY <1>3, Sequences
      <3>2. \A j \in LiveServers : servers[j].proxy \in 0 .. Len(proxies)
        BY DEF FilesNow, NetIInv, ServersOK, ServerRowOK, LiveServers
      <3> QED
        BY <1>1, <3>1, <3>2
    <2>6. /\ \A j \in LiveServers : servers[j].name \in NetNames
          /\ \A q \in LiveProxies : proxies[q].name \in NetNames
      BY NamesTyped DEF FilesNow
    <2>7. NamesApart'
      <3>1. NamesApart /\ \A q \in LiveProxies : proxies[q].name # z.name
        BY <1>6 DEF FilesNow, ProxyNames
      <3> QED
        BY <2>3, <2>4, <3>1 DEF NamesApart
    <2>8. KeptBut({})'
      <3>1. \A j \in LiveServers' \ {} :
              /\ j \in LiveServers \ {} /\ servers'[j].name = servers[j].name
              /\ servers'[j].proxy = servers[j].proxy /\ servers'[j].port = servers[j].port
              /\ servers'[j].limbo = servers[j].limbo
              /\ servers[j].proxy \in LiveProxies' => servers[j].proxy \in LiveProxies
              /\ DirStays(servers[j].name)
        BY <1>7, <2>3, <2>4, <2>5, <2>6
      <3> QED
        BY <1>3, <1>5, <3>1, ServersKeep
    <2>9. ASSUME NEW q PROVE VelocityOf(q)' = VelocityOf(q)
      <3>1. Members(q)' = Members(q)
        BY <2>4, MembersStay
      <3> QED
        BY <2>4, <3>1, VelocityStays
    <2>10. SyncedBut({p})'
      <3>1. \A q \in LiveProxies' \ {p} :
              /\ q \in LiveProxies \ {} /\ proxies'[q].name = proxies[q].name
              /\ DirStays(proxies[q].name)
              /\ "move" \notin users.ops => VelocityOf(q)' = VelocityOf(q)
        BY <1>7, <2>3, <2>6, <2>9
      <3> QED
        BY <1>3, <1>5, <3>1, ProxiesKeep
    <2>11. Members(p)' = {}
      BY <2>4, <2>5 DEF Members
    <2>12. todo'[t] # <<>> /\ Head(todo'[t]) = s /\ Tail(todo'[t]) = <<>>
      BY <2>1, NothingAfter, TuplesOff
    <2>13. s.do = "proxyFiles" /\ s.id = p /\ s.name = proxies'[p].name /\ p \in LiveProxies'
      BY <1>2, <1>6, <2>3
    <2>14. FileStage(t)'
      BY <2>8, <2>10, <2>11, <2>12, <2>13, NowFounding
    <2> QED
      BY <1>7, <2>7, <2>14 DEF FilesNext
  <1> QED
    BY <1>8, <1>9

(* ... its files, without a server, ... *)
LEMMA ProxyFilesFiles ==
    ASSUME NEW t \in NetThreads, FilesNow(t), ProxyFiles(t)
    PROVE  FilesNext(t)
  <1>1. PICK n, p : n = Now(t).name /\ p = Now(t).id
    OBVIOUS
  <1>2. /\ todo[t] # <<>> /\ Head(todo[t]).do = "proxyFiles" /\ DOMAIN todo = NetThreads
        /\ DOMAIN dirs = NetNames /\ Sequence(proxies)
    BY Threads DEF ProxyFiles, At, FilesNow, NetIInv, RestOK
  <1>3. Founding(t)
    BY <1>2, FileStageIs DEF FilesNow
  <1>4. /\ Tail(todo[t]) = <<>> /\ KeptBut({}) /\ SyncedBut({p})
        /\ p \in LiveProxies /\ n = proxies[p].name /\ Members(p) = {}
    BY <1>1, <1>2, <1>3 DEF Founding, At
  <1> DEFINE empty == [servers |-> {}, try |-> NetNone, hosts |-> NoFiles]
  <1>5. VelocityOf(p) = empty
    <2>1. PICK ms : ms = MemberRows(p)
      OBVIOUS
    <2>2. DOMAIN ms = {}
      BY <1>4, <2>1 DEF MemberRows
    <2>3. VelocityFile(ms) = empty
      <3> DEFINE named(d) == {i \in DOMAIN ms : ms[i].domain = d}
                 hosts == [d \in {d \in NetDomains : named(d) # {}} |-> ms[Max(named(d))].name]
      <3>1. \A d : named(d) = {}
        BY <2>2
      <3>2. {d \in NetDomains : named(d) # {}} = {}
        BY <3>1
      <3>3. hosts = NoFiles
        BY <3>2 DEF NoFiles
      <3>4. {<<ms[i].name, ms[i].port>> : i \in DOMAIN ms} = {}
        BY <2>2
      <3>5. VelocityFile(ms) = [servers |-> {<<ms[i].name, ms[i].port>> : i \in DOMAIN ms},
                 try |-> IF DOMAIN ms = {} THEN NetNone ELSE ms[Min(DOMAIN ms)].name,
                 hosts |-> hosts]
        BY DEF VelocityFile
      <3> HIDE DEF hosts
      <3> QED
        BY <2>2, <3>3, <3>4, <3>5
    <2> QED
      BY <2>1, <2>3 DEF VelocityOf
  <1>6. PICK v, d, e : /\ v = VelocityOf(p) /\ d = Made(dirs[n])
                       /\ e = [d EXCEPT !.secret = p, !.toml = v]
    OBVIOUS
  <1>7. /\ dirs' = [dirs EXCEPT ![n] = e] /\ todo'[t] = <<>>
        /\ UNCHANGED <<servers, proxies, users>>
    BY <1>1, <1>2, <1>4, <1>5, <1>6 DEF ProxyFiles, Continue, FilesNow, rows
  <1> HIDE DEF empty
  <1>8. n \in NetNames /\ p \in Nat
    BY <1>2, <1>4, NamesTyped, Sequences DEF FilesNow, LiveProxies
  <1>9. e \in DirRecords /\ e.toml = v
    <2>1. v \in VelocityFiles
      BY <1>6, VelocityTyped DEF FilesNow
    <2>2. d \in DirRecords
      <3>1. dirs[n] = NetNone \/ dirs[n] \in DirRecords
        BY <1>8 DEF FilesNow, DirsTyped
      <3> QED
        BY <1>6, <3>1, MadeTyped
    <2> QED
      BY <1>6, <1>8, <2>1, <2>2 DEF DirRecords
  <1>10. /\ DirsTyped' /\ dirs'[n] = e
         /\ \A x \in NetNames : x # n => dirs'[x] = dirs[x] /\ DirStays(x)
    <2>1. DirsTyped
      BY DEF FilesNow
    <2> QED
      BY <1>2, <1>7, <1>8, <1>9, <2>1, OneDir
  <1>11. /\ \A i \in LiveServers : DirStays(servers[i].name)
         /\ \A q \in LiveProxies \ {p} : DirStays(proxies[q].name)
    BY <1>4, <1>10, NamesAway, NamesTyped DEF FilesNow, NamesApart
  <1>12. NamesApart' /\ KeptBut({})' /\ SyncedBut({p})' /\ VelocityOf(p)' = VelocityOf(p)
    BY <1>4, <1>7, <1>11, RowsSame DEF FilesNow
  <1>13. e # NetNone
    BY <1>9, NetDirAssumption
  <1>14. SyncedBut({})'
    BY <1>4, <1>6, <1>7, <1>9, <1>10, <1>12, <1>13, AllSynced
  <1>15. FileStage(t)'
    BY <1>7, <1>12, <1>14, HarmlessSteps, NowResting
  <1> QED
    BY <1>10, <1>12, <1>15 DEF FilesNext

(* ... and its new name. *)
LEMMA ProxyRowFiles ==
    ASSUME NEW t \in NetThreads, FilesNow(t), ProxyRow(t)
    PROVE  FilesNext(t)
  <1>1. PICK n, p, old : n = Now(t).name /\ p = Now(t).id /\ old = proxies[p].name
    OBVIOUS
  <1>2. /\ todo[t] # <<>> /\ Head(todo[t]).do = "proxyRow" /\ DOMAIN todo = NetThreads
        /\ Sequence(proxies) /\ UNCHANGED <<servers, dirs, users>> /\ todo'[t] = Tail(todo[t])
    BY Threads DEF ProxyRow, At, FilesNow, Continue
  <1>3. Founding(t) /\ RenamingProxy(t)
    BY <1>2, FileStageIs, StageIs DEF FilesNow
  <1>4. /\ Tail(todo[t]) = <<>> /\ KeptBut({}) /\ SyncedBut({p}) /\ p \in LiveProxies
        /\ SyncedAt(p, n)
    BY <1>1, <1>2, <1>3 DEF Founding, At
  <1>5. n = old \/ n \notin ProxyNames
    BY <1>1, <1>3 DEF RenamingProxy
  <1>6. n \in NetNames
    BY <1>1, FirstAndOthers DEF ProxyRow, At, Now, NetIInv, StepsOK, StepOK, FilesNow
  <1>7. PICK refused \in BOOLEAN :
          /\ refused => \E q \in LiveProxies \ {p} : proxies[q].name = n
          /\ proxies' = IF p \in LiveProxies /\ ~refused
                        THEN [proxies EXCEPT ![p].name = n] ELSE proxies
    BY <1>1 DEF ProxyRow, Refusals
  <1> DEFINE z == [proxies[p] EXCEPT !.name = n]
  <1>8. z \in ProxyRows /\ z.name = n
    BY <1>4, <1>6 DEF FilesNow, RowsTyped, ProxyRows
  <1>9. proxies' = [proxies EXCEPT ![p] = z] \/ (n = old /\ proxies' = proxies)
    <2>1. CASE refused
      <3>1. n \in ProxyNames
        BY <1>7, <2>1 DEF ProxyNames
      <3> QED
        BY <1>5, <1>7, <2>1, <3>1
    <2>2. CASE ~refused
      BY <1>4, <1>7, <2>2
    <2> QED
      BY <2>1, <2>2
  <1> HIDE DEF z
  <1>10. z # NetNone
    BY <1>8, NetRowAssumption
  <1>11. /\ LiveProxies' = LiveProxies /\ proxies'[p].name = n
         /\ \A q \in LiveProxies \ {p} : proxies'[q] = proxies[q]
    BY <1>1, <1>2, <1>4, <1>8, <1>9, <1>10, ProxySet, SameProxies, ZenonT(60)
  <1>12. LiveServers' = LiveServers /\ \A j : servers'[j] = servers[j]
    BY <1>2, SameServers
  <1>13. DirsTyped' /\ \A x \in NetNames : DirStays(x)
    BY <1>2, DirsSame DEF FilesNow
  <1>14. /\ \A j \in LiveServers : servers[j].name \in NetNames
         /\ \A q \in LiveProxies : proxies[q].name \in NetNames
    BY NamesTyped DEF FilesNow
  <1>15. NamesApart'
    <2>1. NamesApart
      BY DEF FilesNow
    <2>2. \A q \in LiveProxies \ {p} : proxies[q].name # n
      BY <1>1, <1>4, <1>5, <2>1 DEF NamesApart, ProxyNames
    <2> QED
      BY <1>4, <1>11, <1>12, <2>1, <2>2 DEF NamesApart
  <1>16. KeptBut({})'
    <2>1. \A j \in LiveServers' \ {} :
            /\ j \in LiveServers \ {} /\ servers'[j].name = servers[j].name
            /\ servers'[j].proxy = servers[j].proxy /\ servers'[j].port = servers[j].port
            /\ servers'[j].limbo = servers[j].limbo
            /\ servers[j].proxy \in LiveProxies' => servers[j].proxy \in LiveProxies
            /\ DirStays(servers[j].name)
      BY <1>11, <1>12, <1>13, <1>14
    <2> QED
      BY <1>2, <1>4, <2>1, ServersKeep
  <1>17. \A q : VelocityOf(q)' = VelocityOf(q)
    <2>1. ASSUME NEW q PROVE VelocityOf(q)' = VelocityOf(q)
      <3>1. Members(q)' = Members(q)
        BY <1>12, MembersStay
      <3> QED
        BY <1>12, <3>1, VelocityStays
    <2> QED
      BY <2>1
  <1>18. SyncedBut({p})'
    <2>1. \A q \in LiveProxies' \ {p} :
            /\ q \in LiveProxies \ {p} /\ proxies'[q].name = proxies[q].name
            /\ DirStays(proxies[q].name)
            /\ "move" \notin users.ops => VelocityOf(q)' = VelocityOf(q)
      BY <1>11, <1>13, <1>14, <1>17
    <2> QED
      BY <1>2, <1>4, <2>1, ProxiesKeep
  <1>19. SyncedBut({})'
    <2>1. /\ dirs'[n] # NetNone
          /\ "move" \notin users'.ops => dirs'[n].toml = VelocityOf(p)'
      BY <1>2, <1>4, <1>17 DEF SyncedAt
    <2> QED
      BY <1>11, <1>18, <2>1, AllSynced
  <1>20. FileStage(t)'
    BY <1>2, <1>4, <1>16, <1>19, HarmlessSteps, NowResting
  <1> QED
    BY <1>13, <1>15, <1>20 DEF FilesNext

(* A request finds everything right. *)
LEMMA FilesRequested ==
    ASSUME NEW t \in NetThreads, FilesNow(t), NEW kind, NEW q, Begin(t, kind, q)
    PROVE  /\ KeptBut({}) /\ SyncedBut({}) /\ Homes /\ todo'[t] = q /\ UNCHANGED users
           /\ kind \in users.ops
  <1>1. todo[t] = <<>> /\ todo'[t] = q /\ UNCHANGED users
    BY Requested DEF FilesNow, NetIInv
  <1>2. KeptBut({}) /\ SyncedBut({})
    BY <1>1, FileStageSettles DEF FilesNow, Resting
  <1> QED
    BY <1>1, <1>2, OneMore DEF Begin

LEMMA FilesUntouched ==
    ASSUME NEW t \in NetThreads, FilesNow(t), NEW kind, NEW q, Begin(t, kind, q),
           UNCHANGED <<servers, proxies, dirs>>
    PROVE  /\ DirsTyped' /\ NamesApart' /\ KeptBut({})' /\ SyncedBut({})' /\ todo'[t] = q
           /\ LiveServers' = LiveServers /\ LiveProxies' = LiveProxies
  <1>1. KeptBut({}) /\ SyncedBut({}) /\ todo'[t] = q /\ UNCHANGED users
    BY FilesRequested
  <1>2. DirsTyped' /\ \A n \in NetNames : DirStays(n)
    BY DirsSame DEF FilesNow
  <1>3. Still
    BY <1>1, <1>2, StillRows
  <1> QED
    BY <1>1, <1>2, <1>3, StillKept DEF FilesNow, Still

LEMMA CreateServerFiles ==
    ASSUME NEW t \in NetThreads, FilesNow(t), CreateServer(t)
    PROVE  FilesNext(t)
  <1>1. UNCHANGED <<servers, proxies, dirs>>
    BY DEF CreateServer, rows
  <1>2. PICK row : Begin(t, "create", <<[do |-> "insert", row |-> row]>>)
    BY DEF CreateServer
  <1>3. PICK s : s = [do |-> "insert", row |-> row]
    OBVIOUS
  <1>4. Begin(t, "create", <<s>>)
    BY <1>2, <1>3
  <1>5. DirsTyped' /\ NamesApart' /\ KeptBut({})' /\ SyncedBut({})' /\ todo'[t] = <<s>>
    BY <1>1, <1>4, FilesUntouched
  <1>6. todo'[t] # <<>> /\ Head(todo'[t]) = s /\ Tail(todo'[t]) = <<>>
    BY <1>5, TuplesOff
  <1>7. Head(todo'[t]).do = "insert"
    BY <1>3, <1>6
  <1>8. FileStage(t)'
    BY <1>5, <1>6, <1>7, NowEntering
  <1> QED
    BY <1>5, <1>8 DEF FilesNext

LEMMA DeleteServerFiles ==
    ASSUME NEW t \in NetThreads, FilesNow(t), DeleteServer(t)
    PROVE  FilesNext(t)
  <1>1. UNCHANGED <<servers, proxies, dirs>>
    BY DEF DeleteServer, rows
  <1>2. PICK i \in LiveServers :
          Begin(t, "delete",
              <<[do |-> "rmdir", name |-> servers[i].name],
                [do |-> "deleteServer", id |-> i]>> \o
              IF servers[i].proxy = 0 THEN <<>>
              ELSE <<SyncStep(servers[i].proxy),
                     [do |-> "forget", name |-> servers[i].name, proxy |-> servers[i].proxy]>>)
    BY DEF DeleteServer
  <1>3. PICK n, p : n = servers[i].name /\ p = servers[i].proxy
    OBVIOUS
  <1>4. PICK s, u, x, y : /\ s = [do |-> "rmdir", name |-> n] /\ u = [do |-> "deleteServer", id |-> i]
                          /\ x = SyncStep(p) /\ y = [do |-> "forget", name |-> n, proxy |-> p]
    OBVIOUS
  <1>5. PICK r : r = IF p = 0 THEN <<>> ELSE <<x, y>>
    OBVIOUS
  <1>6. Begin(t, "delete", <<s, u>> \o r)
    BY <1>2, <1>3, <1>4, <1>5
  <1>7. n \in NetNames
    BY <1>3, NamesTyped DEF FilesNow
  <1>8. Plain(r, {}, ProxyNames)
    <2>1. PlainStep(x, {}, ProxyNames) /\ PlainStep(y, {}, ProxyNames)
      BY <1>4 DEF PlainStep, Turning, SyncStep
    <2> QED
      BY <1>5, <2>1, PlainSteps
  <1>9. Owed(r, p)
    <2>1. Harmless(<<y>>)
      <3>1. HarmlessStep(y)
        BY <1>4, <1>7 DEF HarmlessStep
      <3> QED
        BY <3>1, HarmlessSteps
    <2>2. x.do = "sync" /\ x.proxy = p
      BY <1>4 DEF SyncStep
    <2>3. CASE p = 0
      BY <1>5, <2>3 DEF Owed
    <2>4. CASE p # 0
      <3>1. r # <<>> /\ Head(r) = x /\ Tail(r) = <<y>>
        BY <1>5, <2>4, TuplesOff
      <3> QED
        BY <2>1, <2>2, <3>1 DEF Owed
    <2> QED
      BY <2>3, <2>4
  <1>10. /\ DirsTyped' /\ NamesApart' /\ KeptBut({})' /\ SyncedBut({})' /\ LiveServers' = LiveServers
         /\ todo'[t] = <<s, u>> \o r
    BY <1>1, <1>6, FilesUntouched
  <1>11. PICK q : q = Tail(todo'[t])
    OBVIOUS
  <1>12. /\ todo'[t] # <<>> /\ Head(todo'[t]) = s /\ q # <<>> /\ Head(q) = u /\ Tail(q) = r
    <2>1. todo'[t] = <<s, u>> \o r
      BY <1>10
    <2>2. /\ todo'[t] # <<>> /\ Head(todo'[t]) = s /\ Tail(todo'[t]) # <<>>
          /\ Head(Tail(todo'[t])) = u /\ Tail(Tail(todo'[t])) = r
      BY <1>8, <2>1, BeforeTwo
    <2> QED
      BY <1>11, <2>2
  <1>13. /\ s.do = "rmdir" /\ u.do = "deleteServer" /\ u.id = i /\ s.name = servers'[i].name
         /\ i \in LiveServers' /\ p = servers'[i].proxy
    BY <1>1, <1>3, <1>4, <1>10
  <1>14. FileStage(t)'
    BY <1>9, <1>10, <1>11, <1>12, <1>13, NowGoing
  <1> QED
    BY <1>10, <1>14 DEF FilesNext

(* A directory moves, if it does. *)
LEMMA MovedFiles ==
    ASSUME DirsTyped, DOMAIN dirs = NetNames, NEW o \in NetNames, NEW n \in NetNames,
           dirs[o] # NetNone, MoveDir(o, n)
    PROVE  /\ DirsTyped' /\ dirs'[n] = dirs[o]
           /\ \A x \in NetNames : x # o => DirStays(x)
  <1>1. CASE o = n
    <2>1. UNCHANGED dirs
      BY <1>1 DEF MoveDir
    <2> QED
      BY <1>1, <2>1, DirsSame
  <1>2. CASE o # n
    <2>1. dirs[n] = NetNone /\ dirs' = [dirs EXCEPT ![n] = dirs[o], ![o] = NetNone]
      BY <1>2 DEF MoveDir
    <2>2. /\ dirs'[n] = dirs[o] /\ dirs'[o] = NetNone
          /\ \A x \in NetNames : x # o /\ x # n => dirs'[x] = dirs[x]
      BY <1>2, <2>1
    <2>3. \A x \in NetNames : dirs[x] # NetNone => Fit(dirs[x], dirs[x])
      BY FieldFits DEF DirsTyped
    <2>4. \A x \in NetNames : x # o => DirStays(x)
      BY <2>1, <2>2, <2>3 DEF DirStays
    <2>5. DirsTyped'
      BY <2>2 DEF DirsTyped
    <2> QED
      BY <2>2, <2>4, <2>5
  <1> QED
    BY <1>1, <1>2

(* What an update asks for. *)
FieldsFit(f, i) ==
    /\ f.name \in NetNames \cup {NetNone}
    /\ f.name # NetNone => f.proxy = NetNone /\ f.domain = NetNone /\ f.udp = NetNone
    /\ f.proxy \notin {NetNone, 0} =>
        Joins /\ ("move" \notin users.ops => servers[i].proxy \in {0, f.proxy})

LEMMA UpdateServerFiles ==
    ASSUME NEW t \in NetThreads, FilesNow(t), NEW kind, NEW f, NEW i \in LiveServers,
           UpdateServer(t, kind, f, i), FieldsFit(f, i)
    PROVE  FilesNext(t)
  <1>1. PICK cur, n, at : /\ cur = servers[i] /\ n = (IF f.name = NetNone THEN cur.name ELSE f.name)
                          /\ at = ProxyName(cur.proxy)
    OBVIOUS
  <1>2. PICK s, u, v : /\ s = [do |-> "row", id |-> i, new |-> n, lines |-> f.lines]
                       /\ u = [do |-> "udp", server |-> i, proxy |-> 0, port |-> f.udp]
                       /\ v = [do |-> "change", id |-> i, cur |-> cur, fields |-> f, at |-> at]
    OBVIOUS
  <1>3. PICK q : q = IF f.udp = NetNone THEN <<>> ELSE <<u>>
    OBVIOUS
  <1>4. /\ Begin(t, kind, <<s>> \o q \o <<v>>) /\ MoveDir(cur.name, n)
        /\ UNCHANGED <<servers, proxies>>
    BY <1>1, <1>2, <1>3, Zenon DEF UpdateServer, rows
  <1>5. /\ KeptBut({}) /\ SyncedBut({}) /\ Homes /\ UNCHANGED users
        /\ todo'[t] = <<s>> \o q \o <<v>>
    BY <1>4, FilesRequested
  <1>6. cur.name \in NetNames /\ n \in NetNames
    <2>1. cur.name \in NetNames
      BY <1>1, NamesTyped DEF FilesNow
    <2> QED
      BY <1>1, <2>1 DEF FieldsFit
  <1>7. dirs[cur.name] # NetNone /\ KeptAt(i, cur.name)
    BY <1>1, <1>5 DEF KeptBut, KeptAt
  <1>8. /\ DirsTyped' /\ dirs'[n] = dirs[cur.name]
        /\ \A x \in NetNames : x # servers[i].name => DirStays(x)
    <2>1. DirsTyped /\ DOMAIN dirs = NetNames
      BY DEF FilesNow, NetIInv, RestOK
    <2> QED
      BY <1>1, <1>4, <1>6, <1>7, <2>1, MovedFiles
  <1>9. KeptBut({i})
    BY <1>5, OneMore
  <1>10. /\ NamesApart' /\ LiveServers' = LiveServers /\ LiveProxies' = LiveProxies
         /\ KeptBut({i})' /\ SyncedBut({})'
    BY <1>4, <1>5, <1>8, <1>9, OwnDir
  <1>11. KeptAt(i, n)'
    BY <1>1, <1>4, <1>5, <1>7, <1>8, <1>10 DEF KeptAt, Behind, Follows, Joins
  <1>12. ChangeNext(v, i)
    <2>1. v.do = "change" /\ v.id = i /\ v.cur = cur /\ v.fields = f
      BY <1>2
    <2>2. i \in LiveServers' /\ servers'[i] = cur
      BY <1>1, <1>4, <1>10
    <2> QED
      BY <1>1, <1>5, <1>6, <2>1, <2>2 DEF ChangeNext, FieldsFit, Joins
  <1>13. f.name = NetNone => n = servers'[i].name
    BY <1>1, <1>4
  <1>14. PICK r : r = q \o <<v>>
    OBVIOUS
  <1>15. r = IF f.udp = NetNone THEN <<v>> ELSE <<u, v>>
    <2>1. q = <<>> => r = <<v>>
      BY <1>14, OneAndOne
    <2>2. q = <<u>> => r = <<u, v>>
      BY <1>14, OneAndOne
    <2> QED
      BY <1>3, <2>1, <2>2
  <1>16. todo'[t] # <<>> /\ Head(todo'[t]) = s /\ Tail(todo'[t]) = r
    <2> DEFINE A == {s, u, v}
    <2>0. <<s>> \in Seq(A) /\ <<v>> \in Seq(A) /\ <<>> \in Seq(A) /\ <<u>> \in Seq(A)
      OBVIOUS
    <2> HIDE DEF A
    <2>1. <<s>> \in Seq(A) /\ q \in Seq(A) /\ <<v>> \in Seq(A)
      BY <1>3, <2>0
    <2>2. <<s>> \o q \o <<v>> = <<s>> \o r
      BY <1>14, <2>1, ConcatAssociative
    <2>3. r \in Seq(A)
      BY <1>14, <2>1
    <2>4. <<s>> \o r # <<>> /\ Head(<<s>> \o r) = s /\ Tail(<<s>> \o r) = r
      BY <2>3
    <2> QED
      BY <1>5, <2>2, <2>4
  <1>17. s.do = "row" /\ s.id = i /\ s.new = n /\ u.do = "udp" /\ v.fields = f
    BY <1>2
  <1>18. i \in LiveServers'
    BY <1>10
  <1>19. CASE f.udp = NetNone
    <2>1. r # <<>> /\ Head(r) = v /\ Tail(r) = <<>>
      BY <1>15, <1>19, TuplesOff
    <2>2. n # servers'[i].name => v.fields.name # NetNone
      BY <1>13, <1>17
    <2>3. FileStage(t)'
      BY <1>10, <1>11, <1>12, <1>16, <1>17, <1>18, <2>1, <2>2, NowChangingRow
    <2> QED
      BY <1>8, <1>10, <2>3 DEF FilesNext
  <1>20. CASE f.udp # NetNone
    <2>1. PICK y : y = <<v>>
      OBVIOUS
    <2>2. r # <<>> /\ Head(r) = u /\ Tail(r) = y /\ y # <<>> /\ Head(y) = v /\ Tail(y) = <<>>
      BY <1>15, <1>20, <2>1, TuplesOff
    <2>3. v.fields.name = NetNone /\ n = servers'[i].name
      BY <1>13, <1>17, <1>20 DEF FieldsFit
    <2>4. FileStage(t)'
      BY <1>10, <1>11, <1>12, <1>16, <1>17, <1>18, <2>2, <2>3, NowChangingRow
    <2> QED
      BY <1>8, <1>10, <2>4 DEF FilesNext
  <1> QED
    BY <1>19, <1>20

LEMMA UpdatesFiles ==
    ASSUME NEW t \in NetThreads, FilesNow(t),
           \/ RenameServer(t) \/ SetLines(t) \/ SetServerUdp(t) \/ LeaveProxy(t)
           \/ JoinProxy(t) \/ SetDomain(t)
    PROVE  FilesNext(t)
  <1>1. \A i \in LiveServers : \A f : FieldsFit(f, i) =>
          \A kind : UpdateServer(t, kind, f, i) => FilesNext(t)
    BY UpdateServerFiles
  <1>2. CASE RenameServer(t)
    <2>1. PICK i \in LiveServers, n \in NetNames :
            UpdateServer(t, "rename", [NoField EXCEPT !.name = n], i)
      BY <1>2 DEF RenameServer
    <2>2. FieldsFit([NoField EXCEPT !.name = n], i)
      BY DEF NoField, FieldsFit
    <2> QED
      BY <1>1, <2>1, <2>2
  <1>3. CASE SetLines(t)
    <2>1. PICK i \in LiveServers, l \in {"empty", "set"} :
            UpdateServer(t, "lines", [NoField EXCEPT !.lines = l], i)
      BY <1>3 DEF SetLines
    <2>2. FieldsFit([NoField EXCEPT !.lines = l], i)
      BY DEF NoField, FieldsFit
    <2> QED
      BY <1>1, <2>1, <2>2
  <1>4. CASE SetServerUdp(t)
    <2>1. PICK i \in LiveServers, h \in NetPorts \cup {0} :
            UpdateServer(t, "udp", [NoField EXCEPT !.udp = h], i)
      BY <1>4 DEF SetServerUdp
    <2>2. FieldsFit([NoField EXCEPT !.udp = h], i)
      BY DEF NoField, FieldsFit
    <2> QED
      BY <1>1, <2>1, <2>2
  <1>5. CASE LeaveProxy(t)
    <2>1. PICK i \in LiveServers : UpdateServer(t, "leave", [NoField EXCEPT !.proxy = 0], i)
      BY <1>5 DEF LeaveProxy
    <2>2. FieldsFit([NoField EXCEPT !.proxy = 0], i)
      BY DEF NoField, FieldsFit
    <2> QED
      BY <1>1, <2>1, <2>2
  <1>6. CASE JoinProxy(t)
    <2>1. PICK i \in LiveServers, p \in LiveProxies :
            UpdateServer(t, IF servers[i].proxy \in {0, p} THEN "join" ELSE "move",
                         [NoField EXCEPT !.proxy = p], i)
      BY <1>6 DEF JoinProxy
    <2>2. PICK kind : kind = IF servers[i].proxy \in {0, p} THEN "join" ELSE "move"
      OBVIOUS
    <2>3. UpdateServer(t, kind, [NoField EXCEPT !.proxy = p], i)
      BY <2>1, <2>2
    <2>4. kind \in users.ops
      BY <2>3 DEF UpdateServer, Begin
    <2>5. FieldsFit([NoField EXCEPT !.proxy = p], i)
      BY <2>2, <2>4 DEF NoField, FieldsFit, Joins
    <2> QED
      BY <1>1, <2>3, <2>5
  <1>7. CASE SetDomain(t)
    <2>1. PICK i \in LiveServers, d \in NetDomains \cup {""} :
            UpdateServer(t, "domain", [NoField EXCEPT !.domain = d], i)
      BY <1>7, Zenon DEF SetDomain
    <2>2. FieldsFit([NoField EXCEPT !.domain = d], i)
      <3>1. /\ [NoField EXCEPT !.domain = d].name = NetNone
            /\ [NoField EXCEPT !.domain = d].proxy = NetNone
        BY DEF NoField
      <3> QED
        BY <3>1 DEF FieldsFit
    <2> QED
      BY <1>1, <2>1, <2>2
  <1> QED
    BY <1>2, <1>3, <1>4, <1>5, <1>6, <1>7

LEMMA CreateProxyFiles ==
    ASSUME NEW t \in NetThreads, FilesNow(t), CreateProxy(t)
    PROVE  FilesNext(t)
  <1>1. UNCHANGED <<servers, proxies, dirs>>
    BY DEF CreateProxy, rows
  <1>2. PICK n, h : Begin(t, "createProxy", <<[do |-> "insertProxy", name |-> n, port |-> h]>>)
    BY DEF CreateProxy
  <1>3. PICK s : s = [do |-> "insertProxy", name |-> n, port |-> h]
    OBVIOUS
  <1>4. Begin(t, "createProxy", <<s>>)
    BY <1>2, <1>3
  <1>5. DirsTyped' /\ NamesApart' /\ KeptBut({})' /\ SyncedBut({})' /\ todo'[t] = <<s>>
    BY <1>1, <1>4, FilesUntouched
  <1>6. /\ todo'[t] # <<>> /\ Head(todo'[t]) = s /\ Tail(todo'[t]) = <<>> /\ s.do = "insertProxy"
    BY <1>3, <1>5, TuplesOff
  <1>7. FileStage(t)'
    BY <1>5, <1>6, NowFounding
  <1> QED
    BY <1>5, <1>7 DEF FilesNext

LEMMA DeleteProxyFiles ==
    ASSUME NEW t \in NetThreads, FilesNow(t), DeleteProxy(t)
    PROVE  FilesNext(t)
  <1>1. UNCHANGED <<servers, proxies, dirs>>
    BY DEF DeleteProxy, rows
  <1>2. PICK p \in LiveProxies :
          Begin(t, "deleteProxy",
            <<[do |-> "kill", name |-> proxies[p].name],
              [do |-> "rmdir", name |-> proxies[p].name],
              [do |-> "unassign", id |-> p],
              [do |-> "deleteProxy", id |-> p]>>)
    BY DEF DeleteProxy
  <1>3. PICK n : n = proxies[p].name
    OBVIOUS
  <1>4. PICK q : q = <<[do |-> "kill", name |-> n], [do |-> "rmdir", name |-> n],
                       [do |-> "unassign", id |-> p], [do |-> "deleteProxy", id |-> p]>>
    OBVIOUS
  <1>5. Begin(t, "deleteProxy", q)
    BY <1>2, <1>3, <1>4
  <1>6. /\ DirsTyped' /\ NamesApart' /\ KeptBut({})' /\ SyncedBut({})' /\ todo'[t] = q
        /\ LiveProxies' = LiveProxies
    BY <1>1, <1>5, FilesUntouched
  <1>7. SyncedBut({p})' /\ p \in LiveProxies' /\ proxies'[p].name = n
    BY <1>1, <1>3, <1>6, OneMoreNext
  <1>8. FileStage(t)'
    BY <1>4, <1>6, <1>7, NowLeaving
  <1> QED
    BY <1>6, <1>8 DEF FilesNext

LEMMA RenameProxyFiles ==
    ASSUME NEW t \in NetThreads, FilesNow(t), RenameProxy(t)
    PROVE  FilesNext(t)
  <1>1. PICK p \in LiveProxies, n \in NetNames :
          /\ MoveDir(proxies[p].name, n)
          /\ Begin(t, "renameProxy", <<[do |-> "proxyRow", id |-> p, name |-> n]>>)
    BY DEF RenameProxy
  <1>2. PICK s, old : s = [do |-> "proxyRow", id |-> p, name |-> n] /\ old = proxies[p].name
    OBVIOUS
  <1>3. Begin(t, "renameProxy", <<s>>) /\ MoveDir(old, n) /\ UNCHANGED <<servers, proxies>>
    BY <1>1, <1>2 DEF RenameProxy, rows
  <1>4. /\ KeptBut({}) /\ SyncedBut({}) /\ UNCHANGED users /\ todo'[t] = <<s>>
    BY <1>3, FilesRequested
  <1>5. old \in NetNames /\ SyncedAt(p, old) /\ dirs[old] # NetNone
    BY <1>2, <1>4, NamesTyped DEF FilesNow, SyncedBut, SyncedAt
  <1>6. DirsTyped /\ DOMAIN dirs = NetNames /\ RowsTyped /\ RowsApart /\ NamesApart
    BY DEF FilesNow, NetIInv, RestOK
  <1>7. /\ DirsTyped' /\ dirs'[n] = dirs[old] /\ \A x \in NetNames : x # old => DirStays(x)
    BY <1>3, <1>5, <1>6, MovedFiles
  <1>8. /\ \A j \in LiveServers : DirStays(servers[j].name)
        /\ \A q \in LiveProxies \ {p} : DirStays(proxies[q].name)
    BY <1>2, <1>6, <1>7, NamesAway, NamesTyped DEF NamesApart
  <1>9. SyncedBut({p})
    BY <1>4, OneMore
  <1>10. /\ LiveProxies' = LiveProxies /\ NamesApart' /\ KeptBut({})' /\ SyncedBut({p})'
         /\ VelocityOf(p)' = VelocityOf(p)
    BY <1>3, <1>4, <1>6, <1>8, <1>9, RowsSame
  <1>11. /\ dirs'[n] # NetNone
         /\ "move" \notin users'.ops => dirs'[n].toml = VelocityOf(p)'
    BY <1>4, <1>5, <1>7, <1>10 DEF SyncedAt
  <1>12. /\ todo'[t] # <<>> /\ Head(todo'[t]) = s /\ Tail(todo'[t]) = <<>>
         /\ s.do = "proxyRow" /\ s.id = p /\ s.name = n /\ p \in LiveProxies'
    BY <1>2, <1>4, <1>10, TuplesOff
  <1>13. FileStage(t)'
    BY <1>10, <1>11, <1>12, NowFounding
  <1> QED
    BY <1>7, <1>10, <1>13 DEF FilesNext

LEMMA FourHarmless ==
    ASSUME NEW w, NEW x, NEW y, NEW z,
           HarmlessStep(w), HarmlessStep(x), HarmlessStep(y), HarmlessStep(z)
    PROVE  Harmless(<<w, x, y, z>>)
  <1> DEFINE S == {w, x, y, z}
  <1>1. <<w, x, y, z>> \in Seq(S) /\ \A s \in S : HarmlessStep(s)
    OBVIOUS
  <1> HIDE DEF S
  <1> QED
    BY <1>1 DEF Harmless

LEMMA SwitchFiles ==
    ASSUME NEW t \in NetThreads, FilesNow(t), StartProxy(t) \/ StopProxy(t) \/ RestartProxy(t)
    PROVE  FilesNext(t)
  <1>1. UNCHANGED <<servers, proxies, dirs>>
    BY DEF StartProxy, StopProxy, RestartProxy, rows
  <1>2. PICK p \in LiveProxies :
          \/ Begin(t, "run", <<[do |-> "start", name |-> proxies[p].name], Mark(p, TRUE)>>)
          \/ Begin(t, "run", <<[do |-> "stop", name |-> proxies[p].name], Mark(p, FALSE)>>)
          \/ Begin(t, "run", <<[do |-> "stop", name |-> proxies[p].name], Mark(p, FALSE),
                               [do |-> "start", name |-> proxies[p].name], Mark(p, TRUE)>>)
    BY DEF StartProxy, StopProxy, RestartProxy
  <1>3. PICK start, stop, on, off :
          /\ start = [do |-> "start", name |-> proxies[p].name] /\ on = Mark(p, TRUE)
          /\ stop = [do |-> "stop", name |-> proxies[p].name] /\ off = Mark(p, FALSE)
    OBVIOUS
  <1>4. HarmlessStep(start) /\ HarmlessStep(stop) /\ HarmlessStep(on) /\ HarmlessStep(off)
    BY <1>3 DEF HarmlessStep, Mark
  <1>5. PICK q \in {<<start, on>>, <<stop, off>>, <<stop, off, start, on>>} : Begin(t, "run", q)
    BY <1>2, <1>3
  <1>6. Harmless(q)
    BY <1>4, <1>5, HarmlessSteps, FourHarmless
  <1>7. DirsTyped' /\ NamesApart' /\ KeptBut({})' /\ SyncedBut({})' /\ todo'[t] = q
    BY <1>1, <1>5, FilesUntouched
  <1>8. FileStage(t)'
    BY <1>6, <1>7, NowResting
  <1> QED
    BY <1>7, <1>8 DEF FilesNext

LEMMA ProxyUdpFiles ==
    ASSUME NEW t \in NetThreads, FilesNow(t), SetProxyUdp(t)
    PROVE  FilesNext(t)
  <1>1. UNCHANGED <<servers, proxies, dirs>>
    BY DEF SetProxyUdp, rows
  <1>2. PICK p, h : Begin(t, "udp", <<[do |-> "udp", server |-> 0, proxy |-> p, port |-> h]>>)
    BY DEF SetProxyUdp
  <1>3. PICK s : s = [do |-> "udp", server |-> 0, proxy |-> p, port |-> h]
    OBVIOUS
  <1>4. Begin(t, "udp", <<s>>)
    BY <1>2, <1>3
  <1>5. Harmless(<<s>>)
    <2>1. HarmlessStep(s)
      BY <1>3 DEF HarmlessStep
    <2> QED
      BY <2>1, HarmlessSteps
  <1>6. DirsTyped' /\ NamesApart' /\ KeptBut({})' /\ SyncedBut({})' /\ todo'[t] = <<s>>
    BY <1>1, <1>4, FilesUntouched
  <1>7. FileStage(t)'
    BY <1>5, <1>6, NowResting
  <1> QED
    BY <1>6, <1>7 DEF FilesNext

(* Icons. *)
LEMMA ServerIconFiles ==
    ASSUME NEW t \in NetThreads, FilesNow(t), NEW kind, NEW own \in BOOLEAN,
           ServerIcon(t, kind, own)
    PROVE  FilesNext(t)
  <1>1. PICK i \in LiveServers :
          LET n == servers[i].name
              pn == ProxyName(servers[i].proxy)
              has == servers[i].lines # "null"
              copied(d) == IF own THEN IF has THEN CopyIcon(d, <<"server", n>>) ELSE d
                           ELSE DropIcon(d, <<"server", n>>)
              config(d) == IF has THEN PutExtra(d, pn, n, own) ELSE d
          IN  /\ dirs[n] # NetNone
              /\ Begin(t, kind, <<>>)
              /\ dirs' = [x \in NetNames |->
                      CASE x = n -> [dirs[n] EXCEPT !.icon = own]
                        [] x = pn /\ x # n -> config(copied(Made(dirs[x])))
                        [] OTHER -> dirs[x]]
    BY DEF ServerIcon
  <1>2. PICK n, pn, has : /\ n = servers[i].name /\ pn = ProxyName(servers[i].proxy)
                          /\ has = (servers[i].lines # "null")
    OBVIOUS
  <1> DEFINE copied(d) == IF own THEN IF has THEN CopyIcon(d, <<"server", n>>) ELSE d
                          ELSE DropIcon(d, <<"server", n>>)
             config(d) == IF has THEN PutExtra(d, pn, n, own) ELSE d
  <1>3. /\ dirs[n] # NetNone /\ Begin(t, kind, <<>>)
        /\ dirs' = [x \in NetNames |->
                CASE x = n -> [dirs[n] EXCEPT !.icon = own]
                  [] x = pn /\ x # n -> config(copied(Made(dirs[x])))
                  [] OTHER -> dirs[x]]
    BY <1>1, <1>2
  <1>4. /\ UNCHANGED <<servers, proxies>> /\ DirsTyped /\ RowsTyped /\ NamesApart
        /\ n \in NetNames
    BY <1>2, NamesTyped DEF FilesNow, ServerIcon, rows
  <1>5. ASSUME NEW x \in NetNames PROVE Written(x)
    <2>1. /\ x = n => dirs'[x] = [dirs[x] EXCEPT !.icon = own]
          /\ x = pn /\ x # n => dirs'[x] = config(copied(Made(dirs[x])))
          /\ x # pn /\ x # n => dirs'[x] = dirs[x]
      BY <1>3
    <2> HIDE DEF config, copied
    <2>2. dirs[x] = NetNone \/ dirs[x] \in DirRecords
      BY <1>4 DEF DirsTyped
    <2>3. CASE x = n
      <3>1. dirs[x] \in DirRecords
        BY <1>3, <2>2, <2>3
      <3>2. Fit([dirs[x] EXCEPT !.icon = own], dirs[x])
        BY <3>1, FieldFits
      <3> QED
        BY <1>3, <2>1, <2>2, <2>3, <3>2, WrittenAs
    <2>4. CASE x # n /\ x = pn
      <3>1. PICK m, c : m = Made(dirs[x]) /\ c = copied(m)
        OBVIOUS
      <3>2. m \in DirRecords
        BY <2>2, <3>1, MadeTyped
      <3>3. Fit(c, m)
        <4>1. /\ Fit(m, m) /\ Fit(CopyIcon(m, <<"server", n>>), m)
              /\ Fit(DropIcon(m, <<"server", n>>), m)
          BY <1>4, <3>2, FieldFits, MotdFits, IconTypes
        <4> QED
          BY <3>1, <4>1 DEF copied
      <3>4. c \in DirRecords
        BY <3>3 DEF Fit
      <3>5. Fit(config(c), c)
        <4>1. Fit(c, c)
          BY <3>4, FieldFits
        <4>2. Fit(PutExtra(c, pn, n, own), c)
          BY <1>4, <2>4, <3>4, MotdFits
        <4> QED
          BY <4>1, <4>2 DEF config
      <3>6. Fit(config(c), m)
        BY <3>3, <3>5, FitTwice
      <3>7. Fit(dirs'[x], Made(dirs[x]))
        BY <2>1, <2>4, <3>1, <3>6
      <3> QED
        BY <2>2, <3>7, WrittenAs
    <2>5. CASE x # n /\ x # pn
      BY <2>1, <2>2, <2>5, WrittenAs
    <2> QED
      BY <2>3, <2>4, <2>5
  <1>6. /\ KeptBut({}) /\ SyncedBut({}) /\ UNCHANGED users /\ todo'[t] = <<>>
    BY <1>3, FilesRequested
  <1>7. Still /\ DirsTyped'
    BY <1>4, <1>5, <1>6, OnlyDirs
  <1>8. NamesApart' /\ KeptBut({})' /\ SyncedBut({})'
    BY <1>4, <1>6, <1>7, StillKept
  <1>9. FileStage(t)'
    BY <1>6, <1>8, HarmlessSteps, NowResting
  <1> QED
    BY <1>7, <1>8, <1>9 DEF FilesNext

LEMMA ProxyIconFiles ==
    ASSUME NEW t \in NetThreads, FilesNow(t), UploadProxyIcon(t) \/ DeleteProxyIcon(t)
    PROVE  FilesNext(t)
  <1>1. PICK p \in LiveProxies, own \in BOOLEAN :
          /\ dirs[proxies[p].name] # NetNone
          /\ Begin(t, "icons", <<[do |-> "refresh", id |-> p, name |-> proxies[p].name]>>)
          /\ dirs' = [dirs EXCEPT ![proxies[p].name] =
                IF own THEN CopyIcon([dirs[proxies[p].name] EXCEPT !.icon = TRUE],
                                     <<"proxy", proxies[p].name>>)
                ELSE DropIcon([dirs[proxies[p].name] EXCEPT !.icon = FALSE],
                              <<"proxy", proxies[p].name>>)]
    <2>1. CASE UploadProxyIcon(t)
      BY <2>1 DEF UploadProxyIcon
    <2>2. CASE DeleteProxyIcon(t)
      BY <2>2 DEF DeleteProxyIcon
    <2> QED
      BY <2>1, <2>2
  <1>2. PICK n, s : n = proxies[p].name /\ s = [do |-> "refresh", id |-> p, name |-> n]
    OBVIOUS
  <1>3. PICK d, e : /\ d = [dirs[n] EXCEPT !.icon = own]
                    /\ e = IF own THEN CopyIcon(d, <<"proxy", n>>) ELSE DropIcon(d, <<"proxy", n>>)
    OBVIOUS
  <1>4. dirs[n] # NetNone /\ Begin(t, "icons", <<s>>) /\ dirs' = [dirs EXCEPT ![n] = e]
    BY <1>1, <1>2, <1>3
  <1>5. /\ UNCHANGED <<servers, proxies>> /\ DirsTyped /\ RowsTyped /\ n \in NetNames
        /\ DOMAIN dirs = NetNames
    BY <1>2, NamesTyped DEF FilesNow, UploadProxyIcon, DeleteProxyIcon, rows, NetIInv, RestOK
  <1>6. dirs[n] \in DirRecords
    BY <1>4, <1>5 DEF DirsTyped
  <1>7. Fit(d, dirs[n])
    BY <1>3, <1>6, FieldFits
  <1>8. Fit(e, d)
    <2>1. d \in DirRecords
      BY <1>7 DEF Fit
    <2> QED
      BY <1>3, <1>5, <2>1, MotdFits, IconTypes
  <1>9. Fit(e, dirs[n])
    BY <1>7, <1>8, FitTwice
  <1>10. ASSUME NEW x \in NetNames PROVE Written(x)
    <2>1. dirs[x] = NetNone \/ dirs[x] \in DirRecords
      BY <1>5 DEF DirsTyped
    <2>2. dirs'[x] = dirs[x] \/ (dirs[x] # NetNone /\ Fit(dirs'[x], dirs[x]))
      BY <1>4, <1>5, <1>9
    <2> QED
      BY <2>1, <2>2, WrittenAs
  <1>11. /\ KeptBut({}) /\ SyncedBut({}) /\ UNCHANGED users /\ todo'[t] = <<s>>
    BY <1>4, FilesRequested
  <1>12. Still /\ DirsTyped'
    BY <1>5, <1>10, <1>11, OnlyDirs
  <1>13. NamesApart' /\ KeptBut({})' /\ SyncedBut({})'
    BY <1>5, <1>11, <1>12, StillKept DEF FilesNow
  <1>14. Harmless(<<s>>)
    <2>1. HarmlessStep(s)
      BY <1>2 DEF HarmlessStep
    <2> QED
      BY <2>1, HarmlessSteps
  <1>15. FileStage(t)'
    BY <1>11, <1>13, <1>14, NowResting
  <1> QED
    BY <1>12, <1>13, <1>15 DEF FilesNext

LEMMA RequestFiles ==
    ASSUME NEW t \in NetThreads, FilesNow(t), NetRequest(t)
    PROVE  FilesNext(t)
  <1>1. CASE UploadServerIcon(t)
    BY <1>1, ServerIconFiles DEF UploadServerIcon
  <1>2. CASE DeleteServerIcon(t)
    BY <1>2, ServerIconFiles DEF DeleteServerIcon
  <1> QED
    BY <1>1, <1>2, ProxyIconFiles, CreateServerFiles, DeleteServerFiles, UpdatesFiles,
       CreateProxyFiles, DeleteProxyFiles, RenameProxyFiles, ProxyUdpFiles, SwitchFiles
       DEF NetRequest

LEMMA StepFiles ==
    ASSUME NEW t \in NetThreads, FilesNow(t), NetStep(t)
    PROVE  FilesNext(t)
  BY SyncReadFiles, SyncWriteFiles, InsertServerFiles, ServerFilesFiles, ConfigureFiles,
     MinorFiles, RemoveDirFiles, DeleteServerRowFiles, UpdateRowFiles, QuietFiles,
     ChangeServerFiles, AssignFiles, JoinFilesFiles, LeaveFiles, DomainFiles, InsertProxyFiles,
     ProxyFilesFiles, UnassignFiles, DeleteProxyRowFiles, ProxyRowFiles DEF NetStep, Minor

(* Containers die and are seen to: neither rows nor files of a stage change. *)
LEMMA FilesStay ==
    ASSUME RowsTyped, UNCHANGED <<servers, dirs, todo, users>>, LiveProxies' = LiveProxies,
           \A p \in LiveProxies : proxies'[p].name = proxies[p].name
    PROVE  /\ DirsTyped => DirsTyped'
           /\ NamesApart => NamesApart'
           /\ \A t : FileStage(t) => FileStage(t)'
  <1>1. LiveServers' = LiveServers
    BY DEF LiveServers
  <1>2. \A p : Members(p)' = Members(p)
    BY <1>1 DEF Members
  <1>3. \A p : VelocityOf(p)' = VelocityOf(p)
    <2>1. ASSUME NEW p PROVE VelocityOf(p)' = VelocityOf(p)
      BY <1>2, VelocityStays
    <2> QED
      BY <2>1
  <1>4. /\ \A i, n : KeptAt(i, n)' <=> KeptAt(i, n)
        /\ \A p, n : SyncedAt(p, n)' <=> SyncedAt(p, n)
    BY <1>3 DEF KeptAt, SyncedAt, Behind, Follows, Joins
  <1>5. /\ \A I : KeptBut(I)' <=> KeptBut(I)
        /\ \A P : SyncedBut(P)' <=> SyncedBut(P)
        /\ Homes' <=> Homes
        /\ \A i, p : Mine(i, p)' <=> Mine(i, p)
        /\ \A s : ChangeStep(s)' <=> ChangeStep(s)
    BY <1>1, <1>4 DEF KeptBut, SyncedBut, Homes, Mine, Joins, ChangeStep
  <1>6. DirsTyped => DirsTyped'
    BY DEF DirsTyped
  <1>7. NamesApart => NamesApart'
    BY <1>1 DEF NamesApart
  <1>8. ASSUME NEW t, FileStage(t) PROVE FileStage(t)'
    <2>1. CASE Resting(t)
      BY <1>5, <2>1, NowResting DEF Resting
    <2>2. CASE Syncing(t)
      <3>1. PICK s, r : s = Now(t) /\ r = Tail(todo[t])
        OBVIOUS
      <3>2. todo[t] # <<>> /\ Head(todo'[t]) = s /\ Tail(todo'[t]) = r /\ todo'[t] # <<>>
        BY <2>2, <3>1 DEF Syncing, At, Now
      <3>3. \E p : /\ KeptBut({}) /\ Homes /\ SyncedBut({p})
                   /\ \/ s.do = "sync" /\ s.proxy = p /\ Harmless(r)
                      \/ /\ s.do = "renameMotd" /\ HarmlessStep(s) /\ r # <<>>
                         /\ Head(r).do = "sync" /\ Head(r).proxy = p /\ Harmless(Tail(r))
                      \/ /\ s.do = "toml" /\ Harmless(r) /\ p \in LiveProxies
                         /\ s.name = proxies[p].name /\ s.config = VelocityOf(p)
        BY <2>2, <3>1 DEF Syncing, At, Now
      <3>4. PICK p : /\ KeptBut({}) /\ Homes /\ SyncedBut({p})
                     /\ \/ s.do = "sync" /\ s.proxy = p /\ Harmless(r)
                        \/ /\ s.do = "renameMotd" /\ HarmlessStep(s) /\ r # <<>>
                           /\ Head(r).do = "sync" /\ Head(r).proxy = p /\ Harmless(Tail(r))
                        \/ /\ s.do = "toml" /\ Harmless(r) /\ p \in LiveProxies
                           /\ s.name = proxies[p].name /\ s.config = VelocityOf(p)
        BY <3>3
      <3>5. KeptBut({})' /\ Homes' /\ SyncedBut({p})'
        BY <1>5, <3>4
      <3>6. p \in LiveProxies /\ s.name = proxies[p].name /\ s.config = VelocityOf(p) =>
              p \in LiveProxies' /\ s.name = proxies'[p].name /\ s.config = VelocityOf(p)'
        BY <1>3
      <3> QED
        BY <3>2, <3>4, <3>5, <3>6, NowSyncing
    <2>3. CASE Assigning(t)
      <3>1. PICK s, r : s = Now(t) /\ r = Tail(todo[t])
        OBVIOUS
      <3>2. todo[t] # <<>> /\ Head(todo'[t]) = s /\ Tail(todo'[t]) = r /\ todo'[t] # <<>>
        BY <2>3, <3>1 DEF Assigning, At, Now
      <3>3. PICK i, p : /\ KeptBut({}) /\ SyncedBut({}) /\ Mine(i, p)
                        /\ \/ s.do = "assign" /\ s.id = i /\ s.proxy = p /\ Harmless(r)
                           \/ /\ s.do = "moveMotd" /\ HarmlessStep(s) /\ r # <<>>
                              /\ Head(r).do = "assign" /\ Head(r).id = i /\ Head(r).proxy = p
                              /\ Harmless(Tail(r))
        BY <2>3, <3>1 DEF Assigning, At, Now
      <3>4. KeptBut({})' /\ SyncedBut({})' /\ Mine(i, p)'
        BY <1>5, <3>3
      <3> QED
        BY <3>2, <3>3, <3>4, NowAssigning
    <2>4. CASE Joining(t)
      <3>1. PICK s, r, p : s = Now(t) /\ r = Tail(todo[t]) /\ p = s.proxy
        OBVIOUS
      <3>2. /\ todo[t] # <<>> /\ Head(todo'[t]) = s /\ Tail(todo'[t]) = r /\ todo'[t] # <<>>
            /\ s.do = "joinFiles" /\ Harmless(r) /\ Homes /\ SyncedBut({p}) /\ Joins
        BY <2>4, <3>1 DEF Joining, At, Now
      <3>3. PICK i \in LiveServers :
              /\ s.name = servers[i].name /\ s.port = servers[i].port
              /\ p = servers[i].proxy /\ s.limbo = servers[i].limbo
              /\ dirs[servers[i].name] # NetNone /\ KeptBut({i})
        BY <2>4, <3>1 DEF Joining
      <3>4. KeptBut({i})' /\ Homes' /\ SyncedBut({p})' /\ Joins'
        BY <1>5, <3>2, <3>3 DEF Joins
      <3> QED
        BY <1>1, <3>1, <3>2, <3>3, <3>4, NowJoining
    <2>5. CASE ChangingRow(t)
      <3>1. PICK s, r, i, n : s = Now(t) /\ r = Tail(todo[t]) /\ i = s.id /\ n = s.new
        OBVIOUS
      <3>2. /\ todo[t] # <<>> /\ Head(todo'[t]) = s /\ Tail(todo'[t]) = r /\ todo'[t] # <<>>
            /\ s.do = "row" /\ r # <<>> /\ i \in LiveServers
            /\ KeptBut({i}) /\ KeptAt(i, n) /\ SyncedBut({})
        BY <2>5, <3>1 DEF ChangingRow, At, Now
      <3>3. \/ /\ Tail(r) = <<>> /\ ChangeStep(Head(r)) /\ Head(r).id = i
               /\ n # servers[i].name => Head(r).fields.name # NetNone
            \/ /\ Head(r).do = "udp" /\ n = servers[i].name
               /\ Tail(r) # <<>> /\ ChangeStep(Head(Tail(r))) /\ Tail(Tail(r)) = <<>>
               /\ Head(Tail(r)).fields.name = NetNone /\ Head(Tail(r)).id = i
        BY <2>5, <3>1 DEF ChangingRow
      <3>4. KeptBut({i})' /\ KeptAt(i, n)' /\ SyncedBut({})'
        BY <1>4, <1>5, <3>2
      <3>5. \A c : ChangeStep(c) => ChangeNext(c, c.id)
        BY <1>1 DEF ChangeStep, ChangeNext, Mine, Joins
      <3>6. /\ servers'[i] = servers[i] /\ i \in LiveServers'
            /\ \/ /\ Tail(r) = <<>> /\ ChangeNext(Head(r), i)
                  /\ n # servers'[i].name => Head(r).fields.name # NetNone
               \/ /\ Head(r).do = "udp" /\ n = servers'[i].name
                  /\ Tail(r) # <<>> /\ ChangeNext(Head(Tail(r)), i) /\ Tail(Tail(r)) = <<>>
                  /\ Head(Tail(r)).fields.name = NetNone
        <4>1. servers'[i] = servers[i] /\ i \in LiveServers'
          BY <1>1, <3>2
        <4>2. CASE /\ Tail(r) = <<>> /\ ChangeStep(Head(r)) /\ Head(r).id = i
                   /\ n # servers[i].name => Head(r).fields.name # NetNone
          BY <3>5, <4>1, <4>2
        <4>3. CASE /\ Head(r).do = "udp" /\ n = servers[i].name
                   /\ Tail(r) # <<>> /\ ChangeStep(Head(Tail(r))) /\ Tail(Tail(r)) = <<>>
                   /\ Head(Tail(r)).fields.name = NetNone /\ Head(Tail(r)).id = i
          BY <3>5, <4>1, <4>3
        <4> QED
          BY <3>3, <4>2, <4>3
      <3> QED
        BY <3>1, <3>2, <3>3, <3>4, <3>5, <3>6, NowChangingRow
    <2>6. CASE Changing(t)
      <3>1. PICK s, r, c, p : /\ s = Now(t) /\ r = Tail(todo[t]) /\ p = s.cur.proxy
                              /\ c = IF s.do = "udp" THEN Head(r) ELSE s
        OBVIOUS
      <3>2. /\ todo[t] # <<>> /\ Head(todo'[t]) = s /\ Tail(todo'[t]) = r /\ todo'[t] # <<>>
            /\ KeptBut({}) /\ Homes
        BY <2>6, <3>1 DEF Changing, At, Now
      <3>3. \/ /\ s.do = "udp" /\ SyncedBut({}) /\ r # <<>> /\ ChangeStep(c)
               /\ c = Head(r) /\ Tail(r) = <<>> /\ c.fields.name = NetNone
            \/ /\ s.do = "change" /\ ChangeStep(s) /\ c = s /\ r = <<>>
               /\ s.fields.name = NetNone => SyncedBut({})
               /\ s.fields.name # NetNone => SyncedBut({p})
        BY <2>6, <3>1 DEF Changing, At, Now
      <3>4. KeptBut({})' /\ Homes' /\ (SyncedBut({}) => SyncedBut({})') /\ (SyncedBut({p}) => SyncedBut({p})')
        BY <1>5, <3>2
      <3>5. ChangeNext(c, c.id)
        BY <1>1, <3>3 DEF ChangeStep, ChangeNext, Mine, Joins
      <3> QED
        BY <3>1, <3>2, <3>3, <3>4, <3>5, NowChanging
    <2>7. CASE Entering(t)
      BY <1>5, <2>7, NowEntering DEF Entering, At
    <2>8. CASE Filling(t)
      <3>1. PICK s, r, p : s = Now(t) /\ r = Tail(todo[t]) /\ p = s.row.proxy
        OBVIOUS
      <3>2. /\ todo[t] # <<>> /\ Head(todo'[t]) = s /\ Tail(todo'[t]) = r /\ todo'[t] # <<>>
            /\ Homes /\ SyncedBut({p})
        BY <2>8, <3>1 DEF Filling, At, Now
      <3>3. PICK i \in LiveServers :
              /\ s.row = servers[i] /\ KeptBut({i})
              /\ \/ /\ s.do = "files"
                    /\ \/ p = 0 /\ r = <<>>
                       \/ /\ p # 0 /\ r # <<>> /\ Tail(r) = <<>>
                          /\ Head(r).do = "configure" /\ Head(r).row = s.row
                 \/ /\ s.do = "configure" /\ r = <<>>
                    /\ dirs[s.row.name] # NetNone /\ ~dirs[s.row.name].online
                    /\ ~s.row.limbo => dirs[s.row.name].port = s.row.port
        BY <2>8, <3>1 DEF Filling, At, Now
      <3>4. KeptBut({i})' /\ Homes' /\ SyncedBut({p})' /\ i \in LiveServers' /\ s.row = servers'[i]
        BY <1>1, <1>5, <3>2, <3>3
      <3>5. dirs'[s.row.name] = dirs[s.row.name]
        OBVIOUS
      <3> QED
        BY <3>1, <3>2, <3>3, <3>4, <3>5, NowFilling
    <2>9. CASE Going(t)
      <3>1. PICK s, r : s = Now(t) /\ r = Tail(todo[t])
        OBVIOUS
      <3>2. /\ todo[t] # <<>> /\ Head(todo'[t]) = s /\ Tail(todo'[t]) = r /\ todo'[t] # <<>>
            /\ SyncedBut({})
        BY <2>9, <3>1 DEF Going, At, Now
      <3>3. PICK i \in LiveServers :
              \/ /\ s.do = "rmdir" /\ KeptBut({}) /\ r # <<>> /\ Head(r).do = "deleteServer"
                 /\ Head(r).id = i /\ s.name = servers[i].name /\ Owed(Tail(r), servers[i].proxy)
              \/ /\ s.do = "deleteServer" /\ KeptBut({i}) /\ s.id = i
                 /\ Owed(r, servers[i].proxy)
        BY <2>9, <3>1 DEF Going, At, Now
      <3>4. /\ SyncedBut({})' /\ i \in LiveServers' /\ servers'[i] = servers[i]
            /\ KeptBut({}) => KeptBut({})'
            /\ KeptBut({i}) => KeptBut({i})'
        BY <1>1, <1>5, <3>2, <3>3
      <3> QED
        BY <3>2, <3>3, <3>4, NowGoing
    <2>10. CASE Founding(t)
      <3>1. PICK s, p : s = Now(t) /\ p = s.id
        OBVIOUS
      <3>2. /\ todo[t] # <<>> /\ Head(todo'[t]) = s /\ Tail(todo'[t]) = <<>> /\ todo'[t] # <<>>
            /\ KeptBut({})
        BY <2>10, <3>1 DEF Founding, At, Now
      <3>3. \/ s.do = "insertProxy" /\ SyncedBut({})
            \/ /\ s.do = "proxyFiles" /\ SyncedBut({p})
               /\ p \in LiveProxies /\ s.name = proxies[p].name /\ Members(p) = {}
            \/ /\ s.do = "proxyRow" /\ SyncedBut({p})
               /\ p \in LiveProxies /\ SyncedAt(p, s.name)
        BY <2>10, <3>1 DEF Founding, At, Now
      <3>4. KeptBut({})' /\ (SyncedBut({}) => SyncedBut({})') /\ (SyncedBut({p}) => SyncedBut({p})')
        BY <1>5, <3>2
      <3>5. /\ p \in LiveProxies => p \in LiveProxies' /\ proxies'[p].name = proxies[p].name
            /\ Members(p) = {} => Members(p)' = {}
        BY <1>2
      <3>6. SyncedAt(p, s.name) => /\ dirs'[s.name] # NetNone
                                   /\ "move" \notin users'.ops => dirs'[s.name].toml = VelocityOf(p)'
        BY <1>3 DEF SyncedAt
      <3> QED
        BY <3>1, <3>2, <3>3, <3>4, <3>5, <3>6, NowFounding
    <2>11. CASE Leaving(t)
      <3>1. PICK p \in LiveProxies :
              LET n == proxies[p].name
                  kill == [do |-> "kill", name |-> n]
                  rmdir == [do |-> "rmdir", name |-> n]
                  unassign == [do |-> "unassign", id |-> p]
                  delete == [do |-> "deleteProxy", id |-> p]
              IN  /\ KeptBut({}) /\ SyncedBut({p})
                  /\ todo[t] \in {<<kill, rmdir, unassign, delete>>, <<rmdir, unassign, delete>>,
                                  <<unassign, delete>>, <<delete>>}
        BY <2>11 DEF Leaving
      <3>2. PICK n : n = proxies[p].name
        OBVIOUS
      <3>3. KeptBut({})' /\ SyncedBut({p})' /\ p \in LiveProxies' /\ proxies'[p].name = n
        BY <1>5, <3>1, <3>2
      <3>4. todo'[t] = todo[t]
        OBVIOUS
      <3> QED
        BY <3>1, <3>2, <3>3, <3>4, NowLeaving
    <2> QED
      BY <1>8, <2>1, <2>2, <2>3, <2>4, <2>5, <2>6, <2>7, <2>8, <2>9, <2>10, <2>11 DEF FileStage
  <1> QED
    BY <1>6, <1>7, <1>8

LEMMA NetInitFiles == NetInit => FileSerial
  <1> SUFFICES ASSUME NetInit, Serial, ~users.failing
               PROVE  DirsTyped /\ NamesApart /\ \A t \in users.threads : FileStage(t)
    BY DEF FileSerial
  <1>1. PICK pn \in NetNames, sn \in NetNames, h \in NetPorts, limbo \in users.limbo :
          /\ pn # sn
          /\ servers = <<[name |-> sn, proxy |-> 1, port |-> BasePort(1) + 1,
                          udp |-> 0, domain |-> NetNone, lines |-> "null",
                          limbo |-> limbo]>>
          /\ proxies = <<[name |-> pn, port |-> h, udp |-> 0, run |-> FALSE]>>
          /\ dirs = [n \in NetNames |->
                CASE n = sn -> [NewDir EXCEPT !.online = FALSE, !.secret = 1,
                                              !.port = BasePort(1) + 1]
                  [] n = pn -> [NewDir EXCEPT !.secret = 1,
                        !.toml = [servers |-> {<<sn, BasePort(1) + 1>>}, try |-> sn,
                                  hosts |-> NoFiles]]
                  [] OTHER -> NetNone]
    BY DEF NetInit
  <1>2. PICK s, p, v, k : /\ s = [name |-> sn, proxy |-> 1, port |-> k,
                                  udp |-> 0, domain |-> NetNone, lines |-> "null",
                                  limbo |-> limbo]
                          /\ p = [name |-> pn, port |-> h, udp |-> 0, run |-> FALSE]
                          /\ v = [servers |-> {<<sn, k>>}, try |-> sn, hosts |-> NoFiles]
                          /\ k = BasePort(1) + 1
    OBVIOUS
  <1>3. PICK ds, dp : /\ ds = [NewDir EXCEPT !.online = FALSE, !.secret = 1, !.port = k]
                      /\ dp = [NewDir EXCEPT !.secret = 1, !.toml = v]
    OBVIOUS
  <1>4. /\ servers = <<s>> /\ proxies = <<p>>
        /\ dirs[sn] = ds /\ dirs[pn] = dp
        /\ \A n \in NetNames : n # sn /\ n # pn => dirs[n] = NetNone
    BY <1>1, <1>2, <1>3
  <1>5. /\ NetIInv /\ RowsTyped
    <2>1. NetSerial
      BY NetInitSerial
    <2> QED
      BY <2>1, NetInitInv DEF NetSerial
  <1>6. k \in Nat /\ k # 0
    BY <1>2 DEF BasePort
  <1>7. s.name = sn /\ s.proxy = 1 /\ s.port = k /\ s.domain = NetNone /\ p.name = pn
    BY <1>2
  <1>8. s # NetNone /\ p # NetNone
    <2>1. s \in ServerRows /\ p \in ProxyRows
      <3>1. NetPorts \subseteq 1 .. 9 /\ h \in NetPorts
        BY <1>1, NetAssumption
      <3>2. h \in Nat
        BY <3>1
      <3>3. NetNone \in RowDomains /\ limbo \in BOOLEAN
        BY <1>1, Domains, NetAssumption DEF NetInit
      <3> QED
        BY <1>2, <1>6, <3>2, <3>3 DEF ServerRows, ProxyRows
    <2> QED
      BY <2>1, NetRowAssumption
  <1>9. LiveServers = {1} /\ LiveProxies = {1} /\ servers[1] = s /\ proxies[1] = p
    <2>1. DOMAIN servers = {1} /\ DOMAIN proxies = {1} /\ servers[1] = s /\ proxies[1] = p
      BY <1>4
    <2> QED
      BY <1>8, <2>1 DEF LiveServers, LiveProxies
  <1>10. VelocityOf(1) = v
    <2>1. Members(1) = {1}
      BY <1>7, <1>9 DEF Members
    <2>2. PICK ms : ms = MemberRows(1)
      OBVIOUS
    <2>3. DOMAIN ms = {1} /\ ms[1].name = sn /\ ms[1].port = k /\ ms[1].domain = NetNone
      BY <1>6, <1>7, <1>9, <2>1, <2>2 DEF MemberRows
    <2>4. Min({1}) = 1
      BY DEF Min
    <2>5. PICK D : D = {d \in NetDomains : {i \in DOMAIN ms : ms[i].domain = d} # {}}
      OBVIOUS
    <2>6. D = {}
      BY <2>3, <2>5, NetAssumption
    <2>7. [d \in D |-> ms[Max({i \in DOMAIN ms : ms[i].domain = d})].name] = NoFiles
      BY <2>6 DEF NoFiles
    <2>8. {<<ms[i].name, ms[i].port>> : i \in DOMAIN ms} = {<<sn, k>>}
      BY <2>3
    <2>9. (IF DOMAIN ms = {} THEN NetNone ELSE ms[Min(DOMAIN ms)].name) = sn
      BY <2>3, <2>4
    <2>10. VelocityFile(ms) =
             [servers |-> {<<ms[i].name, ms[i].port>> : i \in DOMAIN ms},
              try |-> IF DOMAIN ms = {} THEN NetNone ELSE ms[Min(DOMAIN ms)].name,
              hosts |-> [d \in D |-> ms[Max({i \in DOMAIN ms : ms[i].domain = d})].name]]
      BY <2>5 DEF VelocityFile
    <2>11. VelocityFile(ms) = [servers |-> {<<sn, k>>}, try |-> sn, hosts |-> NoFiles]
      BY <2>7, <2>8, <2>9, <2>10
    <2> QED
      BY <1>2, <2>2, <2>11 DEF VelocityOf
  <1>11. ds \in DirRecords /\ dp \in DirRecords
    <2>1. v \in VelocityFiles
      BY <1>5, <1>10, VelocityTyped
    <2> QED
      BY <1>3, <1>6, <2>1, NewDirTyped DEF DirRecords
  <1>12. ~ds.online /\ ds.secret = 1 /\ ds.port = k /\ dp.toml = v
    BY <1>3 DEF NewDir
  <1>13. ds # NetNone /\ dp # NetNone
    BY <1>11, NetDirAssumption
  <1>14. DirsTyped
    BY <1>4, <1>11 DEF DirsTyped
  <1>15. NamesApart
    BY <1>9 DEF NamesApart
  <1>16. KeptBut({})
    BY <1>4, <1>7, <1>9, <1>12, <1>13 DEF KeptBut, KeptAt
  <1>17. SyncedBut({})
    BY <1>4, <1>7, <1>9, <1>10, <1>12, <1>13 DEF SyncedBut, SyncedAt
  <1>18. \A t \in users.threads : FileStage(t)
    <2>1. \A t \in NetThreads : todo[t] = <<>>
      BY DEF NetInit
    <2>2. users.threads \subseteq NetThreads
      BY NetAssumption DEF NetInit
    <2> QED
      BY <1>16, <1>17, <2>1, <2>2, HarmlessSteps DEF FileStage, Resting
  <1> QED
    BY <1>14, <1>15, <1>18

LEMMA FileSerialNext == NetIInv /\ NetSerial /\ FileSerial /\ [NetNext]_netVars => FileSerial'
  <1> SUFFICES ASSUME NetIInv, NetSerial, FileSerial, [NetNext]_netVars, Serial', ~users'.failing
               PROVE  DirsTyped' /\ NamesApart' /\ \A t \in users'.threads : FileStage(t)'
    BY DEF FileSerial
  <1>1. UNCHANGED users
    BY RequestBegins, StepUsers DEF NetNext, Reboot, ProxyDies, ProxyEvent, netVars
  <1>2. Serial /\ ~users.failing
    BY <1>1 DEF Serial, OneThread
  <1>3. /\ news \in Seq([name : NetNames, run : BOOLEAN])
        /\ \A t \in NetThreads \ users.threads : todo[t] = <<>>
        /\ RowsTyped /\ RowsApart /\ RunsTold
        /\ \A t \in users.threads : Stage(t)
    BY <1>2 DEF NetSerial
  <1>4. DirsTyped /\ NamesApart /\ \A t \in users.threads : FileStage(t)
    BY <1>2 DEF FileSerial
  <1>5. PICK o \in NetThreads : users.threads = {o}
    BY <1>2 DEF Serial, OneThread
  <1>6. FilesNow(o)
    BY <1>2, <1>3, <1>4, <1>5 DEF FilesNow
  <1>7. ASSUME FilesNext(o)
        PROVE  DirsTyped' /\ NamesApart' /\ \A t \in users'.threads : FileStage(t)'
    <2>1. DirsTyped' /\ NamesApart' /\ FileStage(o)'
      BY <1>7 DEF FilesNext
    <2> QED
      BY <1>1, <1>5, <2>1
  <1>8. ASSUME NEW t \in NetThreads, NetStep(t) PROVE FilesNext(o)
    <2>1. todo[t] # <<>>
      BY <1>8, StepBusy
    <2>2. t = o
      BY <1>3, <1>5, <2>1
    <2> QED
      BY <1>6, <1>8, <2>2, StepFiles
  <1>9. ASSUME NEW t \in NetThreads, NetRequest(t) PROVE FilesNext(o)
    <2>1. StepsOK /\ \E kind, q : Begin(t, kind, q)
      BY <1>9, RequestBegins DEF NetIInv
    <2>2. t = o
      BY <1>5, <2>1, Requested
    <2> QED
      BY <1>6, <1>9, <2>2, RequestFiles
  <1>10. ASSUME UNCHANGED <<servers, dirs, todo>>, LiveProxies' = LiveProxies,
                \A p \in LiveProxies : proxies'[p].name = proxies[p].name
         PROVE  FilesNext(o)
    <2>1. /\ DirsTyped => DirsTyped'
          /\ NamesApart => NamesApart'
          /\ \A t : FileStage(t) => FileStage(t)'
      BY <1>1, <1>3, <1>10, FilesStay
    <2> QED
      BY <1>4, <1>5, <2>1 DEF FilesNext
  <1>11. CASE ProxyDies
    <2>1. UNCHANGED <<servers, proxies, dirs, todo>>
      BY <1>11 DEF ProxyDies, rows
    <2> QED
      BY <1>7, <1>10, <2>1, SameProxies
  <1>12. CASE ProxyEvent
    <2>1. UNCHANGED <<servers, dirs, todo>> /\ news # <<>>
      BY <1>12 DEF ProxyEvent
    <2>2. Head(news).run \in BOOLEAN
      <3>1. Head(news) \in [name : NetNames, run : BOOLEAN]
        BY <1>3, <2>1, EventMore
      <3> QED
        BY <3>1
    <2>3. Sequence(news) /\ Sequence(proxies)
      BY <1>3, Threads DEF Sequence
    <2>4. /\ LiveProxies' = LiveProxies
          /\ \A p \in LiveProxies : proxies'[p].name = proxies[p].name
      BY <1>3, <1>12, <2>2, <2>3, RunsEvent
    <2> QED
      BY <1>7, <1>10, <2>1, <2>4
  <1>13. ~Reboot
    BY <1>2 DEF Reboot, Serial
  <1>14. CASE UNCHANGED netVars
    <2>1. UNCHANGED <<servers, proxies, dirs, todo>>
      BY <1>14 DEF netVars
    <2> QED
      BY <1>7, <1>10, <2>1, SameProxies
  <1> QED
    BY <1>7, <1>8, <1>9, <1>11, <1>12, <1>13, <1>14 DEF NetNext

(* With one request at a time and no failing step, velocity.toml of every   *)
(* proxy lists its members, their ports and domains, and every member's own *)
(* files have its port, the proxy's secret and online-mode off: the list    *)
(* unless a server may have moved straight from one proxy to another, port  *)
(* and secret unless the member is a NanoLimbo server and servers join by   *)
(* an update.                                                               *)
THEOREM SerialFilesAgreeHolds == NetSpec => []SerialFilesAgree
  <1>1. NetSpec => [](NetIInv /\ NetSerial /\ FileSerial)
    BY NetSerialInvariance, NetInitFiles, FileSerialNext, PTL DEF NetSpec
  <1>2. ASSUME FileSerial, AtRest, ~users.failing
        PROVE  /\ "move" \notin users.ops =>
                    \A p \in LiveProxies : dirs[proxies[p].name].toml = VelocityOf(p)
               /\ \A i \in {j \in LiveServers : Behind(j)} :
                    LET d == dirs[servers[i].name]
                    IN  /\ ~d.online
                        /\ Follows(i) => d.secret = servers[i].proxy /\ d.port = servers[i].port
    <2>1. PICK o \in NetThreads : users.threads = {o}
      BY <1>2 DEF AtRest, Serial, OneThread
    <2>2. FileStage(o) /\ todo[o] = <<>>
      BY <1>2, <2>1 DEF FileSerial, AtRest, AllIdle, Idle
    <2>3. KeptBut({}) /\ SyncedBut({})
      BY <2>2, FileStageSettles DEF Resting
    <2> QED
      BY <2>3 DEF KeptBut, KeptAt, SyncedBut, SyncedAt
  <1>3. FileSerial => SerialFilesAgree
    BY <1>2 DEF SerialFilesAgree
  <1> QED
    BY <1>1, <1>3, PTL

=============================================================================
