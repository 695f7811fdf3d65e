---------------------------- MODULE MCEntities ----------------------------
(* Servers and proxies as the handlers keep them on disk and in the        *)
(* database, in five parts that share no state here: the files that tie    *)
(* them together, links between their files, their jars, their plugins, and *)
(* the restoring of all files from a backup.                               *)
(* One part takes steps in a behaviour; the others stay as they start.     *)
EXTENDS Network, Links, JarUpdates, Plugins, Restore

CONSTANTS a, b, c1, d1, t1, t2, s1, p1, none

VARIABLE part

mcVars == <<netVars, linkVars, jarVars, plugVars, restoreVars, part>>

-----------------------------------------------------------------------------
(* Network: every scope has its kinds of requests; the last three overlap. *)

Alone(ops, failing, lines) ==
    [ops |-> ops, threads |-> {t1}, failing |-> failing, indexed |-> FALSE,
     lines |-> lines, limbo |-> {FALSE}, most |-> 4]

Together(ops, indexed) ==
    [ops |-> ops, threads |-> {t1, t2}, failing |-> TRUE, indexed |-> indexed,
     lines |-> {"null"}, limbo |-> {FALSE}, most |-> 2]

Limbos(u, limbo) == [u EXCEPT !.limbo = limbo]

NoNet == [Alone({}, FALSE, {"null"}) EXCEPT !.most = 0]

MCNetUsers ==
    {NoNet,
     Alone({"create", "delete", "rename", "leave", "join", "domain"}, FALSE, {"null"}),
     Limbos(Alone({"create", "leave", "join"}, FALSE, {"null"}), BOOLEAN),
     Limbos(Alone({"create", "delete", "rename", "leave"}, FALSE, {"null"}), {TRUE}),
     Alone({"createProxy", "deleteProxy", "renameProxy", "join", "create"}, FALSE, {"null"}),
     Alone({"createProxy", "move", "join", "lines", "rename", "delete"}, FALSE, {"null"}),
     Alone({"create", "lines", "icons", "rename", "leave", "join"}, FALSE, {"null", "set"}),
     Alone({"icons", "lines", "crash", "renameProxy"}, FALSE, {"null"}),
     Alone({"udp", "createProxy", "create"}, TRUE, {"null"}),
     Limbos(Alone({"create", "createProxy", "delete", "rename"}, TRUE, {"null"}), BOOLEAN),
     Alone({"run", "renameProxy", "deleteProxy"}, TRUE, {"null"}),
     Together({"create", "createProxy", "rename", "renameProxy", "crash"}, FALSE),
     Together({"create", "createProxy", "rename", "renameProxy"}, TRUE),
     Together({"create", "delete", "deleteProxy", "join", "leave"}, TRUE)}

(* Names are interchangeable: the first proxy and server have given ones. *)
MCNetInit ==
    /\ NetInit
    /\ part # "network" => users = NoNet
    /\ part = "network" => users # NoNet
    /\ proxies[1].name = a /\ servers[1].name = b /\ proxies[1].port = 1

-----------------------------------------------------------------------------
(* Links: a server and a proxy *)

LinkOps == {"create", "delete", "unlink", "deleteFile", "rename", "write", "upload",
            "deleteEntity", "start"}

NoLinks == [ops |-> {}, overlap |-> FALSE, failing |-> FALSE, most |-> 0]

MCLinkUsers ==
    {NoLinks,
     [ops |-> LinkOps, overlap |-> FALSE, failing |-> FALSE, most |-> 4],
     [ops |-> LinkOps \cup {"nested", "renameOnto", "crash"}, overlap |-> TRUE,
      failing |-> TRUE, most |-> 3]}

MCLinkInit ==
    /\ LinkInit
    /\ (part = "links") <=> linkUsers # NoLinks
    /\ part # "links" => \A l \in Places : disk[l] # LinkNone

-----------------------------------------------------------------------------
(* Jars *)

Jars(kinds, ops, most, channels) ==
    [kind : kinds, ops : {ops}, channels : {channels}, most : {most},
     overlap : {FALSE}, failing : {FALSE}]

Mixed(u) == [u EXCEPT !.overlap = TRUE, !.failing = TRUE, !.ops = @ \cup {"crash"}]

JarOps == {"check", "expire", "update", "manual", "start", "publish"}

NoJars == [kind |-> "paper", ops |-> {}, channels |-> {}, most |-> 0,
           overlap |-> FALSE, failing |-> FALSE]

MCJarUsers ==
    {NoJars}
    \cup Jars({"paper"}, JarOps, 4, {"STABLE", "BETA"})
    \cup Jars({"purpur", "nanolimbo", "installer"}, JarOps, 5, {"STABLE"})
    \cup Jars({"velocity"}, {"check", "update", "publish"}, 4, {"RECOMMENDED", "STABLE"})
    \cup {Mixed(u) : u \in Jars({"paper", "purpur"}, JarOps \ {"expire"}, 3, {"STABLE"})
                           \cup Jars({"installer"}, {"manual", "start"}, 4, {"STABLE"})
                           \cup Jars({"velocity"}, {"check", "update", "publish"}, 3, {"STABLE"})}
    \cup {[u EXCEPT !.failing = TRUE] :
            u \in Jars({"paper", "installer"}, {"manual", "start", "publish", "crash"}, 4, {"STABLE"})}

Version(nums, snap) == [nums |-> nums, snap |-> snap]

MCVelocityNames ==
    <<Version(<<3, 5>>, FALSE), Version(<<4, 0>>, TRUE), Version(<<4>>, FALSE)>>

MCJarInit ==
    /\ JarInit
    /\ (part = "jars") <=> jarUsers # NoJars

-----------------------------------------------------------------------------
(* Plugins: a and b require each other, b requires c1; a can do without. *)

Needs(p, r) == [project |-> p, required |-> r]

MCPlugNeeds ==
    (a :> <<Needs(c1, FALSE), Needs(b, TRUE)>>) @@ (b :> <<Needs(a, TRUE), Needs(c1, TRUE)>>)
    @@ (c1 :> <<>>)

MCBundled == <<"DemiAuth", "DemiDynamic">>

Asking(ops, overlap, failing, most) ==
    [ops |-> ops, overlap |-> overlap, failing |-> failing, most |-> most]

NoPlugins == Asking({}, FALSE, FALSE, 0)

PlugOps == {"install", "update", "release"}

MCPlugUsers ==
    {NoPlugins,
     Asking(PlugOps, FALSE, FALSE, 5),
     Asking(PlugOps \cup {"uninstall"}, FALSE, FALSE, 5),
     Asking(PlugOps \cup {"uninstall"}, TRUE, TRUE, 3),
     Asking({"reboot"}, FALSE, FALSE, 4), Asking({"reboot"}, FALSE, TRUE, 3)}

MCPlugInit ==
    /\ PlugInit
    /\ (part = "plugins") <=> plugUsers # NoPlugins

-----------------------------------------------------------------------------
(* Restores, one at a time: while one is at work no other begins, nothing   *)
(* is archived and nothing changes the files, but the manager may go down. *)

MCRestoreNext ==
    /\ RestoreNext
    /\ LET busy == {q \in Restores : restore[q] # Absent}
       IN  busy # {} =>
            /\ restore' # restore
            /\ \A q \in Restores \ busy : restore'[q] = Absent

MCRestoreSpec == RestoreInit /\ [][MCRestoreNext]_restoreVars

-----------------------------------------------------------------------------

MCInit ==
    /\ part \in {"network", "links", "jars", "plugins", "restore"}
    /\ MCNetInit /\ MCLinkInit /\ MCJarInit /\ MCPlugInit /\ RestoreInit

MCNext ==
    \/ part = "network" /\ NetNext /\ UNCHANGED <<linkVars, jarVars, plugVars, restoreVars, part>>
    \/ part = "links" /\ LinkNext /\ UNCHANGED <<netVars, jarVars, plugVars, restoreVars, part>>
    \/ part = "jars" /\ JarNext /\ UNCHANGED <<netVars, linkVars, plugVars, restoreVars, part>>
    \/ part = "plugins" /\ PlugNext /\ UNCHANGED <<netVars, linkVars, jarVars, restoreVars, part>>
    \/ part = "restore" /\ MCRestoreNext /\ UNCHANGED <<netVars, linkVars, jarVars, plugVars, part>>

MCSpec == MCInit /\ [][MCNext]_mcVars

=============================================================================
