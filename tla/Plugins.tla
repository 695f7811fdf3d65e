------------------------------ MODULE Plugins ------------------------------
(***************************************************************************)
(* Plugins of one server or proxy (plugin/manager.go, handlers/plugins.go) *)
(* and the bundled ones that every boot puts in place (updateBundledPlugins *)
(* of cmd/server/main.go).  A file and its row are written one after the    *)
(* other, and nothing makes a project's row unique.                         *)
(***************************************************************************)
EXTENDS Naturals, Sequences, FiniteSets, SequencesExt

CONSTANTS
    PlugProjects,   \* projects on Modrinth
    PlugNeeds,      \* the dependencies of each, in order: [project, required]
    PlugBundled,    \* jars that come with the manager, in the boot's order
    PlugRequests,   \* requests that can be under way
    PlugUsers,      \* kinds of requests, whether they overlap, whether steps
                    \* fail, and a bound: how many there are
    PlugNone

ASSUME PlugAssumption ==
    PlugBundled \in Seq({PlugBundled[i] : i \in DOMAIN PlugBundled})

VARIABLES
    plugRows,     \* installed_plugins: [project, ver]
    plugFiles,    \* [project, ver, whole] in the plugins directory
    newestVer,    \* the newest version of each project
    listed,       \* what the client's cache says it is, or PlugNone
    plugStep,     \* what a request does next
    resource,     \* the image's own version of the bundled jars
    bundle,       \* what a proxy has of each: [own, old]
    boot,         \* how far a boot is: the bundled jars still to do
    plugUsers, plugAsked

plugVars == <<plugRows, plugFiles, newestVer, listed, plugStep, resource, bundle,
              boot, plugUsers, plugAsked>>

PlugIdle == {q \in PlugRequests : plugStep[q] = PlugNone}

Spend(kind) ==
    /\ kind \in plugUsers.ops
    /\ plugAsked < plugUsers.most
    /\ plugAsked' = plugAsked + 1
    /\ UNCHANGED plugUsers

PlugAsk(kind) ==
    /\ IF plugUsers.overlap THEN PlugIdle # {} ELSE PlugIdle = PlugRequests
    /\ Spend(kind)

PlugFirst(step) == plugStep' = [plugStep EXCEPT ![CHOOSE q \in PlugIdle : TRUE] = step]

PlugDoes(q, do) == plugStep[q] # PlugNone /\ plugStep[q].do = do

PlugGoesOn == UNCHANGED <<newestVer, plugUsers, plugAsked>>

BundleStays == UNCHANGED <<resource, bundle, boot>>

-----------------------------------------------------------------------------
(* Modrinth *)

(* get answers from the cache for ten minutes; FindBestVersion takes the    *)
(* newest of the compatible versions listed.                                *)
BestVersion(p) == IF listed[p] = PlugNone THEN newestVer[p] ELSE listed[p]

Lists(p) == listed' = [listed EXCEPT ![p] = BestVersion(p)]

Expires ==
    /\ \E p \in PlugProjects :
        listed[p] # PlugNone /\ listed' = [listed EXCEPT ![p] = PlugNone]
    /\ Spend("release")
    /\ UNCHANGED <<plugRows, plugFiles, newestVer, plugStep>> /\ BundleStays

Releases ==
    /\ \E p \in PlugProjects : newestVer' = [newestVer EXCEPT ![p] = @ + 1]
    /\ Spend("release")
    /\ UNCHANGED <<plugRows, plugFiles, listed, plugStep>> /\ BundleStays

-----------------------------------------------------------------------------
(* Install *)

RowsOf(p) == SelectSeq(plugRows, LAMBDA r : r.project = p)

Installed(p) == RowsOf(p) # <<>>

PlugFile(p, v, whole) == [project |-> p, ver |-> v, whole |-> whole]

Without(p, v) == {f \in plugFiles : f.project # p \/ f.ver # v}

Required(p) ==
    LET need == SelectSeq(PlugNeeds[p], LAMBDA d : d.required) IN
    [i \in DOMAIN need |-> need[i].project]

(* One project of the list is installed at a time; "next" are those whose   *)
(* turn comes after it.  An installed one is refused, or passed over.       *)
InstallPlugin ==
    /\ PlugAsk("install")
    /\ \E p \in PlugProjects :
        /\ ~Installed(p)
        /\ Lists(p)
        /\ PlugFirst([do |-> "download", project |-> p, ver |-> BestVersion(p), next |-> <<>>])
    /\ UNCHANGED <<plugRows, plugFiles, newestVer>> /\ BundleStays

(* A download that breaks off leaves what it wrote. *)
DownloadPlugin(q) ==
    LET s == plugStep[q] IN
    /\ PlugDoes(q, "download")
    /\ \/ /\ plugFiles' = Without(s.project, s.ver) \cup {PlugFile(s.project, s.ver, TRUE)}
          /\ plugStep' = [plugStep EXCEPT ![q].do = "insert"]
       \/ /\ plugUsers.failing
          /\ plugFiles' \in {plugFiles,
                Without(s.project, s.ver) \cup {PlugFile(s.project, s.ver, FALSE)}}
          /\ plugStep' = [plugStep EXCEPT ![q] =
                IF s.next = <<>> THEN PlugNone ELSE [do |-> "needs", next |-> s.next]]
    /\ PlugGoesOn /\ UNCHANGED <<plugRows, listed>> /\ BundleStays

(* A row that cannot be written takes the file back.  getDependencies-       *)
(* Recursive goes depth first: a plugin's dependencies come before the rest. *)
InsertPlugin(q) ==
    LET s == plugStep[q] IN
    /\ PlugDoes(q, "insert")
    /\ \/ /\ plugRows' = Append(plugRows, [project |-> s.project, ver |-> s.ver])
          /\ plugStep' = [plugStep EXCEPT ![q] =
                [do |-> "needs", next |-> Required(s.project) \o s.next]]
          /\ UNCHANGED plugFiles
       \/ /\ plugUsers.failing
          /\ plugFiles' = Without(s.project, s.ver)
          /\ plugStep' = [plugStep EXCEPT ![q] =
                IF s.next = <<>> THEN PlugNone ELSE [do |-> "needs", next |-> s.next]]
          /\ UNCHANGED plugRows
    /\ PlugGoesOn /\ UNCHANGED listed /\ BundleStays

(* Mutant: an installed dependency ends the walk. *)
InstallNeedsStops(q) ==
    LET s == plugStep[q] IN
    /\ PlugDoes(q, "needs")
    /\ IF s.next = <<>> \/ Installed(Head(s.next))
       THEN plugStep' = [plugStep EXCEPT ![q] = PlugNone] /\ UNCHANGED listed
       ELSE /\ Lists(Head(s.next))
            /\ plugStep' = [plugStep EXCEPT ![q] =
                    [do |-> "download", project |-> Head(s.next),
                     ver |-> BestVersion(Head(s.next)), next |-> Tail(s.next)]]
    /\ PlugGoesOn /\ UNCHANGED <<plugRows, plugFiles>> /\ BundleStays

(* getDependenciesRecursive *)
InstallNeeds(q) ==
    LET s == plugStep[q] IN
    /\ PlugDoes(q, "needs")
    /\ \/ /\ s.next = <<>>
          /\ plugStep' = [plugStep EXCEPT ![q] = PlugNone]
          /\ UNCHANGED listed
       \/ /\ s.next # <<>> /\ (Installed(Head(s.next)) \/ plugUsers.failing)
          /\ plugStep' = [plugStep EXCEPT ![q].next = Tail(@)]
          /\ UNCHANGED listed
       \/ /\ s.next # <<>> /\ ~Installed(Head(s.next))
          /\ Lists(Head(s.next))
          /\ plugStep' = [plugStep EXCEPT ![q] =
                [do |-> "download", project |-> Head(s.next),
                 ver |-> BestVersion(Head(s.next)), next |-> Tail(s.next)]]
    /\ PlugGoesOn /\ UNCHANGED <<plugRows, plugFiles>> /\ BundleStays

-----------------------------------------------------------------------------
(* Update and Uninstall *)

(* The old file goes before the new one is fetched. *)
UpdatePlugin ==
    /\ PlugAsk("update")
    /\ \E p \in PlugProjects :
        LET row == Head(RowsOf(p)) IN
        /\ Installed(p)
        /\ Lists(p)
        /\ BestVersion(p) # row.ver
        /\ plugFiles' = Without(p, row.ver)
        /\ PlugFirst([do |-> "fetch", project |-> p, ver |-> BestVersion(p), from |-> row.ver])
    /\ UNCHANGED <<plugRows, newestVer>> /\ BundleStays

FetchUpdate(q) ==
    LET s == plugStep[q] IN
    /\ PlugDoes(q, "fetch")
    /\ \/ /\ plugFiles' = Without(s.project, s.ver) \cup {PlugFile(s.project, s.ver, TRUE)}
          /\ plugStep' = [plugStep EXCEPT ![q].do = "rewrite"]
       \/ /\ plugUsers.failing
          /\ plugFiles' \in {plugFiles,
                Without(s.project, s.ver) \cup {PlugFile(s.project, s.ver, FALSE)}}
          /\ plugStep' = [plugStep EXCEPT ![q] = PlugNone]
    /\ PlugGoesOn /\ UNCHANGED <<plugRows, listed>> /\ BundleStays

RewriteRow(q) ==
    LET s == plugStep[q] IN
    /\ PlugDoes(q, "rewrite")
    /\ \/ /\ plugRows' = [i \in DOMAIN plugRows |->
                IF plugRows[i].project = s.project
                THEN [plugRows[i] EXCEPT !.ver = s.ver] ELSE plugRows[i]]
          /\ UNCHANGED plugFiles
       \/ /\ plugUsers.failing
          /\ plugFiles' = Without(s.project, s.ver)
          /\ UNCHANGED plugRows
    /\ plugStep' = [plugStep EXCEPT ![q] = PlugNone]
    /\ PlugGoesOn /\ UNCHANGED listed /\ BundleStays

(* One row's file, then every row of the project. *)
UninstallPlugin ==
    /\ PlugAsk("uninstall")
    /\ \E p \in PlugProjects :
        /\ Installed(p)
        /\ plugFiles' = Without(p, Head(RowsOf(p)).ver)
        /\ PlugFirst([do |-> "forget", project |-> p])
    /\ UNCHANGED <<plugRows, newestVer, listed>> /\ BundleStays

ForgetPlugin(q) ==
    /\ PlugDoes(q, "forget")
    /\ \/ plugRows' = SelectSeq(plugRows, LAMBDA r : r.project # plugStep[q].project)
       \/ plugUsers.failing /\ UNCHANGED plugRows
    /\ plugStep' = [plugStep EXCEPT ![q] = PlugNone]
    /\ PlugGoesOn /\ UNCHANGED <<plugFiles, listed>> /\ BundleStays

-----------------------------------------------------------------------------
(* The bundled plugins: one whose name or size is another's makes the boot  *)
(* copy it again.                                                           *)

Kept(b) == IF bundle[b].own = resource THEN resource ELSE PlugNone

(* Mutant: a jar of the own name is taken to be the image's. *)
TakeOldByName ==
    /\ boot # <<>> /\ boot[1].do = "look"
    /\ LET j == boot[1].jar
           fresh == bundle[j].own # PlugNone /\ ~bundle[j].old
       IN  /\ bundle' = [bundle EXCEPT ![j].old = FALSE]
           /\ boot' = IF fresh THEN Tail(boot) ELSE [boot EXCEPT ![1].do = "open"]
    /\ UNCHANGED <<plugRows, plugFiles, listed, plugStep, resource>> /\ PlugGoesOn

TakeOld ==
    /\ boot # <<>> /\ boot[1].do = "look"
    /\ LET j == boot[1].jar
           fresh == bundle[j].own = resource /\ ~bundle[j].old
       IN  /\ bundle' = [bundle EXCEPT ![j] = [own |-> Kept(j), old |-> FALSE]]
           /\ boot' = IF fresh THEN Tail(boot) ELSE [boot EXCEPT ![1].do = "open"]
    /\ UNCHANGED <<plugRows, plugFiles, listed, plugStep, resource>> /\ PlugGoesOn

(* Nothing else is tried when a step fails: the next jar's turn comes. *)
OpenJar ==
    /\ boot # <<>> /\ boot[1].do = "open"
    /\ \/ /\ bundle' = [bundle EXCEPT ![boot[1].jar].own = 0]
          /\ boot' = [boot EXCEPT ![1].do = "fill"]
       \/ plugUsers.failing /\ boot' = Tail(boot) /\ UNCHANGED bundle
    /\ UNCHANGED <<plugRows, plugFiles, listed, plugStep, resource>> /\ PlugGoesOn

FillJar ==
    /\ boot # <<>> /\ boot[1].do = "fill"
    /\ \/ bundle' = [bundle EXCEPT ![boot[1].jar].own = resource]
       \/ plugUsers.failing /\ UNCHANGED bundle
    /\ boot' = Tail(boot)
    /\ UNCHANGED <<plugRows, plugFiles, listed, plugStep, resource>> /\ PlugGoesOn

Booting == [i \in DOMAIN PlugBundled |-> [do |-> "look", jar |-> PlugBundled[i]]]

(* The manager goes down at any moment and comes up, perhaps from a newer   *)
(* image, and users put jars of other names there.                          *)
PlugReboot ==
    /\ Spend("reboot")
    /\ resource' \in {resource, resource + 1}
    /\ \E more \in SUBSET DOMAIN bundle :
        bundle' = [b \in DOMAIN bundle |-> [bundle[b] EXCEPT !.old = @ \/ b \in more]]
    /\ boot' = Booting
    /\ plugStep' = [q \in PlugRequests |-> PlugNone]
    /\ listed' = [p \in PlugProjects |-> PlugNone]
    /\ UNCHANGED <<plugRows, plugFiles, newestVer>>

-----------------------------------------------------------------------------

PlugInit ==
    /\ plugUsers \in PlugUsers /\ plugAsked = 0
    /\ plugRows = <<>> /\ plugFiles = {}
    /\ newestVer = [p \in PlugProjects |-> 1]
    /\ listed = [p \in PlugProjects |-> PlugNone]
    /\ plugStep = [q \in PlugRequests |-> PlugNone]
    /\ resource = 1
    /\ bundle = [b \in {PlugBundled[i] : i \in DOMAIN PlugBundled} |->
                    [own |-> PlugNone, old |-> FALSE]]
    /\ boot = IF "reboot" \in plugUsers.ops THEN Booting ELSE <<>>

PlugNext ==
    \/ InstallPlugin \/ UpdatePlugin \/ UninstallPlugin
    \/ \E q \in PlugRequests :
        \/ DownloadPlugin(q) \/ InsertPlugin(q) \/ InstallNeeds(q)
        \/ FetchUpdate(q) \/ RewriteRow(q) \/ ForgetPlugin(q)
    \/ Expires \/ Releases
    \/ TakeOld \/ OpenJar \/ FillJar \/ PlugReboot

PlugSpec == PlugInit /\ [][PlugNext]_plugVars

-----------------------------------------------------------------------------
(* Properties *)

(* Requests that come one by one and succeed keep rows and files the same   *)
(* thing: each row its whole file, each file its row, a project once; and   *)
(* while nothing is uninstalled every installed plugin has what it, and     *)
(* what that in turn, requires (the depth-first walk, cycles included).     *)
SerialPluginsAgree ==
    /\ ~plugUsers.overlap /\ ~plugUsers.failing /\ "reboot" \notin plugUsers.ops
    /\ PlugIdle = PlugRequests
    =>  /\ plugFiles = {PlugFile(plugRows[i].project, plugRows[i].ver, TRUE) : i \in DOMAIN plugRows}
        /\ \A p \in PlugProjects : Len(RowsOf(p)) <= 1
        /\ "uninstall" \notin plugUsers.ops =>
            \A p \in PlugProjects : Installed(p) =>
                \A i \in DOMAIN Required(p) : Installed(Required(p)[i])

(* However often the manager went down in the middle, a boot that gets to   *)
(* its end without a failing step leaves each bundled plugin once, whole    *)
(* and the image's own.                                                      *)
BundledReady ==
    "reboot" \in plugUsers.ops /\ boot = <<>> /\ ~plugUsers.failing =>
        \A b \in DOMAIN bundle : bundle[b] = [own |-> resource, old |-> FALSE]

=============================================================================
