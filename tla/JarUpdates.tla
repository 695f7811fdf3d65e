----------------------------- MODULE JarUpdates -----------------------------
(***************************************************************************)
(* Checking for a newer jar and putting it in place (mc/updates.go,        *)
(* mc/download.go, handlers/jar_updates.go and manual_updates.go), for one *)
(* server or proxy.  A download overwrites the jar where it is; a manual   *)
(* upload is written beside it, under one name for all uploads, and renamed *)
(* onto it; the row that says which build it is comes last.  Answers of    *)
(* the sites are cached for an hour, by version and build.                  *)
(***************************************************************************)
EXTENDS Integers, Sequences, FiniteSets, FiniteSetsExt, SequencesExt

CONSTANTS
    VelocityNames,  \* versions [nums, snap], oldest first
    JarRequests,    \* requests that can be under way
    JarUsers,       \* kinds of requests, whether they overlap, whether steps
                    \* fail, the kind of jar, the channels of its builds, and
                    \* a bound: how many requests there are
    JarNone

VARIABLES
    upstream,    \* what the site lists: versions with their builds
    jar,         \* the file: [rel, whole, writers], of no rel when broken
    jarUpload,   \* .upload_temp.jar, the same record, or nothing
    jarRow,      \* version and build as the database has them
    installed,   \* what an installer jar made at some start, or JarNone
    jarUp,       \* the status is running
    jarCache,    \* cached answers: [key, has, latest], by the row they are for
    jarStep,     \* what a request does next
    jarUsers, jarAsked

jarVars == <<upstream, jar, jarUpload, jarRow, installed, jarUp, jarCache, jarStep,
             jarUsers, jarAsked>>

Kind == jarUsers.kind  \* "paper", "purpur", "nanolimbo", "velocity", "installer"

Rel(v, b) == [ver |-> v, id |-> b]

-----------------------------------------------------------------------------
(* What a check finds and what an update downloads *)

(* Mutant: snapshots are releases. *)
VersionLessBlind(a, b) ==
    LET part(v, i) == IF i <= Len(v.nums) THEN v.nums[i] ELSE 0
        differ == {i \in 1 .. Max({Len(a.nums), Len(b.nums)}) : part(a, i) # part(b, i)}
    IN  differ # {} /\ part(a, Min(differ)) < part(b, Min(differ))

(* velocityVersionLess: missing parts count as 0, a snapshot comes before   *)
(* its release.                                                             *)
VersionLess(a, b) ==
    LET part(v, i) == IF i <= Len(v.nums) THEN v.nums[i] ELSE 0
        differ == {i \in 1 .. Max({Len(a.nums), Len(b.nums)}) : part(a, i) # part(b, i)}
    IN  IF differ # {} THEN part(a, Min(differ)) < part(b, Min(differ))
        ELSE a.snap /\ ~b.snap

ChannelPriority(c) ==
    CASE c = "RECOMMENDED" -> 3 [] c = "STABLE" -> 2 [] OTHER -> 1

(* latestVelocityBuild: every group flattened and sorted, newest first; the *)
(* first with builds; in it the best channel, then the greatest id.  A      *)
(* version whose builds cannot be read is passed over.                      *)
LatestVelocityBuildOf(groups, silent) ==
    LET sorted == SortSeq(groups,
                    LAMBDA x, y : VersionLess(VelocityNames[y.ver], VelocityNames[x.ver]))
        built == SelectSeq(sorted, LAMBDA x : x.ver \notin silent /\ x.builds # <<>>)
        best == CHOOSE b \in Range(Head(built).builds) :
                    \A c \in Range(Head(built).builds) :
                        LET p == ChannelPriority(b.channel)
                            r == ChannelPriority(c.channel)
                        IN  p > r \/ (p = r /\ b.id >= c.id)
    IN  IF built = <<>> THEN JarNone ELSE Rel(Head(built).ver, best.id)

LatestVelocityBuild(silent) == LatestVelocityBuildOf(upstream, silent)

(* Versions whose list of builds does not come while one request looks. *)
Silences ==
    IF jarUsers.failing /\ Kind = "velocity"
    THEN SUBSET {v.ver : v \in Range(upstream)} ELSE {{}}

Builds == Head(upstream).builds

StableIds == {b.id : b \in {c \in Range(Builds) : c.channel = "STABLE"}}

(* CheckPaperUpdate starts from the first build of the list, *)
PaperListed ==
    LET newer == {i \in StableIds : i > Head(Builds).id}
    IN  Rel(Head(upstream).ver, IF newer = {} THEN Head(Builds).id ELSE Max(newer))

(* DownloadPaperJar takes it only when none is stable. *)
PaperDownloaded ==
    Rel(Head(upstream).ver, IF StableIds = {} THEN Head(Builds).id ELSE Max(StableIds))

Newest == Rel(Head(upstream).ver, Max({b.id : b \in Range(Builds)}))

(* What an update would download now. *)
Pick(silent) ==
    CASE Kind = "velocity" -> LatestVelocityBuild(silent)
      [] Kind = "paper" -> PaperDownloaded
      [] OTHER -> Newest

(* The builds the site lists. *)
Listings == UNION {{Rel(v.ver, b.id) : b \in Range(v.builds)} : v \in Range(upstream)}

(* The keys of the caches; NanoLimbo has one answer for all. *)
CacheKey(row) == IF Kind = "nanolimbo" THEN JarNone ELSE row

HasUpdate(silent) ==
    CASE Kind = "velocity" ->
            LET best == LatestVelocityBuild(silent) IN
            best # JarNone /\ (best.ver # jarRow.ver \/ best.id > jarRow.id)
      [] Kind = "paper" -> PaperListed.id > jarRow.id
      [] Kind = "purpur" -> jarRow.id = 0 \/ Newest.id > jarRow.id
      [] OTHER -> Newest.id > jarRow.id

Cached(row) == {c \in jarCache : c.key = CacheKey(row)}

(* What the sites say of the row; LatestVersion is read for NanoLimbo only. *)
Answer(silent) ==
    [key |-> CacheKey(jarRow), has |-> HasUpdate(silent),
     latest |-> IF Kind = "nanolimbo" THEN Newest ELSE JarNone]

(* What a check answers. *)
Answers(silent) == IF Cached(jarRow) # {} THEN Cached(jarRow) ELSE {Answer(silent)}

Offered(silent) == \E c \in Answers(silent) : c.has

-----------------------------------------------------------------------------
(* Files, which several may write at once: to create a name that is there    *)
(* truncates its file, and a writer keeps the file he opened when that is    *)
(* renamed.  Writers of different builds leave a mixture; where one stops    *)
(* half way the file is taken to be broken.                                  *)

EmptyJar == [rel |-> JarNone, whole |-> FALSE, writers |-> {}]

(* os.Create *)
Truncated(file, q, rel) ==
    [rel |-> IF \E p \in file.writers \ {q} : jarStep[p].gets # rel THEN JarNone ELSE rel,
     whole |-> FALSE, writers |-> file.writers \cup {q}]

(* io.Copy *)
Filled(file, q) ==
    IF q \notin file.writers THEN file
    ELSE [rel |-> file.rel,
          whole |-> file.rel = jarStep[q].gets /\ file.writers = {q},
          writers |-> file.writers \ {q}]

Abandoned(file, gone) ==
    IF gone \cap file.writers = {} THEN file
    ELSE [rel |-> JarNone, whole |-> FALSE, writers |-> file.writers \ gone]

-----------------------------------------------------------------------------
(* Requests *)

JarAtRest == [do |-> "idle"]

JarIdle == {q \in JarRequests : jarStep[q].do = "idle"}

AskJar(kind) ==
    /\ kind \in jarUsers.ops
    /\ jarAsked < jarUsers.most
    /\ jarAsked' = jarAsked + 1
    /\ UNCHANGED jarUsers

Handle(kind) ==
    /\ IF jarUsers.overlap THEN JarIdle # {} ELSE JarIdle = JarRequests
    /\ AskJar(kind)

First(step) == jarStep' = [jarStep EXCEPT ![CHOOSE q \in JarIdle : TRUE] = step]

Step(q, do) == jarStep[q].do = do

Then(q, do) == jarStep' = [jarStep EXCEPT ![q].do = do]

Ends(q) == jarStep' = [jarStep EXCEPT ![q] = JarAtRest]

JarGoesOn == UNCHANGED <<upstream, jarUsers, jarAsked>>

(* CheckServerJarUpdate and CheckProxyJarUpdate; nothing is kept when the   *)
(* site lists nothing.                                                      *)
CheckJarUpdate ==
    /\ Handle("check")
    /\ Kind # "installer"
    /\ Cached(jarRow) = {}
    /\ \E silent \in Silences :
        jarCache' = IF Pick(silent) = JarNone THEN jarCache ELSE jarCache \cup {Answer(silent)}
    /\ UNCHANGED <<upstream, jar, jarUpload, jarRow, installed, jarUp, jarStep>>

(* updateCacheTTL, and the sweeps. *)
CacheExpires ==
    /\ AskJar("expire")
    /\ jarCache # {}
    /\ \E c \in jarCache : jarCache' = jarCache \ {c}
    /\ UNCHANGED <<upstream, jar, jarUpload, jarRow, installed, jarUp, jarStep>>

(* UpdateServerJar and UpdateProxyJar.  NanoLimbo's first asks what a check   *)
(* answers, which may be cached, and takes the version it names.            *)
UpdateJar ==
    /\ Handle("update")
    /\ ~jarUp
    /\ Kind # "installer"
    /\ \/ /\ Kind = "nanolimbo"
          /\ \E c \in Answers({}) :
              /\ jarCache' = jarCache \cup {c}
              /\ IF c.has THEN First([do |-> "create", rel |-> c.latest])
                 ELSE UNCHANGED jarStep
       \/ /\ Kind # "nanolimbo"
          /\ \E silent \in Silences :
              Pick(silent) \in Listings /\ First([do |-> "create", rel |-> Pick(silent)])
          /\ UNCHANGED jarCache
    /\ UNCHANGED <<upstream, jar, jarUpload, jarRow, installed, jarUp>>

(* downloadFile: the file is truncated first.  Purpur's address is that of  *)
(* the latest build, whatever build was read before.                        *)
CreateFile(q) ==
    /\ Step(q, "create")
    /\ \/ LET rel == IF Kind = "purpur" THEN Newest ELSE jarStep[q].rel IN
          /\ jar' = Truncated(jar, q, rel)
          /\ jarStep' = [jarStep EXCEPT ![q] =
                [do |-> "copy", rel |-> jarStep[q].rel, gets |-> rel]]
       \/ jarUsers.failing /\ Ends(q) /\ UNCHANGED jar
    /\ JarGoesOn /\ UNCHANGED <<jarUpload, jarRow, installed, jarUp, jarCache>>

CopyFile(q) ==
    /\ Step(q, "copy")
    /\ \/ jar' = Filled(jar, q) /\ Then(q, "row")
       \/ jarUsers.failing /\ jar' = Abandoned(jar, {q}) /\ Ends(q)
    /\ JarGoesOn /\ UNCHANGED <<jarUpload, jarRow, installed, jarUp, jarCache>>

(* Mutant: the cached answer stays. *)
WriteRowOnly(q) == jarRow' = jarStep[q].rel /\ UNCHANGED jarCache

(* ClearPaperCache and ClearVelocityCache drop the answer for the new row.  *)
WriteRow(q) ==
    /\ jarRow' = jarStep[q].rel
    /\ jarCache' = IF Kind \in {"paper", "velocity"}
                   THEN jarCache \ Cached(jarRow') ELSE jarCache

RecordUpdate(q) ==
    /\ Step(q, "row")
    /\ \/ WriteRow(q)
       \/ jarUsers.failing /\ UNCHANGED <<jarRow, jarCache>>
    /\ Ends(q)
    /\ JarGoesOn /\ UNCHANGED <<jar, jarUpload, installed, jarUp>>

(* ManualServerJarUpdate saves the upload beside the jar and renames it.    *)
ManualUpdate ==
    /\ Handle("manual")
    /\ ~jarUp /\ Kind # "velocity"
    /\ \E id \in {b.id : b \in Range(Builds)}, known \in BOOLEAN :
        /\ known \/ Kind \in {"paper", "purpur"}
        /\ LET rel == Rel(Head(upstream).ver, id) IN
           First([do |-> "save", rel |-> rel, gets |-> rel, known |-> known])
    /\ UNCHANGED <<upstream, jar, jarUpload, jarRow, installed, jarUp, jarCache>>

(* Whoever fails to create, to fill or to rename it removes what is there by *)
(* the name of the temporary file.                                          *)
SaveUpload(q) ==
    /\ Step(q, "save")
    /\ \/ /\ \E file \in IF jarUpload = {} THEN {EmptyJar} ELSE jarUpload :
              jarUpload' = {Truncated(file, q, jarStep[q].gets)}
          /\ Then(q, "fill")
       \/ jarUsers.failing /\ jarUpload' = {} /\ Ends(q)
    /\ JarGoesOn /\ UNCHANGED <<jar, jarRow, installed, jarUp, jarCache>>

(* The file may have become the jar, by another's rename. *)
FillUpload(q) ==
    /\ Step(q, "fill")
    /\ \/ /\ jar' = Filled(jar, q)
          /\ jarUpload' = {Filled(file, q) : file \in jarUpload}
          /\ Then(q, "place")
       \/ /\ jarUsers.failing
          /\ jar' = Abandoned(jar, {q}) /\ jarUpload' = {}
          /\ Ends(q)
    /\ JarGoesOn /\ UNCHANGED <<jarRow, installed, jarUp, jarCache>>

(* os.Rename: whatever the temporary file is by now. *)
PlaceJar(q) ==
    /\ Step(q, "place")
    /\ jarUpload' = {}
    /\ \/ jar' \in jarUpload /\ Then(q, "clean")
       \/ (jarUsers.failing \/ jarUpload = {}) /\ Ends(q) /\ UNCHANGED jar
    /\ JarGoesOn /\ UNCHANGED <<jarRow, installed, jarUp, jarCache>>

(* Mutant: what the old jar installed stays. *)
KeepInstalled(q) ==
    /\ Step(q, "clean")
    /\ Then(q, "record")
    /\ JarGoesOn /\ UNCHANGED <<jar, jarUpload, jarRow, installed, jarUp, jarCache>>

(* manualUpdateCleanupPaths: what the next start makes again; errors do not *)
(* count.                                                                   *)
CleanInstalled(q) ==
    /\ Step(q, "clean")
    /\ \/ installed' = JarNone
       \/ (jarUsers.failing \/ Kind # "installer") /\ UNCHANGED installed
    /\ Then(q, "record")
    /\ JarGoesOn /\ UNCHANGED <<jar, jarUpload, jarRow, jarUp, jarCache>>

(* A build that was not given is recorded as 0. *)
RecordManual(q) ==
    /\ Step(q, "record")
    /\ \/ jarRow' = Rel(jarStep[q].rel.ver, IF jarStep[q].known THEN jarStep[q].rel.id ELSE 0)
       \/ jarUsers.failing /\ UNCHANGED jarRow
    /\ Ends(q)
    /\ JarGoesOn /\ UNCHANGED <<jar, jarUpload, installed, jarUp, jarCache>>

-----------------------------------------------------------------------------
(* Around it *)

(* The entrypoint runs an installer only when what it makes is missing; a   *)
(* broken one makes nothing.                                                 *)
StartJar ==
    /\ Handle("start")
    /\ ~jarUp /\ jarUp' = TRUE
    /\ installed' = IF Kind = "installer" /\ installed = JarNone /\ jar.whole
                    THEN jar.rel ELSE installed
    /\ UNCHANGED <<upstream, jar, jarUpload, jarRow, jarCache, jarStep>>

StopJar ==
    /\ Handle("start")
    /\ jarUp /\ jarUp' = FALSE
    /\ UNCHANGED <<upstream, jar, jarUpload, jarRow, installed, jarCache, jarStep>>

CrashJar ==
    /\ "crash" \in jarUsers.ops /\ JarIdle # JarRequests
    /\ jarStep' = [q \in JarRequests |-> JarAtRest]
    /\ jar' = Abandoned(jar, JarRequests)
    /\ jarUpload' = {Abandoned(file, JarRequests) : file \in jarUpload}
    /\ jarCache' = {}
    /\ JarGoesOn /\ UNCHANGED <<jarRow, installed, jarUp>>

(* The sites: a build is added (lists come newest first) or, on the Fill    *)
(* API, gets another channel; Velocity's versions come in any order.        *)
NextId == 1 + Max({1} \cup {b.id : b \in UNION {Range(v.builds) : v \in Range(upstream)}})

Publish ==
    /\ AskJar("publish")
    /\ \E i \in DOMAIN upstream, c \in jarUsers.channels :
        /\ upstream' = [upstream EXCEPT ![i].builds =
                            <<[id |-> NextId, channel |-> c]>> \o upstream[i].builds]
    /\ UNCHANGED <<jar, jarUpload, jarRow, installed, jarUp, jarCache, jarStep>>

Rechannel ==
    /\ AskJar("publish")
    /\ Kind \in {"paper", "velocity"}
    /\ \E i \in DOMAIN upstream, c \in jarUsers.channels :
        \E k \in DOMAIN upstream[i].builds :
            upstream' = [upstream EXCEPT ![i].builds[k].channel = c]
    /\ UNCHANGED <<jar, jarUpload, jarRow, installed, jarUp, jarCache, jarStep>>

(* The build the row names is there from the start. *)
Listed(v) ==
    [ver |-> v, builds |-> IF v = 1 THEN <<[id |-> 1, channel |-> "STABLE"]>> ELSE <<>>]

JarInit ==
    /\ jarUsers \in JarUsers /\ jarAsked = 0
    /\ upstream \in IF Kind = "velocity"
                    THEN SetToAllKPermutations({Listed(v) : v \in DOMAIN VelocityNames})
                    ELSE {<<Listed(1)>>}
    /\ jarRow = Rel(1, 1)
    /\ jar = [rel |-> jarRow, whole |-> TRUE, writers |-> {}]
    /\ jarUpload = {}
    /\ installed = IF Kind = "installer" THEN jarRow ELSE JarNone
    /\ jarUp = FALSE /\ jarCache = {}
    /\ jarStep = [q \in JarRequests |-> JarAtRest]

JarNext ==
    \/ CheckJarUpdate \/ UpdateJar \/ ManualUpdate
    \/ \E q \in JarRequests :
        \/ CreateFile(q) \/ CopyFile(q) \/ RecordUpdate(q)
        \/ SaveUpload(q) \/ FillUpload(q) \/ PlaceJar(q) \/ CleanInstalled(q)
        \/ RecordManual(q)
    \/ CacheExpires \/ StartJar \/ StopJar \/ CrashJar \/ Publish \/ Rechannel

JarSpec == JarInit /\ [][JarNext]_jarVars

-----------------------------------------------------------------------------
(* Properties *)

(* Requests that come one by one and succeed leave the jar whole, its row   *)
(* naming it (a build not given is 0; Purpur's may have been published      *)
(* between the look and the download), and what a running installer server  *)
(* runs made by it.  Without downloads, and again one by one, the jar is    *)
(* whole whatever fails and wherever the manager crashes: what an upload    *)
(* that was cut short has left never becomes the jar.                       *)
SerialJarMatchesRow ==
    /\ ~jarUsers.overlap /\ ~jarUsers.failing /\ "crash" \notin jarUsers.ops
        /\ JarIdle = JarRequests =>
            /\ jar.whole
            /\ jarRow.ver = jar.rel.ver
            /\ \/ jarRow.id = jar.rel.id
               \/ jarRow.id = 0 /\ Kind \in {"paper", "purpur"}
               \/ jarRow.id < jar.rel.id /\ Kind = "purpur"
            /\ jarUp /\ Kind = "installer" => installed = jar.rel
    /\ ~jarUsers.overlap /\ "update" \notin jarUsers.ops => jar.whole

(* The build picked for Velocity is of the newest version that has builds,  *)
(* of those whose builds could be read, in whatever order the groups are    *)
(* listed (the comment on latestVelocityBuild), and no better one of that   *)
(* version is passed over.                                                  *)
VelocityIsNewest ==
    Kind = "velocity" => \A silent \in Silences :
        LatestVelocityBuild(silent) # JarNone =>
            LET best == LatestVelocityBuild(silent) IN
            \A v \in Range(upstream) :
                /\ v.builds # <<>> /\ v.ver \notin silent => v.ver <= best.ver
                /\ v.ver = best.ver =>
                    \A b \in Range(v.builds) :
                        b.id > best.id => \E c \in Range(v.builds) :
                            c.id = best.id /\ c.channel \in {"STABLE", "RECOMMENDED"}

(* After an update that put the newest build in place and into the row a    *)
(* check has nothing more to offer, an answer cached before notwithstanding, *)
(* as long as the same lists of builds are read.  Paper's check and download *)
(* agree only where the list starts with a stable build or has none;        *)
(* NanoLimbo's cached answer stays.                                          *)
UpdateSettles ==
    [][\A q \in JarRequests, silent \in Silences :
        /\ RecordUpdate(q) /\ WriteRow(q) /\ jarStep[q].rel = Pick(silent)
        /\ Kind # "nanolimbo"
        /\ Kind = "paper" => PaperListed = PaperDownloaded
        => ~Offered(silent)']_jarVars

=============================================================================
