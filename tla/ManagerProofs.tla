---------------------------- MODULE ManagerProofs -----------------------------
(***************************************************************************)
(* What is proved of the manager's links, the plugins a boot has bundled,   *)
(* the restores of backups, the jars and the WebSocket hub.                 *)
(***************************************************************************)
EXTENDS MCEntities, Hub, SequenceTheorems, WellFoundedInduction, TLAPS

-----------------------------------------------------------------------------
(***************************************************************************)
(* LinksInv for every number of entities, files and requests, with every    *)
(* overlap, failure and crash.  It is not inductive: a request inserts its  *)
(* row a step after it has looked at the places, so the invariant says what *)
(* the requests under way hold on to.  What follows symlinks on the disk    *)
(* (Followed) plays no part in it.                                          *)
(***************************************************************************)

(* A request in the middle of a Create or an Unlink has a link of two       *)
(* entities that are not the same.                                           *)
JobOK ==
    /\ DOMAIN job = LinkRequests
    /\ \A q \in LinkRequests : job[q] # LinkNone =>
        /\ {"do", "link"} \subseteq DOMAIN job[q]
        /\ job[q].link \in LinkRows
        /\ job[q].link.source.ent # job[q].link.target.ent

LinkIInv ==
    /\ LinksInv
    /\ DOMAIN mounts = LinkEntities
    /\ JobOK

LEMMA LinkInitInv == LinkInit => LinkIInv
  BY DEF LinkInit, LinkIInv, LinksInv, JobOK, Running

(* A request that begins holds on to the link it was given. *)
LEMMA GoesJob ==
    ASSUME JobOK, NEW j, Goes(j), {"do", "link"} \subseteq DOMAIN j,
           j.link \in LinkRows, j.link.source.ent # j.link.target.ent
    PROVE  JobOK'
  BY DEF JobOK, Goes

(* A request that ends holds on to nothing. *)
LEMMA EndsJob ==
    ASSUME JobOK, NEW q \in LinkRequests, job' = [job EXCEPT ![q] = LinkNone]
    PROVE  JobOK'
  BY DEF JobOK

(* Fewer rows cannot break what is said of the rows. *)
LEMMA FewerLinks ==
    ASSUME LinksInv, links' \subseteq links, entities' \subseteq entities,
           UNCHANGED mounts
    PROVE  LinksInv'
  BY DEF LinksInv, Running

LEMMA StartsAndStops ==
    ASSUME LinkIInv, NEW e, NEW ms, ms = LinkNone \/ ms \subseteq LinkRows,
           mounts' = [mounts EXCEPT ![e] = ms]
    PROVE  /\ DOMAIN mounts' = LinkEntities
           /\ \A x \in Running' : mounts'[x] \subseteq LinkRows
  BY DEF LinkIInv, LinksInv, Running

LEMMA InsertInv ==
    ASSUME LinkIInv, NEW q \in LinkRequests, InsertLink(q)
    PROVE  LinkIInv'
  <1> DEFINE r == job[q].link
  <1>1. job[q] # LinkNone /\ r \in LinkRows /\ r.source.ent # r.target.ent
    BY DEF InsertLink, LinkIInv, JobOK
  <1>2. JobOK' /\ DOMAIN mounts' = LinkEntities
    BY EndsJob DEF LinkIInv, InsertLink
  <1>3. UNCHANGED <<entities, mounts>>
    BY DEF InsertLink
  <1>4. CASE UNCHANGED links
    BY <1>2, <1>3, <1>4, FewerLinks DEF LinkIInv
  <1>5. CASE links' = links \cup {r} /\ LinkAt(r.target) = {}
    <2>1. \A s \in links : s.target # r.target
      BY <1>5 DEF LinkAt
    <2>2. LinksInv'
      BY <1>1, <1>3, <1>5, <2>1 DEF LinkIInv, LinksInv, Running
    <2> QED
      BY <1>2, <2>2 DEF LinkIInv
  <1> QED
    BY <1>4, <1>5 DEF InsertLink

LEMMA GoOnInv ==
    ASSUME LinkIInv, NEW q \in LinkRequests, RemoveSymlink(q) \/ PlaceCopy(q)
    PROVE  LinkIInv'
  <1>1. links' \subseteq links /\ UNCHANGED <<entities, mounts>>
    BY DEF RemoveSymlink, PlaceCopy
  <1>2. LinksInv' /\ DOMAIN mounts' = LinkEntities
    BY <1>1, FewerLinks DEF LinkIInv
  <1>3. CASE RemoveSymlink(q)
    <2>1. job[q] # LinkNone /\ job' = [job EXCEPT ![q] = [job[q] EXCEPT !.do = "place"]]
      BY <1>3 DEF RemoveSymlink
    <2>2. /\ DOMAIN job' = LinkRequests
          /\ \A p \in LinkRequests \ {q} : job'[p] = job[p]
          /\ job'[q] = [job[q] EXCEPT !.do = "place"]
      BY <2>1 DEF LinkIInv, JobOK
    <2>3. /\ {"do", "link"} \subseteq DOMAIN job'[q]
          /\ job'[q].link = job[q].link
      BY <2>1, <2>2 DEF LinkIInv, JobOK
    <2>4. JobOK'
      BY <2>1, <2>2, <2>3 DEF LinkIInv, JobOK
    <2> QED
      BY <1>2, <2>4 DEF LinkIInv
  <1>4. CASE PlaceCopy(q)
    <2>1. JobOK'
      BY <1>4, EndsJob DEF PlaceCopy, LinkIInv
    <2> QED
      BY <1>2, <2>1 DEF LinkIInv
  <1> QED
    BY <1>3, <1>4

LEMMA RequestInv ==
    ASSUME LinkIInv, LinkStep
    PROVE  LinkIInv'
  <1>1. CASE CreateLink
    <2>1. PICK s \in Places, l \in Places :
            /\ s.ent # l.ent
            /\ Goes([do |-> "insert", link |-> [source |-> s, target |-> l]])
      BY <1>1 DEF CreateLink
    <2>2. [source |-> s, target |-> l] \in LinkRows
      BY DEF LinkRows
    <2>3. JobOK'
      BY <2>1, <2>2, GoesJob DEF LinkIInv
    <2>4. UNCHANGED <<links, entities, mounts>>
      BY <1>1 DEF CreateLink
    <2> QED
      BY <2>3, <2>4, FewerLinks DEF LinkIInv
  <1>2. CASE UnlinkLink
    <2>1. PICK r \in links :
            Goes([do |-> "remove", link |-> r, from |-> Lplace(r.source),
                  copy |-> CopyOf(Lplace(r.source))])
      BY <1>2 DEF UnlinkLink
    <2>2. r \in LinkRows /\ r.source.ent # r.target.ent
      BY DEF LinkIInv, LinksInv
    <2>3. JobOK'
      BY <2>1, <2>2, GoesJob DEF LinkIInv
    <2>4. UNCHANGED <<links, entities, mounts>>
      BY <1>2 DEF UnlinkLink
    <2> QED
      BY <2>3, <2>4, FewerLinks DEF LinkIInv
  <1>3. CASE DeleteLink
    <2>1. links' \subseteq links /\ UNCHANGED <<entities, mounts, job>>
      BY <1>3 DEF DeleteLink
    <2> QED
      BY <2>1, FewerLinks DEF LinkIInv, JobOK
  <1>4. CASE DeleteServerFile \/ DeleteProxyFile
    <2>1. links' \subseteq links /\ UNCHANGED <<entities, mounts, job>>
      BY <1>4 DEF DeleteServerFile, DeleteProxyFile, DeletePath
    <2> QED
      BY <2>1, FewerLinks DEF LinkIInv, JobOK
  <1>5. CASE RenameServerFile \/ RenameProxyFile \/ WriteFileContent \/ UploadFile
    <2>1. UNCHANGED <<links, entities, mounts, job>>
      BY <1>5 DEF RenameServerFile, RenameProxyFile, RenamePath, WriteFileContent, UploadFile
    <2> QED
      BY <2>1, FewerLinks DEF LinkIInv, JobOK
  <1>6. CASE DeleteEntity
    <2>1. /\ links' \subseteq links /\ entities' \subseteq entities /\ UNCHANGED job
          /\ \E e \in entities : mounts' = [mounts EXCEPT ![e] = LinkNone]
      BY <1>6 DEF DeleteEntity
    <2>2. /\ DOMAIN mounts' = LinkEntities
          /\ \A x \in Running' : mounts'[x] \subseteq LinkRows
      BY <2>1, StartsAndStops
    <2> QED
      BY <2>1, <2>2 DEF LinkIInv, LinksInv, JobOK
  <1>7. CASE StartEntity \/ StopEntity
    <2>1. /\ UNCHANGED <<links, entities, job>>
          /\ \E e : \E ms \in {LinkNone, LinksToMounts(e)} : mounts' = [mounts EXCEPT ![e] = ms]
      BY <1>7 DEF StartEntity, StopEntity
    <2>2. \A e : LinksToMounts(e) \subseteq LinkRows
      BY DEF LinkIInv, LinksInv, LinksToMounts, LinksInto
    <2>3. /\ DOMAIN mounts' = LinkEntities
          /\ \A x \in Running' : mounts'[x] \subseteq LinkRows
      BY <2>1, <2>2, StartsAndStops
    <2> QED
      BY <2>1, <2>3 DEF LinkIInv, LinksInv, JobOK
  <1> QED
    BY <1>1, <1>2, <1>3, <1>4, <1>5, <1>6, <1>7 DEF LinkStep

(* The inductive invariant: rows have targets of their own, and so do the   *)
(* requests that are about to add or take one know what they are about.      *)
THEOREM LinkInvariance == LinkSpec => []LinkIInv
  <1>1. ASSUME LinkIInv, [LinkNext]_linkVars
        PROVE  LinkIInv'
    <2>1. CASE LinkStep
      BY <1>1, <2>1, RequestInv
    <2>2. CASE \E q \in LinkRequests : InsertLink(q) \/ RemoveSymlink(q) \/ PlaceCopy(q)
      BY <1>1, <2>2, InsertInv, GoOnInv
    <2>3. CASE LinkCrash
      <3>1. UNCHANGED <<links, entities, mounts>> /\ job' = [q \in LinkRequests |-> LinkNone]
        BY <2>3 DEF LinkCrash
      <3> QED
        BY <1>1, <3>1, FewerLinks DEF LinkIInv, JobOK
    <2>4. CASE UNCHANGED linkVars
      <3>1. UNCHANGED <<links, entities, mounts, job>>
        BY <2>4 DEF linkVars
      <3> QED
        BY <1>1, <3>1, FewerLinks DEF LinkIInv, JobOK
    <2> QED
      BY <1>1, <2>1, <2>2, <2>3, <2>4 DEF LinkNext
  <1> QED
    BY LinkInitInv, <1>1, PTL DEF LinkSpec

(* Targets are unique and nobody links to himself (links.go's Create, the   *)
(* file handlers, UNIQUE of file_links), in every reachable state.           *)
THEOREM LinksInvHolds == LinkSpec => []LinksInv
  <1>1. LinkIInv => LinksInv
    BY DEF LinkIInv
  <1> QED
    BY LinkInvariance, <1>1, PTL

-----------------------------------------------------------------------------
(***************************************************************************)
(* BundledReady, for any jars, any number of boots and any moment of a      *)
(* crash.  The invariant: a jar that is not as it should be is one the boot *)
(* has still to do, and what the boot is busy with has no old copy left.    *)
(***************************************************************************)
BundledJars == {PlugBundled[i] : i \in DOMAIN PlugBundled}

JarStates == [own : Nat \cup {PlugNone}, old : BOOLEAN]
BootSteps == [do : {"look", "open", "fill"}, jar : BundledJars]

Fresh == [own |-> resource, old |-> FALSE]

BundleIInv ==
    /\ resource \in Nat
    /\ bundle \in [BundledJars -> JarStates]
    /\ boot \in Seq(BootSteps)
    /\ \A i \in DOMAIN boot : i # 1 => boot[i].do = "look"
    /\ boot # <<>> /\ boot[1].do # "look" => ~bundle[boot[1].jar].old
    /\ "reboot" \in plugUsers.ops /\ ~plugUsers.failing =>
        \A j \in BundledJars : bundle[j] = Fresh \/ \E i \in DOMAIN boot : boot[i].jar = j

LEMMA BootingInv ==
    /\ Booting \in Seq(BootSteps)
    /\ \A i \in DOMAIN Booting : Booting[i].do = "look"
    /\ \A j \in BundledJars : \E i \in DOMAIN Booting : Booting[i].jar = j
  <1>1. DOMAIN PlugBundled = 1 .. Len(PlugBundled) /\ Len(PlugBundled) \in Nat
    BY PlugAssumption
  <1>2. /\ DOMAIN Booting = DOMAIN PlugBundled
        /\ \A i \in DOMAIN PlugBundled : Booting[i] = [do |-> "look", jar |-> PlugBundled[i]]
    BY DEF Booting
  <1>3. \A i \in DOMAIN PlugBundled : Booting[i] \in BootSteps
    BY <1>2 DEF BootSteps, BundledJars
  <1>4. Booting \in [1 .. Len(PlugBundled) -> BootSteps]
    BY <1>1, <1>2, <1>3 DEF Booting
  <1>5. Booting \in Seq(BootSteps)
    BY <1>1, <1>4
  <1> QED
    BY <1>2, <1>5 DEF BundledJars

(* The jar whose turn it is changes, and the boot stays with it ... *)
LEMMA BootStays ==
    ASSUME BundleIInv, boot # <<>>, NEW j, j = boot[1].jar, NEW x \in JarStates,
           bundle' = [bundle EXCEPT ![j] = x], ~x.old, NEW step \in {"open", "fill"},
           boot' = [boot EXCEPT ![1] = [boot[1] EXCEPT !.do = step]],
           UNCHANGED <<resource, plugUsers>>
    PROVE  BundleIInv'
  <1>1. boot[1] \in BootSteps /\ 1 \in DOMAIN boot
    BY DEF BundleIInv
  <1>2. [boot[1] EXCEPT !.do = step] \in BootSteps
        /\ [boot[1] EXCEPT !.do = step].jar = j /\ j \in BundledJars
    BY <1>1 DEF BootSteps
  <1> DEFINE y == [boot[1] EXCEPT !.do = step]
  <1>3. boot' = [boot EXCEPT ![1] = y] /\ y \in BootSteps /\ y.jar = j
    BY <1>2
  <1> HIDE DEF y
  <1>4. /\ boot' \in Seq(BootSteps) /\ DOMAIN boot' = DOMAIN boot /\ boot'[1] = y
        /\ \A i \in DOMAIN boot \ {1} : boot'[i] = boot[i]
    BY <1>1, <1>3 DEF BundleIInv
  <1>5. /\ bundle' \in [BundledJars -> JarStates] /\ bundle'[j] = x
        /\ \A k \in BundledJars \ {j} : bundle'[k] = bundle[k]
    BY <1>2 DEF BundleIInv
  <1>6. \A i \in DOMAIN boot' : i # 1 => boot'[i].do = "look"
    BY <1>4 DEF BundleIInv
  <1>7. ~bundle'[boot'[1].jar].old
    BY <1>3, <1>4, <1>5
  <1>8. ASSUME "reboot" \in plugUsers.ops, ~plugUsers.failing, NEW k \in BundledJars
        PROVE  bundle'[k] = Fresh \/ \E i \in DOMAIN boot' : boot'[i].jar = k
    <2>1. CASE k = j
      BY <1>1, <1>3, <1>4, <2>1
    <2>2. CASE k # j
      <3>1. bundle[k] = Fresh \/ \E i \in DOMAIN boot : i # 1 /\ boot[i].jar = k
        BY <1>8, <2>2 DEF BundleIInv
      <3> QED
        BY <1>4, <1>5, <2>2, <3>1
    <2> QED
      BY <2>1, <2>2
  <1> QED
    BY <1>4, <1>5, <1>6, <1>7, <1>8 DEF BundleIInv, Fresh

(* ... or goes on to the next, with this one done or a step failed. *)
LEMMA BootGoesOn ==
    ASSUME BundleIInv, boot # <<>>, NEW j, j = boot[1].jar, NEW x \in JarStates,
           bundle' = [bundle EXCEPT ![j] = x], x = Fresh \/ plugUsers.failing,
           boot' = Tail(boot), UNCHANGED <<resource, plugUsers>>
    PROVE  BundleIInv'
  <1>1. boot[1] \in BootSteps
    BY DEF BundleIInv
  <1>2. j \in BundledJars
    BY <1>1 DEF BootSteps
  <1>3. /\ bundle' \in [BundledJars -> JarStates] /\ bundle'[j] = x
        /\ \A k \in BundledJars \ {j} : bundle'[k] = bundle[k]
    BY <1>2 DEF BundleIInv
  <1>4. boot \in Seq(BootSteps) /\ Len(boot) \in Nat /\ DOMAIN boot = 1 .. Len(boot)
    BY DEF BundleIInv
  <1>5. boot' \in Seq(BootSteps) /\ DOMAIN boot' = 1 .. Len(boot) - 1
        /\ \A i \in 1 .. Len(boot) - 1 : boot'[i] = boot[i + 1]
    BY <1>4
  <1>6. \A i \in DOMAIN boot' : boot'[i].do = "look"
    BY <1>4, <1>5 DEF BundleIInv
  <1>7. boot' # <<>> => boot'[1].do = "look"
    <2>1. boot' # <<>> => 1 \in DOMAIN boot'
      BY <1>5
    <2> QED
      BY <1>6, <2>1
  <1>8. ASSUME "reboot" \in plugUsers.ops, ~plugUsers.failing, NEW k \in BundledJars
        PROVE  bundle'[k] = Fresh \/ \E i \in DOMAIN boot' : boot'[i].jar = k
    <2>1. CASE k = j
      BY <1>3, <1>8, <2>1
    <2>2. CASE k # j
      <3>1. CASE bundle[k] = Fresh
        BY <1>3, <2>2, <3>1
      <3>2. CASE \E i \in DOMAIN boot : boot[i].jar = k
        <4>1. PICK i \in DOMAIN boot : boot[i].jar = k
          BY <3>2
        <4>2. i # 1 /\ i - 1 \in DOMAIN boot' /\ boot'[i - 1] = boot[i]
          BY <1>4, <1>5, <2>2, <4>1
        <4> QED
          BY <4>1, <4>2
      <3> QED
        BY <1>8, <3>1, <3>2 DEF BundleIInv
    <2> QED
      BY <2>1, <2>2
  <1> QED
    BY <1>3, <1>5, <1>6, <1>7, <1>8 DEF BundleIInv, Fresh

LEMMA BootInv ==
    ASSUME BundleIInv, TakeOld \/ OpenJar \/ FillJar
    PROVE  BundleIInv'
  <1>1. boot # <<>> /\ boot[1] \in BootSteps /\ UNCHANGED <<resource, plugUsers>>
    BY DEF BundleIInv, TakeOld, OpenJar, FillJar, PlugGoesOn
  <1>2. boot[1].jar \in BundledJars
    BY <1>1 DEF BootSteps
  <1>3. ASSUME NEW j, j = boot[1].jar, TakeOld PROVE BundleIInv'
    <2> DEFINE x == [own |-> Kept(j), old |-> FALSE]
    <2>1. bundle[j] \in JarStates
      BY <1>2, <1>3 DEF BundleIInv
    <2>2. x \in JarStates /\ ~x.old
      BY DEF JarStates, Kept, BundleIInv
    <2>3. bundle' = [bundle EXCEPT ![j] = x]
      BY <1>3 DEF TakeOld
    <2>4. CASE bundle[j].own = resource /\ ~bundle[j].old
      <3>1. x = Fresh
        BY <2>4 DEF Kept, Fresh
      <3>2. boot' = Tail(boot)
        BY <1>3, <2>4 DEF TakeOld
      <3> QED
        BY <1>1, <1>3, <2>2, <2>3, <3>1, <3>2, BootGoesOn
    <2>5. CASE ~(bundle[j].own = resource /\ ~bundle[j].old)
      <3>1. boot' = [boot EXCEPT ![1] = [boot[1] EXCEPT !.do = "open"]]
        BY <1>3, <2>5 DEF TakeOld
      <3> QED
        BY <1>1, <1>3, <2>2, <2>3, <3>1, BootStays
    <2> QED
      BY <2>4, <2>5
  <1>4. ASSUME NEW j, j = boot[1].jar, OpenJar \/ FillJar PROVE BundleIInv'
    <2>1. bundle[j] \in JarStates /\ ~bundle[j].old
      BY <1>2, <1>4 DEF BundleIInv, OpenJar, FillJar
    <2>2. ASSUME NEW v \in Nat
          PROVE  /\ [bundle[j] EXCEPT !.own = v] = [own |-> v, old |-> FALSE]
                 /\ [bundle[j] EXCEPT !.own = v] \in JarStates
                 /\ ~[bundle[j] EXCEPT !.own = v].old
      <3> DEFINE r == [bundle[j] EXCEPT !.own = v]
      <3>1. r \in JarStates /\ r.own = v /\ ~r.old
        BY <2>1 DEF JarStates
      <3> HIDE DEF r
      <3>2. r = [own |-> v, old |-> FALSE]
        BY <3>1 DEF JarStates
      <3> QED
        BY <3>1, <3>2 DEF r
    <2>3. bundle = [bundle EXCEPT ![j] = bundle[j]]
      BY DEF BundleIInv
    <2>4. CASE bundle' = bundle /\ plugUsers.failing /\ boot' = Tail(boot)
      BY <1>1, <1>4, <2>1, <2>3, <2>4, BootGoesOn
    <2>5. CASE OpenJar /\ ~(bundle' = bundle /\ plugUsers.failing /\ boot' = Tail(boot))
      <3>1. bundle' = [bundle EXCEPT ![j] = [bundle[j] EXCEPT !.own = 0]]
        BY <1>4, <2>5 DEF OpenJar
      <3>2. boot' = [boot EXCEPT ![1] = [boot[1] EXCEPT !.do = "fill"]]
        BY <2>5 DEF OpenJar
      <3>3. /\ [bundle[j] EXCEPT !.own = 0] \in JarStates
            /\ ~[bundle[j] EXCEPT !.own = 0].old
        BY <2>2
      <3> QED
        BY <1>1, <1>4, <3>1, <3>2, <3>3, BootStays
    <2>6. CASE FillJar /\ ~(bundle' = bundle /\ plugUsers.failing /\ boot' = Tail(boot))
      <3>1. /\ bundle' = [bundle EXCEPT ![j] = [bundle[j] EXCEPT !.own = resource]]
            /\ boot' = Tail(boot)
        BY <1>4, <2>6 DEF FillJar
      <3>2. [bundle[j] EXCEPT !.own = resource] = Fresh
            /\ [bundle[j] EXCEPT !.own = resource] \in JarStates
        BY <2>2 DEF Fresh, BundleIInv
      <3> QED
        BY <1>1, <1>4, <3>1, <3>2, BootGoesOn
    <2> QED
      BY <1>4, <2>4, <2>5, <2>6
  <1> QED
    BY <1>3, <1>4

LEMMA RebootInv ==
    ASSUME BundleIInv, PlugReboot
    PROVE  BundleIInv'
  <1>1. resource' \in Nat
    BY DEF BundleIInv, PlugReboot
  <1>2. PICK more \in SUBSET DOMAIN bundle :
            bundle' = [b1 \in DOMAIN bundle |->
                        [bundle[b1] EXCEPT !.old = bundle[b1].old \/ b1 \in more]]
    BY DEF PlugReboot
  <1>3. ASSUME NEW j \in BundledJars PROVE bundle'[j] \in JarStates
    <2>1. bundle[j] \in JarStates /\ j \in DOMAIN bundle
      BY DEF BundleIInv
    <2>2. \A o \in BOOLEAN : [bundle[j] EXCEPT !.old = o] \in JarStates
      BY <2>1 DEF JarStates
    <2>3. (bundle[j].old \/ j \in more) \in BOOLEAN
      OBVIOUS
    <2> QED
      BY <1>2, <2>1, <2>2, <2>3
  <1>4. bundle' \in [BundledJars -> JarStates]
    BY <1>2, <1>3 DEF BundleIInv
  <1>5. boot' = Booting
    BY DEF PlugReboot
  <1>6. boot' # <<>> => boot'[1].do = "look"
    BY <1>5, BootingInv
  <1> QED
    BY <1>1, <1>4, <1>5, <1>6, BootingInv DEF BundleIInv

LEMMA BundleInvariance == PlugSpec => []BundleIInv
  <1>1. PlugInit => BundleIInv
    <2> SUFFICES ASSUME PlugInit PROVE BundleIInv
      OBVIOUS
    <2>1. resource \in Nat /\ bundle \in [BundledJars -> JarStates]
      BY DEF PlugInit, BundledJars, JarStates
    <2>2. CASE "reboot" \in plugUsers.ops
      <3>1. boot = Booting
        BY <2>2 DEF PlugInit
      <3>2. boot # <<>> => boot[1].do = "look"
        BY <3>1, BootingInv
      <3> QED
        BY <2>1, <3>1, <3>2, BootingInv DEF BundleIInv
    <2>3. CASE "reboot" \notin plugUsers.ops
      <3>1. boot = <<>>
        BY <2>3 DEF PlugInit
      <3> QED
        BY <2>1, <2>3, <3>1 DEF BundleIInv
    <2> QED
      BY <2>2, <2>3
  <1>2. ASSUME BundleIInv, [PlugNext]_plugVars PROVE BundleIInv'
    <2>1. CASE TakeOld \/ OpenJar \/ FillJar
      BY <1>2, <2>1, BootInv
    <2>2. CASE PlugReboot
      BY <1>2, <2>2, RebootInv
    <2>3. CASE UNCHANGED <<resource, bundle, boot, plugUsers>>
      BY <1>2, <2>3 DEF BundleIInv, Fresh
    <2>4. ASSUME InstallPlugin \/ UpdatePlugin \/ UninstallPlugin \/ Expires \/ Releases
          PROVE  UNCHANGED <<resource, bundle, boot, plugUsers>>
      BY <2>4 DEF InstallPlugin, UpdatePlugin, UninstallPlugin, Expires, Releases, PlugAsk,
         Spend, BundleStays
    <2>5. ASSUME NEW q \in PlugRequests,
                 \/ DownloadPlugin(q) \/ InsertPlugin(q) \/ InstallNeeds(q)
                 \/ FetchUpdate(q) \/ RewriteRow(q) \/ ForgetPlugin(q)
          PROVE  UNCHANGED <<resource, bundle, boot, plugUsers>>
      BY <2>5 DEF DownloadPlugin, InsertPlugin, InstallNeeds, FetchUpdate, RewriteRow,
         ForgetPlugin, PlugGoesOn, BundleStays
    <2>6. UNCHANGED plugVars => UNCHANGED <<resource, bundle, boot, plugUsers>>
      BY DEF plugVars
    <2> QED
      BY <1>2, <2>1, <2>2, <2>3, <2>4, <2>5, <2>6 DEF PlugNext
  <1> QED
    BY <1>1, <1>2, PTL DEF PlugSpec

(* However often the manager went down in the middle of a boot, one that    *)
(* gets to its end leaves each bundled plugin once and the image's own.      *)
THEOREM BundledReadyHolds == PlugSpec => []BundledReady
  <1>1. BundleIInv => BundledReady
    BY DEF BundleIInv, BundledReady, Fresh
  <1> QED
    BY <1>1, BundleInvariance, PTL

-----------------------------------------------------------------------------
(***************************************************************************)
(* SerialRestoreExact, for any files, archives and trees on file systems of *)
(* their own.  The invariant follows every part through the stages: what is *)
(* still to do or ahead is extracted and not touched, what is moving is     *)
(* extracted, and everything else is as it has to be at the end.            *)
(***************************************************************************)
RestoreRecords ==
    [stage : {"clear", "finish"} \cup DOMAIN NextStage, from : [Items -> Contents],
     before : [Parts -> Contents], todo : SUBSET Items, moving : Items \cup {Absent}]

RestoreTypes ==
    /\ store \in [Parts -> Contents]
    /\ temp = Absent \/ temp \in [Items -> Contents]
    /\ \A x \in Archives : saved[x] = Absent \/ saved[x] \in [Items -> Contents]
    /\ DOMAIN saved = Archives
    /\ DOMAIN restore = Restores /\ restore = [q \in Restores |-> restore[q]]
    /\ \A q \in Restores : restore[q] # Absent => restore[q] \in RestoreRecords
    /\ writes \in 0 .. MaxWrites

(* The parts of a stage that the archive may have, and those of later ones. *)
StageParts == [data |-> DataFiles, servers |-> {"servers"}, java |-> {"java"}, finish |-> {}]
AheadParts == [data |-> Trees, servers |-> {"java"}, java |-> {}, finish |-> {}]
Moves == {"data", "servers", "java", "finish"}

(* How far restore r is, whose archive has no temp_restore of its own, with *)
(* files s and what is extracted t.                                         *)
Extracting(r, s, t) ==
    /\ r.stage \in {"clear", "extract"} => r.moving = Absent /\ s = r.before
    /\ r.stage = "extract" =>
        /\ t \in [Items -> Contents]
        /\ \A m \in Items : t[m] = IF m \in r.todo THEN Absent ELSE r.from[m]

Replacing(r, s, t) ==
    r.stage \in Moves =>
        /\ t \in [Items -> Contents]
        /\ r.todo \subseteq StageParts[r.stage]
        /\ r.moving # Absent => /\ r.moving \in StageParts[r.stage] \ r.todo
                                /\ t[r.moving] = r.from[r.moving]
        /\ \A p \in r.todo \cup {r.moving} : p # Absent => r.from[p] # Absent
        /\ \A p \in r.todo \cup AheadParts[r.stage] : t[p] = r.from[p] /\ s[p] = r.before[p]
        /\ \A p \in Parts \ Mounted :
             p \notin r.todo \cup AheadParts[r.stage] \cup {r.moving} =>
                s[p] = IF r.from[p] # Absent THEN r.from[p] ELSE r.before[p]

RestoreProgress ==
    \A q \in Restores : restore[q] # Absent /\ restore[q].from[TempDir] = Absent =>
        Extracting(restore[q], store, temp) /\ Replacing(restore[q], store, temp)

OneRestore ==
    \A q1, q2 \in Restores : restore[q1] # Absent /\ restore[q2] # Absent => q1 = q2

RestoreIInv == RestoreTypes /\ OneRestore /\ RestoreProgress

(* A step of the restore under way that leaves the archives alone. *)
LEMMA OneGoesOn ==
    ASSUME RestoreIInv, NEW q \in Restores, restore[q] # Absent, NEW y \in RestoreRecords,
           restore' = [restore EXCEPT ![q] = y],
           UNCHANGED <<saved, writes>>, store' \in [Parts -> Contents],
           temp' = Absent \/ temp' \in [Items -> Contents],
           y.from[TempDir] = Absent => Extracting(y, store', temp') /\ Replacing(y, store', temp')
    PROVE  RestoreIInv'
  <1>1. /\ restore' = [p \in Restores |-> restore'[p]]
        /\ restore'[q] = y /\ \A p \in Restores \ {q} : restore'[p] = restore[p]
    BY DEF RestoreIInv, RestoreTypes
  <1>2. \A p \in Restores \ {q} : restore'[p] = Absent
    BY <1>1 DEF RestoreIInv, OneRestore
  <1>3. RestoreTypes'
    BY <1>1, <1>2 DEF RestoreIInv, RestoreTypes
  <1>4. OneRestore'
    BY <1>2 DEF OneRestore
  <1>5. RestoreProgress'
    BY <1>1, <1>2 DEF RestoreProgress
  <1> QED
    BY <1>3, <1>4, <1>5 DEF RestoreIInv

(* No restore is under way any more. *)
LEMMA NoneGoesOn ==
    ASSUME RestoreIInv, \A q \in Restores : restore'[q] = Absent,
           restore' = [q \in Restores |-> restore'[q]],
           store' \in [Parts -> Contents], temp' = Absent \/ temp' \in [Items -> Contents],
           \A x \in Archives : saved'[x] = Absent \/ saved'[x] \in [Items -> Contents],
           DOMAIN saved' = Archives, writes' \in 0 .. MaxWrites
    PROVE  RestoreIInv'
  BY DEF RestoreIInv, RestoreTypes, OneRestore, RestoreProgress

LEMMA ItemFacts ==
    /\ Parts \subseteq Items /\ TempDir \in Items \ Parts
    /\ Absent \notin Items
    /\ DataFiles \cap Trees = {} /\ Parts = DataFiles \cup {"servers", "java"}
    /\ Absent \in Contents /\ Empty \in Contents
    /\ Mounted \subseteq Trees
  BY RestoreAssumption DEF Parts, Items, Trees, TempDir, Contents, Empty

LEMMA ExtractInv ==
    ASSUME RestoreIInv, NEW q \in Restores, ClearTemp(q) \/ ExtractOne(q)
    PROVE  RestoreIInv'
  <1>1. restore[q] # Absent /\ restore[q] \in RestoreRecords
    BY DEF RestoreIInv, RestoreTypes, ClearTemp, ExtractOne, In
  <1>2. store \in [Parts -> Contents] /\ UNCHANGED <<store, saved, writes>>
    BY DEF RestoreIInv, RestoreTypes, ClearTemp, ExtractOne
  <1>3. ASSUME NEW r, r = restore[q], ClearTemp(q) PROVE RestoreIInv'
    <2> DEFINE rest == {m \in Items : r.from[m] # Absent}
               y == [r EXCEPT !.stage = "extract", !.todo = rest]
    <2>1. restore' = [restore EXCEPT ![q] = y]
      BY <1>3 DEF ClearTemp, Extracts
    <2>2. rest \in SUBSET Items
      OBVIOUS
    <2> HIDE DEF rest
    <2>3. /\ y \in RestoreRecords /\ y.stage = "extract" /\ y.from = r.from
          /\ y.moving = r.moving /\ y.before = r.before /\ y.todo = rest
      BY <1>1, <1>3, <2>2 DEF RestoreRecords, NextStage
    <2> HIDE DEF y
    <2>4. temp' = [m \in Items |-> Absent] /\ temp' \in [Items -> Contents]
      BY <1>3, ItemFacts DEF ClearTemp
    <2>5. r.stage = "clear"
      BY <1>3 DEF ClearTemp, In
    <2>6. y.from[TempDir] = Absent => Extracting(y, store', temp') /\ Replacing(y, store', temp')
      BY <1>1, <1>2, <1>3, <2>3, <2>4, <2>5
         DEF rest, RestoreIInv, RestoreProgress, Extracting, Replacing, Moves
    <2> QED
      BY <1>1, <1>2, <2>1, <2>3, <2>4, <2>6, OneGoesOn
  <1>4. ASSUME NEW r, r = restore[q], ExtractOne(q) PROVE RestoreIInv'
    <2>1. PICK m \in r.todo : /\ temp' = [temp EXCEPT ![m] = r.from[m]]
                              /\ restore' = [restore EXCEPT ![q] = [restore[q] EXCEPT !.todo = r.todo \ {m}]]
      BY <1>4 DEF ExtractOne
    <2> DEFINE y == [r EXCEPT !.todo = r.todo \ {m}]
    <2>2. restore' = [restore EXCEPT ![q] = y]
      BY <1>4, <2>1
    <2>3. /\ y \in RestoreRecords /\ y.stage = r.stage /\ y.from = r.from
          /\ y.moving = r.moving /\ y.before = r.before /\ y.todo = r.todo \ {m}
      BY <1>1, <1>4 DEF RestoreRecords
    <2> HIDE DEF y
    <2>4. r.stage = "extract" /\ temp \in [Items -> Contents]
      BY <1>4 DEF ExtractOne, In, RestoreIInv, RestoreTypes
    <2>5. m \in Items /\ r.from \in [Items -> Contents]
      BY <1>1, <1>4 DEF RestoreRecords
    <2>6. /\ temp' \in [Items -> Contents] /\ temp'[m] = r.from[m]
          /\ \A x \in Items \ {m} : temp'[x] = temp[x]
      BY <2>1, <2>4, <2>5
    <2>7. r.from[TempDir] = Absent => Extracting(r, store, temp)
      BY <1>1, <1>4 DEF RestoreIInv, RestoreProgress
    <2>8. y.from[TempDir] = Absent => Extracting(y, store', temp') /\ Replacing(y, store', temp')
      BY <1>2, <2>3, <2>4, <2>6, <2>7 DEF Extracting, Replacing, Moves
    <2> QED
      BY <1>1, <1>2, <2>2, <2>3, <2>6, <2>8, OneGoesOn
  <1> QED
    BY <1>3, <1>4

LEMMA ProceedInv ==
    ASSUME RestoreIInv, NEW q \in Restores, Proceed(q)
    PROVE  RestoreIInv'
  <1>1. restore[q] # Absent /\ restore[q] \in RestoreRecords
    BY DEF RestoreIInv, RestoreTypes, Proceed
  <1>2. store \in [Parts -> Contents] /\ UNCHANGED <<store, temp, saved, writes>>
    BY DEF RestoreIInv, RestoreTypes, Proceed
  <1>3. ASSUME NEW r, r = restore[q] PROVE RestoreIInv'
    <2>1. r.stage \in DOMAIN NextStage /\ r.todo = {} /\ r.moving = Absent
      BY <1>3 DEF Proceed
    <2> DEFINE next == NextStage[r.stage]
               there == IF next = "finish" \/ temp = Absent THEN {}
                        ELSE {m \in PartsOf[next] : temp[m] # Absent}
               y == [r EXCEPT !.stage = next, !.todo = there]
    <2>2. restore' = [restore EXCEPT ![q] = y]
      BY <1>3 DEF Proceed
    <2>3. next \in Moves /\ there \in SUBSET Items
      BY <2>1, ItemFacts DEF NextStage, Moves, PartsOf, Trees, Parts, Items
    <2> HIDE DEF there, next
    <2>4. /\ y \in RestoreRecords /\ y.stage = next /\ y.from = r.from
          /\ y.moving = Absent /\ y.before = r.before /\ y.todo = there
      BY <1>1, <1>3, <2>1, <2>3 DEF RestoreRecords, Moves, NextStage
    <2> HIDE DEF y
    <2>5. ASSUME r.from[TempDir] = Absent
          PROVE  Extracting(y, store', temp') /\ Replacing(y, store', temp')
      <3>1. Extracting(r, store, temp) /\ Replacing(r, store, temp)
        BY <1>1, <1>3, <2>5 DEF RestoreIInv, RestoreProgress
      <3>2. temp \in [Items -> Contents] /\ temp # Absent
        BY <2>1, <3>1, RestoreAssumption DEF Extracting, Replacing, NextStage, Moves
      <3>3. there = IF next = "finish" THEN {} ELSE {m \in PartsOf[next] : temp[m] # Absent}
        BY <3>2 DEF there
      <3>4. CASE r.stage = "extract"
        <4>1. next = "data" /\ store = r.before /\ \A m \in Items : temp[m] = r.from[m]
          BY <2>1, <3>1, <3>4 DEF Extracting, next, NextStage
        <4>2. there = {m \in DataFiles : r.from[m] # Absent}
          BY <2>5, <3>3, <4>1, ItemFacts DEF PartsOf
        <4> QED
          BY <1>2, <2>4, <3>2, <4>1, <4>2, ItemFacts
             DEF Extracting, Replacing, Moves, StageParts, AheadParts, Trees
      <3>5. CASE r.stage = "data"
        <4>1. next = "servers" /\ there = {m \in {"servers"} : temp[m] # Absent}
          BY <3>3, <3>5 DEF next, NextStage, PartsOf
        <4> QED
          BY <1>2, <2>1, <2>4, <3>1, <3>2, <3>5, <4>1, ItemFacts
             DEF Extracting, Replacing, Moves, StageParts, AheadParts, Trees
      <3>6. CASE r.stage = "servers"
        <4>1. next = "java" /\ there = {m \in {"java"} : temp[m] # Absent}
          BY <3>3, <3>6 DEF next, NextStage, PartsOf
        <4> QED
          BY <1>2, <2>1, <2>4, <3>1, <3>2, <3>6, <4>1, ItemFacts
             DEF Extracting, Replacing, Moves, StageParts, AheadParts, Trees
      <3>7. CASE r.stage = "java"
        <4>1. next = "finish" /\ there = {}
          BY <3>3, <3>7 DEF next, NextStage
        <4> QED
          BY <1>2, <2>1, <2>4, <3>1, <3>2, <3>7, <4>1
             DEF Extracting, Replacing, Moves, StageParts, AheadParts
      <3> QED
        BY <2>1, <3>4, <3>5, <3>6, <3>7 DEF NextStage
    <2> QED
      BY <1>1, <1>2, <2>2, <2>4, <2>5, OneGoesOn DEF RestoreIInv, RestoreTypes
  <1> QED
    BY <1>3

LEMMA ReplaceInv ==
    ASSUME RestoreIInv, NEW q \in Restores, RemoveOld(q) \/ MoveNew(q)
    PROVE  RestoreIInv'
  <1>1. restore[q] # Absent /\ restore[q] \in RestoreRecords
    BY DEF RestoreIInv, RestoreTypes, RemoveOld, MoveNew
  <1>2. /\ store \in [Parts -> Contents] /\ UNCHANGED <<saved, writes>>
        /\ temp = Absent \/ temp \in [Items -> Contents]
    BY DEF RestoreIInv, RestoreTypes, RemoveOld, MoveNew
  <1>3. restore[q].from[TempDir] = Absent => Extracting(restore[q], store, temp) /\ Replacing(restore[q], store, temp)
    BY <1>1 DEF RestoreIInv, RestoreProgress
  <1>4. ASSUME NEW r, r = restore[q], RemoveOld(q) PROVE RestoreIInv'
    <2>1. PICK m \in r.todo :
            /\ restore' = [restore EXCEPT ![q] = [restore[q] EXCEPT !.todo = r.todo \ {m}, !.moving = m]]
            /\ IF m = TempDir
               THEN temp' = Absent /\ UNCHANGED store
               ELSE /\ store' = [store EXCEPT ![m] = IF m \in Mounted THEN Empty ELSE Absent]
                    /\ UNCHANGED temp
      <3>1. restore = [p \in Restores |-> restore[p]]
        BY DEF RestoreIInv, RestoreTypes
      <3>2. \A m \in r.todo :
              [restore EXCEPT ![q].todo = restore[q].todo \ {m}, ![q].moving = m]
                = [restore EXCEPT ![q] = [restore[q] EXCEPT !.todo = r.todo \ {m}, !.moving = m]]
        BY <1>4, <3>1
      <3> QED
        BY <1>4, <3>2 DEF RemoveOld
    <2>2. m \in Items /\ r.stage \in DOMAIN PartsOf /\ r.moving = Absent
      BY <1>1, <1>4 DEF RemoveOld, RestoreRecords
    <2> DEFINE y == [r EXCEPT !.todo = r.todo \ {m}, !.moving = m]
    <2>3. restore' = [restore EXCEPT ![q] = y]
      BY <1>4, <2>1
    <2>4. /\ y \in RestoreRecords /\ y.stage = r.stage /\ y.from = r.from
          /\ y.moving = m /\ y.before = r.before /\ y.todo = r.todo \ {m}
      BY <1>1, <1>4, <2>2 DEF RestoreRecords
    <2> HIDE DEF y
    <2>5. store' \in [Parts -> Contents] /\ (temp' = Absent \/ temp' \in [Items -> Contents])
      BY <1>2, <2>1, ItemFacts
    <2>6. ASSUME r.from[TempDir] = Absent
          PROVE  Extracting(y, store', temp') /\ Replacing(y, store', temp')
      <3>1. r.stage \in Moves /\ r.stage \notin {"clear", "extract"}
        BY <2>2 DEF PartsOf, Moves
      <3>2. Replacing(r, store, temp)
        BY <1>3, <1>4, <2>6
      <3>3. m \in StageParts[r.stage] /\ m \in Parts /\ m # TempDir /\ m # Absent
        BY <2>2, <3>1, <3>2, ItemFacts DEF Replacing, StageParts, PartsOf
      <3>4. m \notin AheadParts[r.stage]
        BY <2>2, <3>3, ItemFacts DEF StageParts, AheadParts, PartsOf, Trees
      <3>5. temp' = temp /\ \A p \in Parts \ {m} : store'[p] = store[p]
        BY <1>2, <2>1, <3>3
      <3>6. AheadParts[r.stage] \subseteq Parts /\ StageParts[r.stage] \subseteq Parts
        BY <2>2 DEF AheadParts, StageParts, PartsOf, Parts, Trees
      <3>7. /\ temp' \in [Items -> Contents]
            /\ y.todo \subseteq StageParts[r.stage] /\ y.moving \in StageParts[r.stage] \ y.todo
            /\ temp'[m] = r.from[m] /\ \A p \in r.todo : r.from[p] # Absent
        BY <2>4, <3>1, <3>2, <3>3, <3>5, <3>6, ItemFacts DEF Replacing
      <3>8. \A p \in y.todo \cup AheadParts[r.stage] :
              temp'[p] = r.from[p] /\ store'[p] = r.before[p]
        BY <2>4, <3>1, <3>2, <3>4, <3>5, <3>6 DEF Replacing
      <3>9. \A p \in Parts \ Mounted :
              p \notin y.todo \cup AheadParts[r.stage] \cup {y.moving} =>
                store'[p] = IF r.from[p] # Absent THEN r.from[p] ELSE r.before[p]
        BY <2>2, <2>4, <3>1, <3>2, <3>3, <3>5, RestoreAssumption, ItemFacts DEF Replacing
      <3>10. Replacing(y, store', temp')
        BY <2>4, <3>3, <3>7, <3>8, <3>9 DEF Replacing
      <3> QED
        BY <2>4, <3>1, <3>10 DEF Extracting
    <2> QED
      BY <1>1, <1>2, <2>3, <2>4, <2>5, <2>6, OneGoesOn
  <1>5. ASSUME NEW r, r = restore[q], NEW m, m = r.moving, MoveNew(q) PROVE RestoreIInv'
    <2>1. m \in Items
      BY <1>1, <1>5 DEF MoveNew, RestoreRecords
    <2> DEFINE y == [r EXCEPT !.moving = Absent]
    <2>2. restore' = [restore EXCEPT ![q] = y]
      BY <1>5 DEF MoveNew
    <2>3. /\ y \in RestoreRecords /\ y.stage = r.stage /\ y.from = r.from
          /\ y.moving = Absent /\ y.before = r.before /\ y.todo = r.todo
      BY <1>1, <1>5 DEF RestoreRecords
    <2> HIDE DEF y
    <2>4. IF m \in Mounted \cup {TempDir} \/ temp = Absent \/ temp[m] = Absent
          THEN UNCHANGED <<store, temp>>
          ELSE /\ store' = [store EXCEPT ![m] = temp[m]]
               /\ temp' = [temp EXCEPT ![m] = Absent]
      BY <1>5 DEF MoveNew
    <2>5. store' \in [Parts -> Contents] /\ (temp' = Absent \/ temp' \in [Items -> Contents])
      BY <1>2, <2>1, <2>4, ItemFacts DEF Items
    <2>6. ASSUME r.from[TempDir] = Absent
          PROVE  Extracting(y, store', temp') /\ Replacing(y, store', temp')
      <3>1. Extracting(r, store, temp) /\ Replacing(r, store, temp) /\ r.moving # Absent
        BY <1>3, <1>5, <2>6 DEF MoveNew
      <3>2. r.stage \in Moves /\ r.stage \notin {"clear", "extract"}
        BY <1>1, <1>5, <3>1 DEF Extracting, RestoreRecords, NextStage, Moves
      <3>3. /\ temp \in [Items -> Contents] /\ temp # Absent
            /\ m \in StageParts[r.stage] /\ m \notin r.todo
            /\ temp[m] = r.from[m] /\ r.from[m] # Absent
        BY <1>5, <3>1, <3>2, RestoreAssumption DEF Replacing
      <3>4. m \in Parts /\ m # TempDir /\ m \notin AheadParts[r.stage]
        BY <3>2, <3>3, ItemFacts DEF StageParts, AheadParts, Moves, Trees
      <3>5. /\ temp' \in [Items -> Contents]
            /\ \A p \in Items \ {m} : temp'[p] = temp[p]
            /\ \A p \in Parts \ {m} : store'[p] = store[p]
            /\ m \notin Mounted => store'[m] = r.from[m]
        BY <1>2, <2>1, <2>4, <2>5, <3>3, <3>4, RestoreAssumption, ItemFacts
      <3>6. AheadParts[r.stage] \subseteq Parts /\ StageParts[r.stage] \subseteq Parts
        BY <3>2 DEF AheadParts, StageParts, Moves, Parts, Trees
      <3>7. Replacing(y, store', temp')
        BY <1>5, <2>3, <3>1, <3>2, <3>3, <3>4, <3>5, <3>6, ItemFacts DEF Replacing
      <3> QED
        BY <2>3, <3>2, <3>7 DEF Extracting
    <2> QED
      BY <1>1, <1>2, <2>2, <2>3, <2>5, <2>6, OneGoesOn
  <1> QED
    BY <1>4, <1>5

(* The rest of the manager, while no restore is under way, and a restart. *)
LEMMA AroundInv ==
    ASSUME RestoreIInv,
           \/ Cut
           \/ /\ \A q \in Restores : restore[q] = Absent
              /\ (\E p \in Parts : Rewrite(p)) \/ (\E x \in Archives : Archive(x))
    PROVE  RestoreIInv'
  <1>1. RestoreTypes
    BY DEF RestoreIInv
  <1>2. CASE Cut
    <2>1. /\ \A q \in Restores : restore'[q] = Absent
          /\ restore' = [q \in Restores |-> restore'[q]] /\ UNCHANGED <<temp, saved, writes>>
          /\ store' \in [Parts -> Contents]
      BY <1>1, <1>2, ItemFacts DEF Cut, RestoreTypes
    <2> QED
      BY <1>1, <2>1, NoneGoesOn DEF RestoreTypes
  <1>3. ASSUME NEW p \in Parts, Rewrite(p), \A q \in Restores : restore[q] = Absent
        PROVE  RestoreIInv'
    <2>1. writes' \in 0 .. MaxWrites /\ writes' + 1 \in Contents
      BY <1>1, <1>3, RestoreAssumption DEF Rewrite, RestoreTypes, Contents, Empty
    <2>2. store' \in [Parts -> Contents]
      BY <1>1, <1>3, <2>1 DEF Rewrite, RestoreTypes
    <2> QED
      BY <1>1, <1>3, <2>1, <2>2, NoneGoesOn DEF Rewrite, RestoreTypes
  <1>4. ASSUME NEW x \in Archives, Archive(x), \A q \in Restores : restore[q] = Absent
        PROVE  RestoreIInv'
    <2> DEFINE made == [m \in Items |-> IF m # TempDir THEN store[m]
                                        ELSE IF temp = Absent THEN Absent ELSE Empty]
    <2>1. made \in [Items -> Contents]
      BY <1>1, ItemFacts DEF RestoreTypes, Items
    <2>2. saved' = [saved EXCEPT ![x] = made] /\ UNCHANGED <<store, temp, restore, writes>>
      BY <1>4 DEF Archive
    <2> HIDE DEF made
    <2>3. /\ \A z \in Archives : saved'[z] = Absent \/ saved'[z] \in [Items -> Contents]
          /\ DOMAIN saved' = Archives
      BY <1>1, <2>1, <2>2 DEF RestoreTypes
    <2> QED
      BY <1>1, <1>4, <2>2, <2>3, NoneGoesOn DEF RestoreTypes
  <1> QED
    BY <1>2, <1>3, <1>4

LEMMA BeginInv ==
    ASSUME RestoreIInv, NEW q \in Restores, NEW x \in Archives, BeginRestore(q, x),
           \A p \in Restores : restore[p] = Absent
    PROVE  RestoreIInv'
  <1> DEFINE y == [stage |-> "clear", from |-> saved[x], before |-> store, todo |-> {},
                   moving |-> Absent]
  <1>1. restore' = [restore EXCEPT ![q] = y] /\ UNCHANGED <<store, temp, saved, writes>>
    BY DEF BeginRestore
  <1>2. saved[x] \in [Items -> Contents] /\ store \in [Parts -> Contents]
    BY DEF BeginRestore, RestoreIInv, RestoreTypes
  <1>3. /\ y \in RestoreRecords /\ y.stage = "clear" /\ y.moving = Absent /\ y.before = store
    BY <1>2 DEF RestoreRecords
  <1> HIDE DEF y
  <1>4. Extracting(y, store', temp') /\ Replacing(y, store', temp')
    BY <1>1, <1>3 DEF Extracting, Replacing, Moves
  <1>5. restore'[q] = y /\ \A p \in Restores \ {q} : restore'[p] = Absent
    BY <1>1 DEF RestoreIInv, RestoreTypes
  <1>6. RestoreTypes'
    BY <1>1, <1>3, <1>5 DEF RestoreIInv, RestoreTypes
  <1>7. OneRestore' /\ RestoreProgress'
    BY <1>4, <1>5 DEF OneRestore, RestoreProgress
  <1> QED
    BY <1>6, <1>7 DEF RestoreIInv

LEMMA RestoreInvariance == MCRestoreSpec => []RestoreIInv
  <1>1. RestoreInit => RestoreIInv
    <2> SUFFICES ASSUME RestoreInit PROVE RestoreIInv
      OBVIOUS
    <2>1. 1 \in Contents /\ Absent \in Contents
      BY RestoreAssumption DEF Contents, Empty
    <2>2. RestoreTypes
      BY <2>1, RestoreAssumption DEF RestoreInit, RestoreTypes
    <2> QED
      BY <2>2 DEF RestoreInit, RestoreIInv, OneRestore, RestoreProgress
  <1>2. ASSUME RestoreIInv, [MCRestoreNext]_restoreVars PROVE RestoreIInv'
    <2>1. CASE UNCHANGED restoreVars
      BY <1>2, <2>1 DEF restoreVars, RestoreIInv, RestoreTypes, OneRestore, RestoreProgress
    <2>2. CASE MCRestoreNext
      <3>1. CASE Cut
        BY <1>2, <3>1, AroundInv
      <3>2. ASSUME NEW q \in Restores, RestoreStep(q) PROVE RestoreIInv'
        <4>1. ASSUME ExtractFails(q) \/ Complete(q) PROVE RestoreIInv'
          <5>1. restore[q] # Absent /\ restore' = [restore EXCEPT ![q] = Absent]
                /\ temp' = Absent /\ UNCHANGED <<store, saved, writes>>
            BY <4>1 DEF ExtractFails, Complete, In
          <5>2. /\ \A p \in Restores : restore'[p] = Absent
                /\ restore' = [p \in Restores |-> restore'[p]]
            BY <1>2, <5>1 DEF RestoreIInv, OneRestore, RestoreTypes
          <5> QED
            BY <1>2, <5>1, <5>2, NoneGoesOn DEF RestoreIInv, RestoreTypes
        <4> QED
          BY <1>2, <3>2, <4>1, ExtractInv, ProceedInv, ReplaceInv DEF RestoreStep
      <3>3. CASE \A q \in Restores : restore[q] = Absent
        <4>1. \A q \in Restores : ~RestoreStep(q)
          BY <3>3 DEF RestoreStep, ClearTemp, ExtractOne, ExtractFails, Proceed, RemoveOld,
             MoveNew, Complete, In
        <4> QED
          BY <1>2, <2>2, <3>3, <4>1, AroundInv, BeginInv DEF MCRestoreNext, RestoreNext
      <3>4. ASSUME NEW q \in Restores, restore[q] # Absent PROVE RestoreIInv'
        <4>1. /\ restore' # restore
              /\ \A p \in Restores : restore[p] = Absent => restore'[p] = Absent
          BY <2>2, <3>4 DEF MCRestoreNext
        <4>2. \A p \in Parts : ~Rewrite(p)
          BY <4>1 DEF Rewrite
        <4>3. \A x \in Archives : ~Archive(x)
          BY <4>1 DEF Archive
        <4>4. ASSUME NEW p \in Restores, NEW x \in Archives, BeginRestore(p, x) PROVE FALSE
          <5>1. PICK z : restore' = [restore EXCEPT ![p] = z] /\ restore[p] = Absent
            BY <4>4 DEF BeginRestore
          <5>2. restore = [r \in Restores |-> restore[r]] /\ restore'[p] = Absent
            BY <1>2, <4>1, <5>1 DEF RestoreIInv, RestoreTypes
          <5>3. z = Absent
            BY <5>1, <5>2
          <5>4. restore' = restore
            BY <5>1, <5>2, <5>3
          <5> QED
            BY <4>1, <5>4
        <4> QED
          BY <2>2, <3>1, <3>2, <4>2, <4>3, <4>4 DEF MCRestoreNext, RestoreNext
      <3> QED
        BY <3>3, <3>4
    <2> QED
      BY <1>2, <2>1, <2>2
  <1> QED
    BY <1>1, <1>2, PTL DEF MCRestoreSpec

(* A restore that reports success has brought back what the archive has and *)
(* touched nothing else, whatever earlier ones that were cut short left.     *)
THEOREM SerialRestoreExactHolds == MCRestoreSpec => []SerialRestoreExact
  <1>1. ASSUME RestoreIInv PROVE SerialRestoreExact
    <2>1. RestoreTypeOK
      BY <1>1 DEF RestoreIInv, RestoreTypes, RestoreTypeOK, RestoreRecords
    <2>2. ASSUME NEW q \in Restores, In(q, "finish"), restore[q].from[TempDir] = Absent
          PROVE  Brought(q, Parts \ Mounted)
      <3>1. Replacing(restore[q], store, temp) /\ restore[q].stage = "finish"
        BY <1>1, <2>2 DEF RestoreIInv, RestoreProgress, In
      <3>2. restore[q].todo = {} /\ restore[q].moving = Absent
        BY <3>1 DEF Replacing, Moves, StageParts
      <3> QED
        BY <3>1, <3>2, ItemFacts DEF Brought, Replacing, Moves, AheadParts
    <2> QED
      BY <2>1, <2>2 DEF SerialRestoreExact
  <1> QED
    BY <1>1, RestoreInvariance, PTL

-----------------------------------------------------------------------------
(***************************************************************************)
(* SerialJarMatchesRow and UpdateSettles for every list of versions, every  *)
(* number of requests and every way they are used.  Of the sites it matters *)
(* only that ids are numbers and that the greatest one never goes down.     *)
(***************************************************************************)
JarVers == DOMAIN VelocityNames \cup {1}
JarBuilds == [id : Nat \ {0}, channel : jarUsers.channels \cup {"STABLE"}]
JarGroups == [ver : JarVers, builds : Seq(JarBuilds)]
JarRels == [ver : JarVers, id : Nat \ {0}]

JarSteps ==
    [do : {"idle"}]
    \cup [do : {"create"}, rel : JarRels]
    \cup [do : {"copy", "row"}, rel : JarRels, gets : JarRels]
    \cup [do : {"save", "fill", "place", "clean", "record"}, rel : JarRels, gets : JarRels,
          known : BOOLEAN]

JarIds == {1} \cup {bld.id : bld \in UNION {Range(v.builds) : v \in Range(upstream)}}

(* Some id is the greatest, and only Velocity has more than one version. *)
ListsOK ==
    /\ upstream = [i \in DOMAIN upstream |-> upstream[i]]
    /\ \A i \in DOMAIN upstream : upstream[i] \in JarGroups
    /\ \E m \in JarIds : \A i \in JarIds : i <= m
    /\ Kind # "velocity" =>
        /\ upstream \in Seq(JarGroups) /\ Len(upstream) = 1
        /\ \E k \in DOMAIN upstream[1].builds : upstream[1].builds[k].id = 1

JarTypes ==
    /\ jarRow \in [ver : JarVers, id : Nat]
    /\ jarStep \in [JarRequests -> JarSteps]
    /\ Kind = "nanolimbo" => \A ch \in jarCache : ch.latest \in JarRels

LEMMA ListedIds ==
    ASSUME ListsOK
    PROVE  /\ \A x : x \in JarIds <=>
                x = 1 \/ \E i \in DOMAIN upstream : \E k \in DOMAIN upstream[i].builds :
                            x = upstream[i].builds[k].id
           /\ JarIds \subseteq Nat \ {0}
           /\ Max(JarIds) \in JarIds /\ \A i \in JarIds : i <= Max(JarIds)
           /\ NextId = 1 + Max(JarIds)
  <1>1. \A x : x \in JarIds <=>
                x = 1 \/ \E i \in DOMAIN upstream : \E k \in DOMAIN upstream[i].builds :
                            x = upstream[i].builds[k].id
    BY DEF JarIds, Range
  <1>2. \A i \in DOMAIN upstream : \A k \in DOMAIN upstream[i].builds :
            upstream[i].builds[k].id \in Nat \ {0}
    <2> SUFFICES ASSUME NEW i \in DOMAIN upstream, NEW k \in DOMAIN upstream[i].builds
                 PROVE  upstream[i].builds[k].id \in Nat \ {0}
      OBVIOUS
    <2>1. upstream[i].builds \in Seq(JarBuilds)
      BY DEF ListsOK, JarGroups
    <2>2. upstream[i].builds[k] \in JarBuilds
      BY <2>1
    <2> QED
      BY <2>2 DEF JarBuilds
  <1>3. JarIds \subseteq Nat \ {0}
    BY <1>1, <1>2
  <1>4. PICK m \in JarIds : \A i \in JarIds : i <= m
    BY DEF ListsOK
  <1>5. \A i \in JarIds : m >= i
    BY <1>3, <1>4
  <1>6. Max(JarIds) \in JarIds /\ \A i \in JarIds : Max(JarIds) >= i
    BY <1>5 DEF Max
  <1>7. \A i \in JarIds : i <= Max(JarIds)
    BY <1>3, <1>6
  <1> QED
    BY <1>1, <1>3, <1>6, <1>7 DEF NextId, JarIds

(* Where there is one version, its greatest build is the greatest of all. *)
LEMMA NewestIs ==
    ASSUME ListsOK, Kind # "velocity"
    PROVE  /\ Newest = Rel(upstream[1].ver, Max(JarIds))
           /\ upstream[1].ver \in JarVers
           /\ Newest \in JarRels
  <1>1. upstream \in Seq(JarGroups) /\ Len(upstream) = 1
    BY DEF ListsOK
  <1>only. DOMAIN upstream = {1} /\ upstream[1] \in JarGroups
    BY <1>1
  <1>2. Range(upstream) = {upstream[1]}
    BY <1>only DEF Range
  <1>3. Head(upstream) = upstream[1]
    BY <1>1
  <1>4. JarIds = {bld.id : bld \in Range(upstream[1].builds)}
    BY <1>only, <1>2 DEF ListsOK, JarIds, Range
  <1>5. Newest = Rel(upstream[1].ver, Max(JarIds))
    BY <1>3, <1>4 DEF Newest, Builds
  <1>6. Max(JarIds) \in Nat \ {0}
    BY ListedIds
  <1> QED
    BY <1>only, <1>5, <1>6 DEF JarRels, JarGroups, Rel

LEMMA ListedIdsNext ==
    \A x : x \in JarIds' <=>
        x = 1 \/ \E i \in DOMAIN upstream' : \E k \in DOMAIN upstream'[i].builds :
                    x = upstream'[i].builds[k].id
  BY DEF JarIds, Range

LEMMA Singleton ==
    ASSUME NEW S, NEW s, s = [k \in DOMAIN s |-> s[k]], DOMAIN s = 1 .. 1, s[1] \in S
    PROVE  s \in Seq(S) /\ Len(s) = 1
  <1>1. s \in [1 .. 1 -> S]
    OBVIOUS
  <1>2. \A n \in Nat : \A f \in [1 .. n -> S] : f \in Seq(S) /\ Len(f) = n
    OBVIOUS
  <1> QED
    BY <1>1, <1>2

LEMMA GreatestId == ListsOK => \A x \in JarIds : x <= Max(JarIds)
  BY ListedIds

NewestGrows == Newest'.ver = Newest.ver /\ Newest.id <= Newest'.id

(* A new build has the greatest id. *)
LEMMA BuildAdded ==
    ASSUME ListsOK, UNCHANGED jarUsers, NEW i \in DOMAIN upstream, NEW ch \in jarUsers.channels,
           upstream' = [upstream EXCEPT ![i].builds =
                            <<[id |-> NextId, channel |-> ch]>> \o upstream[i].builds]
    PROVE  ListsOK' /\ (Kind # "velocity" => NewestGrows)
  <1> DEFINE bld == [id |-> NextId, channel |-> ch]
             old == upstream[i].builds
             bs == <<bld>> \o old
  <1>1. upstream[i] \in JarGroups /\ old \in Seq(JarBuilds)
    BY DEF ListsOK, JarGroups
  <1>2. NextId \in Nat \ {0} /\ \A x \in JarIds : x \in Nat \ {0} /\ x <= NextId
    BY ListedIds
  <1>3. bld \in JarBuilds
    BY <1>2 DEF JarBuilds
  <1> HIDE DEF bld
  <1>4. /\ bs \in Seq(JarBuilds) /\ Len(bs) = 1 + Len(old) /\ bs[1] = bld
        /\ \A k \in 1 .. Len(old) : bs[k + 1] = old[k]
    BY <1>1, <1>3
  <1>5. /\ \A k \in DOMAIN bs : bs[k] = bld \/ \E n \in DOMAIN old : bs[k] = old[n]
        /\ 1 \in DOMAIN bs
        /\ \A n \in DOMAIN old : \E k \in DOMAIN bs : bs[k] = old[n]
    <2>1. Len(old) \in Nat /\ DOMAIN old = 1 .. Len(old) /\ DOMAIN bs = 1 .. 1 + Len(old)
      BY <1>1, <1>4
    <2>2. \A k \in 1 .. 1 + Len(old) : k # 1 => k - 1 \in 1 .. Len(old) /\ k = (k - 1) + 1
      BY <2>1
    <2>3. \A n \in 1 .. Len(old) : n + 1 \in 1 .. 1 + Len(old)
      BY <2>1
    <2> HIDE DEF bs
    <2>4. \A k \in DOMAIN bs : bs[k] = bld \/ \E n \in DOMAIN old : bs[k] = old[n]
      <3> SUFFICES ASSUME NEW k \in 1 .. 1 + Len(old), k # 1
                   PROVE  \E n \in DOMAIN old : bs[k] = old[n]
        BY <2>1, <1>4
      <3>1. k - 1 \in 1 .. Len(old) /\ k = (k - 1) + 1
        BY <2>2
      <3>2. bs[(k - 1) + 1] = old[k - 1]
        BY <3>1, <1>4
      <3> QED
        BY <3>1, <3>2, <2>1
    <2> QED
      BY <2>1, <2>3, <2>4, <1>4
  <1>6. /\ DOMAIN upstream' = DOMAIN upstream
        /\ upstream'[i] = [ver |-> upstream[i].ver, builds |-> bs]
        /\ \A k \in DOMAIN upstream \ {i} : upstream'[k] = upstream[k]
        /\ upstream' = [k \in DOMAIN upstream' |-> upstream'[k]]
    <2>1. upstream = [k \in DOMAIN upstream |-> upstream[k]]
      BY DEF ListsOK
    <2> HIDE DEF bs
    <2>2. upstream' = [upstream EXCEPT ![i].builds = bs]
      BY DEF bs, bld
    <2>3. upstream[i] = [ver |-> upstream[i].ver, builds |-> upstream[i].builds]
      BY <1>1 DEF JarGroups
    <2> QED
      BY <2>1, <2>2, <2>3
  <1>7. upstream'[i] \in JarGroups /\ upstream'[i].builds = bs /\ upstream'[i].ver = upstream[i].ver
    BY <1>1, <1>4, <1>6 DEF JarGroups
  <1> HIDE DEF bs
  <1>8. JarIds' = JarIds \cup {NextId}
    <2>1. \A x \in JarIds' : x \in JarIds \cup {NextId}
      <3> SUFFICES ASSUME NEW x, x \in JarIds', x # 1 PROVE x \in JarIds \cup {NextId}
        BY ListedIds
      <3>1. PICK j \in DOMAIN upstream' : \E k \in DOMAIN upstream'[j].builds :
                    x = upstream'[j].builds[k].id
        BY ListedIdsNext
      <3>2. CASE j # i
        BY <3>1, <3>2, <1>6, ListedIds
      <3>3. CASE j = i
        <4>1. PICK k \in DOMAIN bs : x = bs[k].id
          BY <3>1, <3>3, <1>7
        <4>2. CASE bs[k] = bld
          BY <4>1, <4>2 DEF bld
        <4>3. ASSUME NEW n \in DOMAIN old, bs[k] = old[n] PROVE x \in JarIds
          BY <4>1, <4>3, ListedIds
        <4> QED
          BY <4>2, <4>3, <1>5
      <3> QED
        BY <3>2, <3>3
    <2>2. NextId \in JarIds'
      <3>1. bs[1].id = NextId /\ 1 \in DOMAIN bs
        BY <1>4, <1>5 DEF bld
      <3> QED
        BY <3>1, <1>6, <1>7, ListedIdsNext
    <2>3. \A x \in JarIds : x \in JarIds'
      <3> SUFFICES ASSUME NEW x \in JarIds, x # 1 PROVE x \in JarIds'
        BY ListedIdsNext
      <3>1. PICK j \in DOMAIN upstream : \E k \in DOMAIN upstream[j].builds :
                    x = upstream[j].builds[k].id
        BY ListedIds
      <3>2. CASE j # i
        BY <3>1, <3>2, <1>6, ListedIdsNext
      <3>3. CASE j = i
        <4>1. PICK n \in DOMAIN old : x = old[n].id
          BY <3>1, <3>3
        <4>2. PICK k \in DOMAIN bs : bs[k] = old[n]
          BY <1>5
        <4>3. /\ i \in DOMAIN upstream'
              /\ \E m \in DOMAIN upstream'[i].builds : x = upstream'[i].builds[m].id
          BY <4>1, <4>2, <1>6, <1>7
        <4> QED
          BY <4>3, ListedIdsNext
      <3> QED
        BY <3>2, <3>3
    <2> QED
      BY <2>1, <2>2, <2>3
  <1>9. ListsOK'
    <2>1. NextId \in JarIds' /\ \A x \in JarIds' : x <= NextId
      BY <1>2, <1>8
    <2>2. ASSUME Kind' # "velocity"
          PROVE  /\ upstream' \in Seq(JarGroups) /\ Len(upstream') = 1
                 /\ \E k \in DOMAIN upstream'[1].builds : upstream'[1].builds[k].id = 1
      <3>1. upstream \in Seq(JarGroups) /\ Len(upstream) = 1 /\ i = 1
        BY <2>2 DEF ListsOK, Kind
      <3>2. PICK n \in DOMAIN old : old[n].id = 1
        BY <2>2, <3>1 DEF ListsOK, Kind
      <3>3. PICK k \in DOMAIN bs : bs[k] = old[n]
        BY <1>5
      <3>4. DOMAIN upstream' = 1 .. 1 /\ upstream'[1] \in JarGroups
        BY <3>1, <1>6, <1>7
      <3> DEFINE s == upstream'
      <3>5. s = [j \in DOMAIN s |-> s[j]] /\ DOMAIN s = 1 .. 1 /\ s[1] \in JarGroups
        BY <3>4, <1>6
      <3> HIDE DEF s
      <3>6. s \in Seq(JarGroups) /\ Len(s) = 1
        BY <3>5, Singleton
      <3>7. upstream' \in Seq(JarGroups) /\ Len(upstream') = 1
        BY <3>6 DEF s
      <3> QED
        BY <3>1, <3>2, <3>3, <3>7, <1>7
    <2>3. JarGroups' = JarGroups
      BY DEF JarGroups, JarBuilds
    <2>4. \A k \in DOMAIN upstream' : upstream'[k] \in JarGroups
      BY <1>6, <1>7 DEF ListsOK
    <2> QED
      BY <1>6, <2>1, <2>2, <2>3, <2>4 DEF ListsOK
  <1>10. ASSUME Kind # "velocity" PROVE NewestGrows
    <2>1. Newest = Rel(upstream[1].ver, Max(JarIds))
      BY <1>10, NewestIs
    <2>2. (ListsOK /\ Kind # "velocity" => Newest = Rel(upstream[1].ver, Max(JarIds)))'
      BY NewestIs, PTL
    <2>3. Newest' = Rel(upstream'[1].ver, Max(JarIds'))
      BY <1>9, <1>10, <2>2 DEF Kind
    <2>4. (ListsOK => \A x \in JarIds : x <= Max(JarIds))'
      BY GreatestId, PTL
    <2>5. Max(JarIds) \in JarIds'
      BY <1>8, ListedIds
    <2>6. Max(JarIds) <= Max(JarIds')
      BY <1>9, <2>4, <2>5
    <2>7. upstream'[1].ver = upstream[1].ver
      BY <1>10, <1>6, <1>7 DEF ListsOK
    <2> QED
      BY <2>1, <2>3, <2>6, <2>7 DEF NewestGrows, Rel
  <1> QED
    BY <1>9, <1>10

(* Another channel changes no id. *)
LEMMA BuildRechannelled ==
    ASSUME ListsOK, UNCHANGED jarUsers, NEW i \in DOMAIN upstream, NEW ch \in jarUsers.channels,
           NEW k \in DOMAIN upstream[i].builds,
           upstream' = [upstream EXCEPT ![i].builds[k].channel = ch]
    PROVE  ListsOK'
  <1> DEFINE old == upstream[i].builds
             bld == [id |-> old[k].id, channel |-> ch]
             bs == [old EXCEPT ![k] = bld]
  <1>1. upstream[i] \in JarGroups /\ old \in Seq(JarBuilds)
    BY DEF ListsOK, JarGroups
  <1>2. old[k] \in JarBuilds /\ old[k] = [id |-> old[k].id, channel |-> old[k].channel]
    <2>1. old[k] \in JarBuilds
      BY <1>1
    <2> QED
      BY <2>1 DEF JarBuilds
  <1>3. bld \in JarBuilds /\ [old[k] EXCEPT !.channel = ch] = bld
    BY <1>2 DEF JarBuilds
  <1>4. /\ DOMAIN bs = DOMAIN old /\ bs[k] = bld /\ bld.id = old[k].id
        /\ \A n \in DOMAIN old \ {k} : bs[n] = old[n]
    OBVIOUS
  <1>5. \A n \in DOMAIN old : bs[n].id = old[n].id
    BY <1>4
  <1>6. bs \in Seq(JarBuilds)
    <2> HIDE DEF bld
    <2> QED
      BY <1>1, <1>3
  <1>7. upstream[i] = [ver |-> upstream[i].ver, builds |-> old]
    BY <1>1 DEF JarGroups
  <1>8. /\ DOMAIN upstream' = DOMAIN upstream
        /\ upstream'[i] = [ver |-> upstream[i].ver, builds |-> bs]
        /\ \A n \in DOMAIN upstream \ {i} : upstream'[n] = upstream[n]
        /\ upstream' = [n \in DOMAIN upstream' |-> upstream'[n]]
    <2>1. upstream = [n \in DOMAIN upstream |-> upstream[n]]
      BY DEF ListsOK
    <2>2. [upstream[i] EXCEPT !.builds = bs] = [ver |-> upstream[i].ver, builds |-> bs]
      <3> HIDE DEF bs
      <3> QED
        BY <1>7
    <2>3. upstream' = [upstream EXCEPT ![i] = [upstream[i] EXCEPT !.builds = bs]]
      <3>1. upstream' = [upstream EXCEPT ![i] = [upstream[i] EXCEPT !.builds =
                            [old EXCEPT ![k] = [old[k] EXCEPT !.channel = ch]]]]
        BY Zenon
      <3> QED
        BY <3>1, <1>3, Zenon
    <2> HIDE DEF bs
    <2> QED
      BY <2>1, <2>2, <2>3
  <1>9. upstream'[i] \in JarGroups /\ upstream'[i].builds = bs
    BY <1>1, <1>6, <1>8 DEF JarGroups
  <1> HIDE DEF bs
  <1>10. \A n \in DOMAIN upstream :
            /\ DOMAIN upstream'[n].builds = DOMAIN upstream[n].builds
            /\ \A m \in DOMAIN upstream[n].builds :
                    upstream'[n].builds[m].id = upstream[n].builds[m].id
    BY <1>4, <1>5, <1>8, <1>9 DEF bs
  <1>11. JarIds' = JarIds
    <2>1. \A x : x \in JarIds' <=> x \in JarIds
      BY <1>8, <1>10, ListedIds, ListedIdsNext
    <2> QED
      BY <2>1
  <1>12. JarGroups' = JarGroups
    BY DEF JarGroups, JarBuilds
  <1>13. \A n \in DOMAIN upstream' : upstream'[n] \in JarGroups
    BY <1>8, <1>9 DEF ListsOK
  <1>14. ASSUME Kind' # "velocity"
         PROVE  /\ upstream' \in Seq(JarGroups) /\ Len(upstream') = 1
                /\ \E m \in DOMAIN upstream'[1].builds : upstream'[1].builds[m].id = 1
    <2>1. upstream \in Seq(JarGroups) /\ Len(upstream) = 1
      BY <1>14 DEF ListsOK, Kind
    <2>2. PICK m \in DOMAIN upstream[1].builds : upstream[1].builds[m].id = 1
      BY <1>14 DEF ListsOK, Kind
    <2>3. DOMAIN upstream = 1 .. 1
      BY <2>1
    <2> DEFINE s == upstream'
    <2>4. s = [n \in DOMAIN s |-> s[n]] /\ DOMAIN s = 1 .. 1 /\ s[1] \in JarGroups
      BY <2>3, <1>8, <1>13
    <2> HIDE DEF s
    <2>5. s \in Seq(JarGroups) /\ Len(s) = 1
      BY <2>4, Singleton
    <2>6. upstream' \in Seq(JarGroups) /\ Len(upstream') = 1
      BY <2>5 DEF s
    <2> QED
      BY <2>2, <2>3, <2>6, <1>10
  <1> QED
    BY <1>8, <1>11, <1>12, <1>13, <1>14 DEF ListsOK

LEMMA ListsStay ==
    ASSUME ListsOK, UNCHANGED <<upstream, jarUsers>>
    PROVE  ListsOK' /\ (Kind # "velocity" => NewestGrows)
  <1>1. ListsOK' /\ Newest' = Newest
    BY DEF ListsOK, JarIds, JarGroups, JarBuilds, Kind, Newest, Builds
  <1>2. Kind # "velocity" => Newest.id \in Nat
    BY NewestIs DEF JarRels
  <1> QED
    BY <1>1, <1>2 DEF NewestGrows

LEMMA ListsStep ==
    ASSUME ListsOK, [JarNext]_jarVars
    PROVE  /\ ListsOK' /\ UNCHANGED jarUsers
           /\ Kind \notin {"paper", "velocity"} => NewestGrows
  <1>1. CASE Publish
    <2>1. UNCHANGED jarUsers
      BY <1>1 DEF Publish, AskJar
    <2>2. PICK i \in DOMAIN upstream, ch \in jarUsers.channels :
            upstream' = [upstream EXCEPT ![i].builds =
                            <<[id |-> NextId, channel |-> ch]>> \o upstream[i].builds]
      BY <1>1 DEF Publish
    <2> QED
      BY <2>1, <2>2, BuildAdded
  <1>2. CASE Rechannel
    <2>1. UNCHANGED jarUsers /\ Kind \in {"paper", "velocity"}
      BY <1>2 DEF Rechannel, AskJar
    <2>2. PICK i \in DOMAIN upstream, ch \in jarUsers.channels :
            \E k \in DOMAIN upstream[i].builds :
                upstream' = [upstream EXCEPT ![i].builds[k].channel = ch]
      BY <1>2 DEF Rechannel
    <2> QED
      BY <2>1, <2>2, BuildRechannelled
  <1>3. ASSUME ~Publish, ~Rechannel PROVE UNCHANGED <<upstream, jarUsers>>
    BY <1>3 DEF JarNext, jarVars, CheckJarUpdate, UpdateJar, ManualUpdate, CreateFile,
         CopyFile, RecordUpdate, WriteRow, SaveUpload, FillUpload, PlaceJar, CleanInstalled,
         RecordManual, CacheExpires, StartJar, StopJar, CrashJar, Handle, AskJar, JarGoesOn
  <1> QED
    BY <1>1, <1>2, <1>3, ListsStay

LEMMA ListsInit == JarInit => ListsOK
  <1> SUFFICES ASSUME JarInit PROVE ListsOK
    OBVIOUS
  <1> DEFINE one == <<[id |-> 1, channel |-> "STABLE"]>>
  <1>1. one \in Seq(JarBuilds) /\ DOMAIN one = {1} /\ one[1].id = 1
    BY DEF JarBuilds
  <1>2. \A v \in JarVers : Listed(v) \in JarGroups
    BY <1>1 DEF Listed, JarGroups
  <1>3. \A v \in JarVers : \A k \in DOMAIN Listed(v).builds : Listed(v).builds[k].id = 1
    BY <1>1 DEF Listed
  <1>4. /\ upstream = [i \in DOMAIN upstream |-> upstream[i]]
        /\ \A i \in DOMAIN upstream : \E v \in JarVers : upstream[i] = Listed(v)
    <2>1. CASE Kind = "velocity"
      <3>1. PICK S \in SUBSET {Listed(v) : v \in DOMAIN VelocityNames} : upstream \in SetToSeqs(S)
        BY <2>1 DEF JarInit, SetToAllKPermutations
      <3>2. upstream \in [1 .. Cardinality(S) -> S]
        BY <3>1 DEF SetToSeqs
      <3> QED
        BY <3>1, <3>2 DEF JarVers
    <2>2. CASE Kind # "velocity"
      BY <2>2 DEF JarInit, JarVers
    <2> QED
      BY <2>1, <2>2
  <1>5. JarIds = {1}
    <2>1. \A x \in JarIds : x = 1
      BY <1>3, <1>4 DEF JarIds, Range
    <2> QED
      BY <2>1 DEF JarIds
  <1>6. ASSUME Kind # "velocity"
        PROVE  /\ upstream \in Seq(JarGroups) /\ Len(upstream) = 1
               /\ \E k \in DOMAIN upstream[1].builds : upstream[1].builds[k].id = 1
    <2>1. upstream = <<Listed(1)>> /\ Listed(1) \in JarGroups
      BY <1>2, <1>6 DEF JarInit, JarVers
    <2>2. Listed(1).builds = one
      BY DEF Listed
    <2> QED
      BY <2>1, <2>2, <1>1
  <1> QED
    BY <1>2, <1>4, <1>5, <1>6 DEF ListsOK

(* An answer that is still right for the row it is for: paper's and velocity's *)
(* are dropped when the row changes, NanoLimbo's is not.                       *)
CacheOK ==
    Kind \notin {"paper", "velocity", "nanolimbo"} =>
        \A ch \in jarCache :
            /\ ch.key \in [ver : JarVers, id : Nat]
            /\ ch.has => ch.key.id = 0 \/ Newest.id > ch.key.id

JarIInv == ListsOK /\ JarTypes /\ CacheOK

LEMMA ListingsTyped ==
    ASSUME ListsOK
    PROVE  Listings \subseteq JarRels
  <1> SUFFICES ASSUME NEW r \in Listings PROVE r \in JarRels
    OBVIOUS
  <1>1. PICK i \in DOMAIN upstream : \E bld \in Range(upstream[i].builds) : r = Rel(upstream[i].ver, bld.id)
    BY DEF Listings, Range
  <1>2. PICK k \in DOMAIN upstream[i].builds : r = Rel(upstream[i].ver, upstream[i].builds[k].id)
    BY <1>1 DEF Range
  <1>3. upstream[i] \in JarGroups
    BY DEF ListsOK
  <1>4. upstream[i].builds[k].id \in JarIds
    BY ListedIds
  <1> QED
    BY <1>2, <1>3, <1>4, ListedIds DEF JarGroups, JarRels, Rel

LEMMA UploadsTyped ==
    ASSUME ListsOK, Kind # "velocity", NEW id \in {bld.id : bld \in Range(Builds)}
    PROVE  Rel(Head(upstream).ver, id) \in JarRels
  <1>1. upstream \in Seq(JarGroups) /\ Len(upstream) = 1
    BY DEF ListsOK
  <1>2. Head(upstream) = upstream[1] /\ 1 \in DOMAIN upstream /\ upstream[1] \in JarGroups
    <2>1. Head(upstream) = upstream[1]
      BY <1>1
    <2>2. 1 \in DOMAIN upstream
      BY <1>1
    <2>3. upstream[1] \in JarGroups
      BY <2>2 DEF ListsOK
    <2> QED
      BY <2>1, <2>2, <2>3
  <1>3. id \in JarIds
    BY <1>2, ListedIds DEF Builds, Range
  <1> QED
    BY <1>2, <1>3, ListedIds DEF JarGroups, JarRels, Rel

LEMMA FirstStep ==
    ASSUME jarStep \in [JarRequests -> JarSteps], NEW s \in JarSteps, First(s)
    PROVE  /\ jarStep' \in [JarRequests -> JarSteps]
           /\ \A q \in JarRequests : jarStep'[q] \in {jarStep[q], s}
           /\ \A p, q \in JarRequests :
                jarStep'[p] # jarStep[p] /\ jarStep'[q] # jarStep[q] => p = q
  <1> DEFINE ch == CHOOSE q \in JarIdle : TRUE
  <1>1. jarStep' = [jarStep EXCEPT ![ch] = s]
    BY DEF First
  <1> HIDE DEF ch
  <1> QED
    BY <1>1

LEMMA ThenStep ==
    ASSUME jarStep \in [JarRequests -> JarSteps], NEW q \in JarRequests, NEW do,
           \/ jarStep[q].do = "copy" /\ do = "row"
           \/ jarStep[q].do = "save" /\ do = "fill"
           \/ jarStep[q].do = "fill" /\ do = "place"
           \/ jarStep[q].do = "place" /\ do = "clean"
           \/ jarStep[q].do = "clean" /\ do = "record",
           Then(q, do)
    PROVE  /\ jarStep' \in [JarRequests -> JarSteps]
           /\ \A p \in JarRequests \ {q} : jarStep'[p] = jarStep[p]
           /\ jarStep'[q].do = do /\ jarStep'[q].rel = jarStep[q].rel
           /\ jarStep'[q].gets = jarStep[q].gets
           /\ do # "row" => jarStep'[q].known = jarStep[q].known
  <1> DEFINE s == jarStep[q]
             t == [s EXCEPT !.do = do]
  <1>1. /\ t \in JarSteps /\ t.do = do /\ t.rel = s.rel /\ t.gets = s.gets
        /\ do # "row" => t.known = s.known
    <2>1. s \in JarSteps
      OBVIOUS
    <2> HIDE DEF s
    <2>2. CASE s.do = "copy" /\ do = "row"
      <3>1. s \in [do : {"copy", "row"}, rel : JarRels, gets : JarRels]
        BY <2>1, <2>2 DEF JarSteps
      <3>2. t = [do |-> "row", rel |-> s.rel, gets |-> s.gets]
        BY <3>1, <2>2
      <3> QED
        BY <3>1, <3>2, <2>2 DEF JarSteps
    <2>3. CASE do \in {"fill", "place", "clean", "record"} /\ s.do \in {"save", "fill", "place", "clean"}
      <3>1. s \in [do : {"save", "fill", "place", "clean", "record"}, rel : JarRels,
                    gets : JarRels, known : BOOLEAN]
        BY <2>1, <2>3 DEF JarSteps
      <3>2. t = [do |-> do, rel |-> s.rel, gets |-> s.gets, known |-> s.known]
        BY <3>1, <2>3
      <3> QED
        BY <3>1, <3>2, <2>3 DEF JarSteps
    <2> QED
      BY <2>2, <2>3 DEF s
  <1>2. jarStep' = [jarStep EXCEPT ![q] = t]
    BY DEF Then
  <1> HIDE DEF t
  <1> QED
    BY <1>1, <1>2

LEMMA EndsStep ==
    ASSUME jarStep \in [JarRequests -> JarSteps], NEW q \in JarRequests, Ends(q)
    PROVE  /\ jarStep' \in [JarRequests -> JarSteps]
           /\ \A p \in JarRequests \ {q} : jarStep'[p] = jarStep[p]
           /\ jarStep'[q].do = "idle"
  <1>1. JarAtRest \in JarSteps /\ JarAtRest.do = "idle"
    BY DEF JarAtRest, JarSteps
  <1> QED
    BY <1>1 DEF Ends

(* What a request holds while it works. *)
LEMMA StepHolds ==
    ASSUME jarStep \in [JarRequests -> JarSteps], NEW q \in JarRequests
    PROVE  /\ jarStep[q].do # "idle" => jarStep[q].rel \in JarRels
           /\ jarStep[q].do \in {"copy", "row"} => jarStep[q].gets \in JarRels
           /\ jarStep[q].do \in {"idle", "create", "copy", "row", "save", "fill", "place", "clean",
                                 "record"}
  <1>1. jarStep[q] \in JarSteps
    OBVIOUS
  <1> QED
    BY <1>1 DEF JarSteps

LEMMA CreateStep ==
    ASSUME JarIInv, NEW q \in JarRequests, NEW gets,
           gets = IF Kind = "purpur" THEN Newest ELSE jarStep[q].rel,
           jarStep[q].do = "create",
           jarStep' = [jarStep EXCEPT ![q] =
                            [do |-> "copy", rel |-> jarStep[q].rel, gets |-> gets]]
    PROVE  /\ jarStep' \in [JarRequests -> JarSteps]
           /\ \A p \in JarRequests \ {q} : jarStep'[p] = jarStep[p]
           /\ jarStep'[q] = [do |-> "copy", rel |-> jarStep[q].rel, gets |-> gets]
  <1>1. jarStep \in [JarRequests -> JarSteps]
    BY DEF JarIInv, JarTypes
  <1>2. jarStep[q].rel \in JarRels
    BY <1>1, StepHolds
  <1>3. gets \in JarRels
    BY <1>2, NewestIs DEF JarIInv
  <1> DEFINE t == [do |-> "copy", rel |-> jarStep[q].rel, gets |-> gets]
  <1>4. t \in JarSteps
    BY <1>2, <1>3 DEF JarSteps
  <1>5. jarStep' = [jarStep EXCEPT ![q] = t]
    OBVIOUS
  <1> HIDE DEF t
  <1>6. /\ jarStep' \in [JarRequests -> JarSteps]
        /\ \A p \in JarRequests \ {q} : jarStep'[p] = jarStep[p]
        /\ jarStep'[q] = t
    BY <1>1, <1>4, <1>5
  <1> QED
    BY <1>6 DEF t

(* What a request that begins takes on. *)
LEMMA UpdateTakes ==
    ASSUME JarIInv, UpdateJar
    PROVE  \/ UNCHANGED jarStep
           \/ \E rel \in JarRels :
                /\ First([do |-> "create", rel |-> rel])
                /\ Kind = "purpur" => rel = Newest
  <1>1. CASE Kind = "nanolimbo"
    <2>1. PICK c \in Answers({}) :
            IF c.has THEN First([do |-> "create", rel |-> c.latest]) ELSE UNCHANGED jarStep
      BY <1>1 DEF UpdateJar
    <2>2. c \in jarCache \/ c = Answer({})
      BY <2>1 DEF Answers, Cached
    <2>3. c.latest \in JarRels
      BY <1>1, <2>2, NewestIs DEF JarIInv, JarTypes, Answer
    <2> QED
      BY <1>1, <2>1, <2>3
  <1>2. CASE Kind # "nanolimbo"
    <2>1. PICK silent \in Silences :
            Pick(silent) \in Listings /\ First([do |-> "create", rel |-> Pick(silent)])
      BY <1>2 DEF UpdateJar
    <2>2. Pick(silent) \in JarRels
      BY <2>1, ListingsTyped DEF JarIInv
    <2>3. Kind = "purpur" => Pick(silent) = Newest
      BY DEF Pick
    <2> QED
      BY <2>1, <2>2, <2>3
  <1> QED
    BY <1>1, <1>2

LEMMA UploadTakes ==
    ASSUME JarIInv, ManualUpdate
    PROVE  \E rel \in JarRels, known \in BOOLEAN :
                /\ known = FALSE => Kind \in {"paper", "purpur"}
                /\ First([do |-> "save", rel |-> rel, gets |-> rel, known |-> known])
  <1>1. PICK id \in {bld.id : bld \in Range(Builds)}, known \in BOOLEAN :
            /\ known \/ Kind \in {"paper", "purpur"}
            /\ First([do |-> "save", rel |-> Rel(Head(upstream).ver, id),
                      gets |-> Rel(Head(upstream).ver, id), known |-> known])
    BY DEF ManualUpdate
  <1>2. Rel(Head(upstream).ver, id) \in JarRels
    BY <1>1, UploadsTyped DEF JarIInv, ManualUpdate
  <1> QED
    BY <1>1, <1>2

(* An answer in the cache was there or is the one just found. *)
LEMMA CacheGrows ==
    ASSUME [JarNext]_jarVars, NEW d \in jarCache'
    PROVE  d \in jarCache \/ \E silent : d = Answer(silent)
  <1>1. CASE CheckJarUpdate
    BY <1>1 DEF CheckJarUpdate
  <1>2. CASE UpdateJar
    <2>1. UNCHANGED jarCache \/ \E c \in Answers({}) : jarCache' = jarCache \cup {c}
      BY <1>2 DEF UpdateJar
    <2> QED
      BY <2>1 DEF Answers, Cached
  <1>3. ~CheckJarUpdate /\ ~UpdateJar => jarCache' \subseteq jarCache
    BY DEF JarNext, jarVars, ManualUpdate, CreateFile, CopyFile, RecordUpdate, WriteRow,
         SaveUpload, FillUpload, PlaceJar, CleanInstalled, RecordManual, CacheExpires, StartJar,
         StopJar, CrashJar, Publish, Rechannel
  <1> QED
    BY <1>1, <1>2, <1>3

LEMMA JarTypesStep ==
    ASSUME JarIInv, [JarNext]_jarVars
    PROVE  JarTypes'
  <1> USE DEF JarIInv
  <1> DEFINE Row == [ver : JarVers, id : Nat]
  <1>held. jarStep \in [JarRequests -> JarSteps] /\ jarRow \in Row
    BY DEF JarTypes
  <1>latest. Kind' = "nanolimbo" => \A d \in jarCache' : d.latest \in JarRels
    <2> SUFFICES ASSUME Kind' = "nanolimbo", NEW d \in jarCache' PROVE d.latest \in JarRels
      OBVIOUS
    <2>1. Kind = "nanolimbo"
      BY ListsStep DEF Kind
    <2>2. CASE d \in jarCache
      BY <2>1, <2>2 DEF JarTypes
    <2>3. ASSUME NEW silent, d = Answer(silent) PROVE d.latest \in JarRels
      BY <2>1, <2>3, NewestIs DEF Answer
    <2> QED
      BY <2>2, <2>3, CacheGrows
  <1>enough. ASSUME jarStep' \in [JarRequests -> JarSteps], jarRow' \in Row
        PROVE  JarTypes'
    BY <1>enough, <1>latest DEF JarTypes, JarSteps, JarRels, JarVers
  <1>listed. JarRels \subseteq Row
    BY DEF JarRels
  <1> HIDE DEF Row
  <1>1. CASE UpdateJar
    <2>1. ASSUME NEW rel \in JarRels, First([do |-> "create", rel |-> rel])
          PROVE  jarStep' \in [JarRequests -> JarSteps]
      <3>1. [do |-> "create", rel |-> rel] \in JarSteps
        BY DEF JarSteps
      <3> QED
        BY <1>held, <2>1, <3>1, FirstStep
    <2> QED
      BY <1>held, <1>enough, <1>1, <2>1, UpdateTakes DEF UpdateJar
  <1>2. CASE ManualUpdate
    <2>1. PICK rel \in JarRels, known \in BOOLEAN :
            First([do |-> "save", rel |-> rel, gets |-> rel, known |-> known])
      BY <1>2, UploadTakes
    <2>2. [do |-> "save", rel |-> rel, gets |-> rel, known |-> known] \in JarSteps
      BY DEF JarSteps
    <2> QED
      BY <1>held, <1>enough, <1>2, <2>1, <2>2, FirstStep DEF ManualUpdate
  <1>3. ASSUME NEW q \in JarRequests, CreateFile(q) PROVE JarTypes'
    <2>1. jarStep[q].do = "create" /\ UNCHANGED jarRow
      BY <1>3 DEF CreateFile, Step
    <2>2. \/ Ends(q)
          \/ jarStep' = [jarStep EXCEPT ![q] =
                [do |-> "copy", rel |-> jarStep[q].rel,
                 gets |-> IF Kind = "purpur" THEN Newest ELSE jarStep[q].rel]]
      BY <1>3 DEF CreateFile
    <2> QED
      BY <1>held, <1>enough, <2>1, <2>2, CreateStep, EndsStep
  <1>4. ASSUME NEW q \in JarRequests, NEW do, Ends(q) \/ Then(q, do),
               \/ jarStep[q].do = "copy" /\ do = "row"
               \/ jarStep[q].do = "save" /\ do = "fill"
               \/ jarStep[q].do = "fill" /\ do = "place"
               \/ jarStep[q].do = "place" /\ do = "clean"
               \/ jarStep[q].do = "clean" /\ do = "record"
        PROVE  jarStep' \in [JarRequests -> JarSteps]
    <2>1. CASE Ends(q)
      BY <1>held, <2>1, EndsStep
    <2>2. CASE Then(q, do)
      BY <1>held, <1>4, <2>2, ThenStep
    <2> QED
      BY <1>4, <2>1, <2>2
  <1>5. ASSUME NEW q \in JarRequests,
               CopyFile(q) \/ SaveUpload(q) \/ FillUpload(q) \/ PlaceJar(q) \/ CleanInstalled(q)
        PROVE  JarTypes'
    <2>1. UNCHANGED jarRow
      BY <1>5 DEF CopyFile, SaveUpload, FillUpload, PlaceJar, CleanInstalled
    <2>2. \/ jarStep[q].do = "copy" /\ (Ends(q) \/ Then(q, "row"))
          \/ jarStep[q].do = "save" /\ (Ends(q) \/ Then(q, "fill"))
          \/ jarStep[q].do = "fill" /\ (Ends(q) \/ Then(q, "place"))
          \/ jarStep[q].do = "place" /\ (Ends(q) \/ Then(q, "clean"))
          \/ jarStep[q].do = "clean" /\ Then(q, "record")
      BY <1>5 DEF CopyFile, SaveUpload, FillUpload, PlaceJar, CleanInstalled, Step
    <2>3. jarStep' \in [JarRequests -> JarSteps]
      BY <2>2, <1>4
    <2> QED
      BY <1>held, <1>enough, <2>1, <2>3
  <1>6. ASSUME NEW q \in JarRequests, RecordUpdate(q) PROVE JarTypes'
    <2>1. jarStep[q].do = "row" /\ Ends(q)
      BY <1>6 DEF RecordUpdate, WriteRow, Step
    <2>2. jarRow' \in {jarRow, jarStep[q].rel}
      BY <1>6 DEF RecordUpdate, WriteRow
    <2>3. jarRow' \in Row
      BY <1>held, <1>listed, <2>1, <2>2, StepHolds
    <2> QED
      BY <1>held, <1>enough, <2>1, <2>3, EndsStep
  <1>7. ASSUME NEW q \in JarRequests, RecordManual(q) PROVE JarTypes'
    <2>1. jarStep[q].do = "record" /\ Ends(q)
      BY <1>7 DEF RecordManual, Step
    <2>2. jarRow' = jarRow \/ \E id \in {jarStep[q].rel.id, 0} : jarRow' = Rel(jarStep[q].rel.ver, id)
      BY <1>7 DEF RecordManual
    <2>3. jarStep[q].rel \in JarRels
      BY <1>held, <2>1, StepHolds
    <2>4. jarRow' \in Row
      BY <1>held, <2>2, <2>3 DEF Row, JarRels, Rel
    <2> QED
      BY <1>held, <1>enough, <2>1, <2>4, EndsStep
  <1>8. CASE CrashJar
    <2>1. JarAtRest \in JarSteps
      BY DEF JarAtRest, JarSteps
    <2>2. jarStep' \in [JarRequests -> JarSteps] /\ UNCHANGED jarRow
      BY <1>8, <2>1 DEF CrashJar
    <2> QED
      BY <1>held, <1>enough, <2>2
  <1>9. CASE UNCHANGED <<jarRow, jarStep>>
    BY <1>held, <1>enough, <1>9
  <1>10. CheckJarUpdate \/ CacheExpires \/ StartJar \/ StopJar \/ Publish \/ Rechannel
            \/ UNCHANGED jarVars => UNCHANGED <<jarRow, jarStep>>
    BY DEF CheckJarUpdate, CacheExpires, StartJar, StopJar, Publish, Rechannel, jarVars
  <1> QED
    BY <1>1, <1>2, <1>3, <1>5, <1>6, <1>7, <1>8, <1>9, <1>10 DEF JarNext

LEMMA NewestTyped == ListsOK /\ Kind # "velocity" => Newest \in JarRels
  BY NewestIs

LEMMA CacheStep ==
    ASSUME JarIInv, [JarNext]_jarVars
    PROVE  CacheOK'
  <1> SUFFICES ASSUME Kind \notin {"paper", "velocity", "nanolimbo"}, NEW d \in jarCache'
               PROVE  /\ d.key \in [ver : JarVers, id : Nat]
                      /\ d.has => d.key.id = 0 \/ Newest'.id > d.key.id
    BY ListsStep DEF CacheOK, JarIInv, Kind, JarVers
  <1>1. NewestGrows /\ ListsOK' /\ UNCHANGED jarUsers
    BY ListsStep DEF JarIInv
  <1>2. Newest.id \in Nat
    BY NewestIs DEF JarIInv, JarRels
  <1>3. (ListsOK /\ Kind # "velocity" => Newest \in JarRels)'
    BY NewestTyped, PTL
  <1>4. Newest'.id \in Nat
    BY <1>1, <1>3 DEF JarRels, Kind
  <1>5. CASE d \in jarCache
    <2>1. d.key \in [ver : JarVers, id : Nat] /\ (d.has => d.key.id = 0 \/ Newest.id > d.key.id)
      BY <1>5 DEF CacheOK, JarIInv
    <2>2. d.key.id \in Nat
      BY <2>1
    <2> QED
      BY <2>1, <2>2, <1>1, <1>2, <1>4 DEF NewestGrows
  <1>6. ASSUME NEW silent, d = Answer(silent)
        PROVE  /\ d.key \in [ver : JarVers, id : Nat]
               /\ d.has => d.key.id = 0 \/ Newest'.id > d.key.id
    <2>1. d.key = jarRow /\ d.has = HasUpdate(silent) /\ jarRow \in [ver : JarVers, id : Nat]
      BY <1>6 DEF Answer, CacheKey, JarIInv, JarTypes
    <2>2. HasUpdate(silent) => jarRow.id = 0 \/ Newest.id > jarRow.id
      BY DEF HasUpdate
    <2>3. jarRow.id \in Nat
      BY <2>1
    <2> QED
      BY <2>1, <2>2, <2>3, <1>1, <1>2, <1>4 DEF NewestGrows
  <1> QED
    BY <1>5, <1>6, CacheGrows

LEMMA JarInitInv == JarInit => JarIInv
  <1> SUFFICES ASSUME JarInit PROVE JarIInv
    OBVIOUS
  <1>1. JarAtRest \in JarSteps
    BY DEF JarAtRest, JarSteps
  <1>2. jarRow \in [ver : JarVers, id : Nat]
    BY DEF JarInit, Rel, JarVers
  <1>3. jarStep \in [JarRequests -> JarSteps] /\ jarCache = {}
    BY <1>1 DEF JarInit
  <1> QED
    BY <1>2, <1>3, ListsInit DEF JarIInv, JarTypes, CacheOK

LEMMA JarInvariance == JarSpec => []JarIInv
  <1>1. JarIInv /\ [JarNext]_jarVars => JarIInv'
    BY ListsStep, JarTypesStep, CacheStep DEF JarIInv
  <1> QED
    BY <1>1, JarInitInv, PTL DEF JarSpec

(* Whatever overlaps or fails: an update that has put the build which is the   *)
(* one to take now into the row leaves no update to offer, cached answers      *)
(* notwithstanding.                                                             *)
THEOREM UpdateSettlesHolds == JarSpec => UpdateSettles
  <1> DEFINE Settled ==
        \A q \in JarRequests, silent \in Silences :
            /\ RecordUpdate(q) /\ WriteRow(q) /\ jarStep[q].rel = Pick(silent)
            /\ Kind # "nanolimbo"
            /\ Kind = "paper" => PaperListed = PaperDownloaded
            => ~Offered(silent)'
  <1>1. JarIInv /\ [JarNext]_jarVars => [Settled]_jarVars
    <2> SUFFICES ASSUME JarIInv, JarNext, NEW q \in JarRequests, NEW silent \in Silences,
                        RecordUpdate(q), WriteRow(q), jarStep[q].rel = Pick(silent),
                        Kind # "nanolimbo",
                        Kind = "paper" => PaperListed = PaperDownloaded
                 PROVE  ~Offered(silent)'
      OBVIOUS
    <2>1. UNCHANGED <<upstream, jarUsers>> /\ jarRow' = Pick(silent) /\ jarStep[q].do = "row"
      BY DEF RecordUpdate, WriteRow, JarGoesOn, Step
    <2>2. Pick(silent) \in JarRels
      BY <2>1, StepHolds DEF JarIInv, JarTypes
    <2>3. Pick(silent).id \in Nat \ {0}
      BY <2>2 DEF JarRels
    <2>4. UNCHANGED <<Kind, LatestVelocityBuild(silent), PaperListed, Newest>>
      BY <2>1 DEF Kind, LatestVelocityBuild, PaperListed, Newest, Builds, StableIds
    <2>5. ~HasUpdate(silent)'
      <3>1. CASE Kind = "velocity"
        BY <2>1, <2>3, <2>4, <3>1 DEF HasUpdate, Pick
      <3>2. CASE Kind = "paper"
        BY <2>1, <2>3, <2>4, <3>2 DEF HasUpdate, Pick
      <3>3. CASE Kind \notin {"velocity", "paper"}
        BY <2>1, <2>3, <2>4, <3>3 DEF HasUpdate, Pick
      <3> QED
        BY <3>1, <3>2, <3>3
    <2>6. \A ch \in jarCache' : ch.key = Pick(silent) => ~ch.has
      <3>1. CASE Kind \in {"paper", "velocity"}
        BY <2>1, <3>1 DEF WriteRow, Cached, CacheKey
      <3>2. CASE Kind \notin {"paper", "velocity"}
        <4>1. Pick(silent) = Newest
          BY <3>2 DEF Pick
        <4>2. \A ch \in jarCache' : ch.has => ch.key.id = 0 \/ Newest.id > ch.key.id
          BY <2>4, <3>2, CacheStep DEF CacheOK
        <4> QED
          BY <2>3, <4>1, <4>2
      <3> QED
        BY <3>1, <3>2
    <2>7. \A ch \in Cached(jarRow)' : ~ch.has
      BY <2>1, <2>4, <2>6 DEF Cached, CacheKey
    <2> QED
      BY <2>5, <2>7 DEF Offered, Answers, Answer
  <1> QED
    BY <1>1, JarInvariance, PTL DEF JarSpec, UpdateSettles

(***************************************************************************)
(* SerialJarMatchesRow.  While one request is at work no other begins and   *)
(* nothing is started or stopped, so jar and row are as its steps have left *)
(* them; only the sites go on.                                              *)
(***************************************************************************)
OneByOne == ~jarUsers.overlap /\ ~jarUsers.failing /\ "crash" \notin jarUsers.ops

(* Purpur's download is of the newest build, which may have come after the *)
(* look.                                                                    *)
Fetched(rel, gets) ==
    IF Kind = "purpur" THEN rel.ver = gets.ver /\ rel.id <= gets.id ELSE rel = gets

JarAlone ==
    \A p, q \in JarRequests : jarStep[p].do # "idle" /\ jarStep[q].do # "idle" => p = q

AtWork(q) ==
    LET s == jarStep[q] IN
    /\ s.do # "idle" => ~jarUp
    /\ s.do \in {"create", "copy", "row"} => Kind # "installer"
    /\ s.do = "create" =>
        /\ jar.writers = {}
        /\ Kind = "purpur" => s.rel.ver = Newest.ver /\ s.rel.id <= Newest.id
    /\ s.do = "copy" =>
        jar = [rel |-> s.gets, whole |-> FALSE, writers |-> {q}] /\ Fetched(s.rel, s.gets)
    /\ s.do = "row" =>
        /\ jar.rel = s.gets /\ jar.whole = TRUE /\ jar.writers = {}
        /\ Fetched(s.rel, s.gets)
    /\ s.do \in {"save", "fill", "place", "clean", "record"} =>
        /\ jar.writers = {} /\ s.gets = s.rel
        /\ s.known = FALSE => Kind \in {"paper", "purpur"}
    /\ s.do = "fill" => jarUpload = {[rel |-> s.rel, whole |-> FALSE, writers |-> {q}]}
    /\ s.do = "place" => jarUpload = {[rel |-> s.rel, whole |-> TRUE, writers |-> {}]}
    /\ s.do \notin {"idle", "fill", "place"} => jarUpload = {}
    /\ s.do \in {"clean", "record"} => jar.whole = TRUE /\ jar.rel = s.rel
    /\ s.do = "record" /\ Kind = "installer" => installed = JarNone

(* With nobody at work. *)
JarSettled ==
    /\ jar.whole = TRUE /\ jar.writers = {} /\ jarUpload = {}
    /\ jarRow.ver = jar.rel.ver
    /\ \/ jarRow.id = jar.rel.id
       \/ jarRow.id = 0 /\ Kind \in {"paper", "purpur"}
       \/ jarRow.id < jar.rel.id /\ Kind = "purpur"
    /\ Kind = "installer" =>
        installed \in {JarNone, jar.rel} /\ (jarUp => installed = jar.rel)

JarSerial ==
    OneByOne =>
        /\ JarAlone
        /\ \A q \in JarRequests : AtWork(q)
        /\ (\A q \in JarRequests : jarStep[q].do = "idle") => JarSettled

(* Without downloads, one by one: of what an upload that was cut short has  *)
(* left nobody has a hold.                                                  *)
JarUploads ==
    ~jarUsers.overlap /\ "update" \notin jarUsers.ops =>
        /\ JarAlone
        /\ jar.whole = TRUE /\ jar.writers = {}
        /\ \A q \in JarRequests :
            LET s == jarStep[q] IN
            /\ s.do \notin {"create", "copy", "row"}
            /\ s.do = "fill" => jarUpload = {[rel |-> s.gets, whole |-> FALSE, writers |-> {q}]}
            /\ s.do = "place" => \A f \in jarUpload : f.whole = TRUE
        /\ (\A q \in JarRequests : jarStep[q].do # "fill") =>
                \A f \in jarUpload : f.writers = {}

(* With one request at a time, one begins when all rest. *)
LEMMA Rests ==
    ASSUME ~jarUsers.overlap, NEW kind, Handle(kind)
    PROVE  \A q \in JarRequests : jarStep[q].do = "idle"
  BY DEF Handle, JarIdle

(* A request that has begun, and what must hold for its first step. *)
LEMMA BeginsSerial ==
    ASSUME JarIInv, JarSerial, OneByOne,
           UNCHANGED <<jarUsers, jar, jarUpload, installed, jarUp>>,
           \A q \in JarRequests : jarStep[q].do = "idle",
           NEW s \in JarSteps, First(s), s.do \in {"create", "save"}, ~jarUp,
           s.do = "create" => Kind # "installer" /\
               (Kind = "purpur" => s.rel.ver = Newest'.ver /\ s.rel.id <= Newest'.id),
           s.do = "save" =>
               s.gets = s.rel /\ (s.known = FALSE => Kind \in {"paper", "purpur"}),
           UNCHANGED jarRow
    PROVE  JarSerial'
  <1>1. /\ \A q \in JarRequests : jarStep'[q] \in {jarStep[q], s}
        /\ \A p, q \in JarRequests :
                jarStep'[p] # jarStep[p] /\ jarStep'[q] # jarStep[q] => p = q
    BY FirstStep DEF JarIInv, JarTypes
  <1>2. JarSettled /\ Kind' = Kind
    BY DEF JarSerial, Kind
  <1>3. JarAlone'
    BY <1>1 DEF JarAlone
  <1>4. \A q \in JarRequests : AtWork(q)'
    <2> SUFFICES ASSUME NEW q \in JarRequests PROVE AtWork(q)'
      OBVIOUS
    <2>1. CASE jarStep'[q] = s
      BY <2>1, <1>2 DEF AtWork, JarSettled
    <2>2. CASE jarStep'[q] = jarStep[q]
      BY <2>2 DEF AtWork
    <2> QED
      BY <1>1, <2>1, <2>2
  <1>5. JarSettled'
    BY <1>2 DEF JarSettled
  <1> QED
    BY <1>3, <1>4, <1>5 DEF JarSerial

(* A request that goes on while the others rest. *)
LEMMA GoesOnSerial ==
    ASSUME JarIInv, JarSerial, OneByOne, UNCHANGED jarUsers, NEW q \in JarRequests,
           jarStep[q].do # "idle",
           \A p \in JarRequests \ {q} : jarStep'[p] = jarStep[p],
           AtWork(q)', jarStep'[q].do = "idle" => JarSettled'
    PROVE  JarSerial'
  <1>1. \A p \in JarRequests \ {q} : jarStep[p].do = "idle" /\ jarStep'[p].do = "idle"
    BY DEF JarSerial, JarAlone
  <1>2. JarAlone'
    BY <1>1 DEF JarAlone
  <1>3. \A p \in JarRequests \ {q} : AtWork(p)'
    BY <1>1 DEF AtWork
  <1> QED
    BY <1>2, <1>3 DEF JarSerial

(* The sites and the caches go on while a request is at work. *)
LEMMA SitesSerial ==
    ASSUME JarIInv, [JarNext]_jarVars, JarSerial,
           UNCHANGED <<jar, jarUpload, jarRow, installed, jarUp, jarStep>>
    PROVE  JarSerial'
  <1> SUFFICES ASSUME OneByOne PROVE JarSerial'
    BY ListsStep DEF JarSerial, OneByOne, JarIInv
  <1>1. UNCHANGED <<jarUsers, Kind>>
    BY ListsStep DEF JarIInv, Kind
  <1>2. \A q \in JarRequests : AtWork(q)'
    <2> SUFFICES ASSUME NEW q \in JarRequests PROVE AtWork(q)'
      OBVIOUS
    <2>1. AtWork(q)
      BY DEF JarSerial
    <2>2. ASSUME jarStep[q].do = "create", Kind = "purpur"
          PROVE  jarStep[q].rel.ver = Newest'.ver /\ jarStep[q].rel.id <= Newest'.id
      <3>1. NewestGrows /\ Newest.id \in Nat /\ Newest'.id \in Nat
        <4>1. NewestGrows /\ ListsOK' /\ Newest.id \in Nat
          BY <2>2, ListsStep, NewestTyped DEF JarIInv, JarRels
        <4>2. (ListsOK /\ Kind # "velocity" => Newest \in JarRels)'
          BY NewestTyped, PTL
        <4> QED
          BY <1>1, <2>2, <4>1, <4>2 DEF JarRels
      <3>2. jarStep[q].rel.id \in Nat
        BY <2>2, StepHolds DEF JarIInv, JarTypes, JarRels
      <3> QED
        BY <2>1, <2>2, <3>1, <3>2 DEF AtWork, NewestGrows
    <2> QED
      BY <1>1, <2>1, <2>2 DEF AtWork, Fetched
  <1> QED
    BY <1>1, <1>2 DEF JarSerial, JarAlone, JarSettled

LEMMA UpdateSerial ==
    ASSUME JarIInv, JarSerial, OneByOne, UpdateJar, UNCHANGED jarUsers
    PROVE  JarSerial'
  <1>1. /\ \A q \in JarRequests : jarStep[q].do = "idle"
        /\ UNCHANGED <<jar, jarUpload, jarRow, installed, jarUp>> /\ ~jarUp /\ Kind # "installer"
    BY Rests DEF UpdateJar, OneByOne
  <1>2. CASE UNCHANGED jarStep
    BY <1>1, <1>2, SitesSerial DEF JarNext
  <1>3. ASSUME NEW rel \in JarRels, First([do |-> "create", rel |-> rel]),
               Kind = "purpur" => rel = Newest
        PROVE  JarSerial'
    <2> DEFINE s == [do |-> "create", rel |-> rel]
    <2>1. s \in JarSteps /\ First(s) /\ s.do = "create" /\ s.rel = rel
      BY <1>3 DEF JarSteps
    <2>2. Newest' = Newest /\ (Kind = "purpur" => Newest.id \in Nat)
      BY NewestIs DEF UpdateJar, Newest, Builds, JarIInv, JarRels
    <2> HIDE DEF s
    <2>3. Kind = "purpur" => s.rel.ver = Newest'.ver /\ s.rel.id <= Newest'.id
      BY <1>3, <2>1, <2>2
    <2> QED
      BY <1>1, <2>1, <2>3, BeginsSerial
  <1> QED
    BY <1>2, <1>3, UpdateTakes

LEMMA ManualSerial ==
    ASSUME JarIInv, JarSerial, OneByOne, ManualUpdate, UNCHANGED jarUsers
    PROVE  JarSerial'
  <1>1. /\ \A q \in JarRequests : jarStep[q].do = "idle"
        /\ UNCHANGED <<jar, jarUpload, jarRow, installed, jarUp>> /\ ~jarUp
    BY Rests DEF ManualUpdate, OneByOne
  <1>2. PICK rel \in JarRels, known \in BOOLEAN :
            /\ known = FALSE => Kind \in {"paper", "purpur"}
            /\ First([do |-> "save", rel |-> rel, gets |-> rel, known |-> known])
    BY UploadTakes
  <1> DEFINE s == [do |-> "save", rel |-> rel, gets |-> rel, known |-> known]
  <1>3. /\ s \in JarSteps /\ First(s) /\ s.do = "save" /\ s.known = known
        /\ s.rel = rel /\ s.gets = rel
    BY <1>2 DEF JarSteps
  <1> HIDE DEF s
  <1> QED
    BY <1>1, <1>2, <1>3, BeginsSerial

LEMMA DownloadSerial ==
    ASSUME JarIInv, JarSerial, OneByOne, UNCHANGED jarUsers, NEW q \in JarRequests,
           CreateFile(q) \/ CopyFile(q) \/ RecordUpdate(q)
    PROVE  JarSerial'
  <1>0. AtWork(q) /\ Kind' = Kind /\ jarStep \in [JarRequests -> JarSteps]
    BY DEF JarSerial, Kind, JarIInv, JarTypes
  <1>1. CASE CreateFile(q)
    <2> DEFINE gets == IF Kind = "purpur" THEN Newest ELSE jarStep[q].rel
    <2>1. /\ jarStep[q].do = "create" /\ UNCHANGED <<jarUp, jarUpload>>
          /\ jar' = Truncated(jar, q, gets)
          /\ jarStep' = [jarStep EXCEPT ![q] =
                [do |-> "copy", rel |-> jarStep[q].rel, gets |-> gets]]
      BY <1>1 DEF CreateFile, Step, OneByOne
    <2>2. /\ \A p \in JarRequests \ {q} : jarStep'[p] = jarStep[p]
          /\ jarStep'[q] = [do |-> "copy", rel |-> jarStep[q].rel, gets |-> gets]
      BY <2>1, CreateStep
    <2>3. /\ Fetched(jarStep[q].rel, gets) /\ jar.writers = {} /\ ~jarUp
          /\ Kind # "installer" /\ jarUpload = {}
      BY <1>0, <2>1 DEF AtWork, Fetched
    <2> HIDE DEF gets
    <2>4. jar' = [rel |-> gets, whole |-> FALSE, writers |-> {q}]
      BY <2>1, <2>3 DEF Truncated
    <2>5. AtWork(q)' /\ jarStep'[q].do # "idle"
      BY <1>0, <2>1, <2>2, <2>3, <2>4 DEF AtWork, Fetched
    <2> QED
      BY <2>1, <2>2, <2>5, GoesOnSerial
  <1>2. CASE CopyFile(q)
    <2> DEFINE mine == jarStep[q].gets
    <2>1. /\ jarStep[q].do = "copy" /\ jar = [rel |-> mine, whole |-> FALSE, writers |-> {q}]
          /\ ~jarUp /\ Kind # "installer" /\ Fetched(jarStep[q].rel, mine) /\ jarUpload = {}
          /\ UNCHANGED <<jarUp, jarUpload>>
      BY <1>0, <1>2 DEF CopyFile, Step, AtWork
    <2>2. jar.rel = mine /\ jar.writers = {q}
      BY <2>1
    <2>3. Then(q, "row") /\ jar' = Filled(jar, q)
      BY <1>2 DEF CopyFile, OneByOne
    <2>4. jar' = [rel |-> mine, whole |-> TRUE, writers |-> {}]
      BY <2>2, <2>3 DEF Filled
    <2>5. /\ \A p \in JarRequests \ {q} : jarStep'[p] = jarStep[p]
          /\ jarStep'[q].do = "row" /\ jarStep'[q].rel = jarStep[q].rel
          /\ jarStep'[q].gets = mine
      BY <1>0, <2>1, <2>3, ThenStep
    <2>6. AtWork(q)'
      BY <1>0, <2>1, <2>4, <2>5 DEF AtWork, Fetched
    <2> QED
      BY <2>1, <2>5, <2>6, GoesOnSerial
  <1>3. CASE RecordUpdate(q)
    <2>1. /\ jarStep[q].do = "row" /\ Ends(q) /\ UNCHANGED <<jar, jarUpload, installed, jarUp>>
          /\ jarRow' = jarStep[q].rel
      BY <1>3 DEF RecordUpdate, WriteRow, Step, OneByOne
    <2>2. /\ jar.whole = TRUE /\ jar.writers = {} /\ jarUpload = {} /\ Kind # "installer"
          /\ jar.rel = jarStep[q].gets /\ Fetched(jarRow', jar.rel)
      BY <1>0, <2>1 DEF AtWork
    <2>3. /\ \A p \in JarRequests \ {q} : jarStep'[p] = jarStep[p]
          /\ jarStep'[q].do = "idle"
      BY <1>0, <2>1, EndsStep
    <2>4. AtWork(q)'
      BY <2>3 DEF AtWork
    <2>5. /\ jarRow'.ver = jar.rel.ver
          /\ \/ jarRow'.id = jar.rel.id
             \/ jarRow'.id < jar.rel.id /\ Kind = "purpur"
      <3>1. CASE Kind = "purpur"
        <4>1. jarRow'.ver = jar.rel.ver /\ jarRow'.id <= jar.rel.id
          BY <2>2, <3>1 DEF Fetched
        <4>2. jarRow'.id \in Nat /\ jar.rel.id \in Nat
          BY <1>0, <2>1, <2>2, StepHolds DEF JarRels
        <4> QED
          BY <3>1, <4>1, <4>2
      <3>2. CASE Kind # "purpur"
        BY <2>2, <3>2 DEF Fetched
      <3> QED
        BY <3>1, <3>2
    <2>6. JarSettled'
      BY <1>0, <2>1, <2>2, <2>5 DEF JarSettled
    <2> QED
      BY <2>1, <2>3, <2>4, <2>6, GoesOnSerial
  <1> QED
    BY <1>1, <1>2, <1>3

LEMMA UploadSerial ==
    ASSUME JarIInv, JarSerial, OneByOne, UNCHANGED jarUsers, NEW q \in JarRequests,
           \/ SaveUpload(q) \/ FillUpload(q) \/ PlaceJar(q)
           \/ CleanInstalled(q) \/ RecordManual(q)
    PROVE  JarSerial'
  <1>0. AtWork(q) /\ Kind' = Kind /\ jarStep \in [JarRequests -> JarSteps]
    BY DEF JarSerial, Kind, JarIInv, JarTypes
  <1>save. CASE SaveUpload(q)
    <2>1. /\ jarStep[q].do = "save" /\ UNCHANGED <<jar, jarUp>> /\ Then(q, "fill")
          /\ \E file \in IF jarUpload = {} THEN {EmptyJar} ELSE jarUpload :
                jarUpload' = {Truncated(file, q, jarStep[q].gets)}
      BY <1>save DEF SaveUpload, Step, OneByOne
    <2>2. jarUpload = {} /\ jarStep[q].gets = jarStep[q].rel
      BY <1>0, <2>1 DEF AtWork
    <2>3. jarUpload' = {[rel |-> jarStep[q].rel, whole |-> FALSE, writers |-> {q}]}
      BY <2>1, <2>2 DEF Truncated, EmptyJar
    <2>4. /\ \A p \in JarRequests \ {q} : jarStep'[p] = jarStep[p]
          /\ jarStep'[q].do = "fill" /\ jarStep'[q].rel = jarStep[q].rel
          /\ jarStep'[q].gets = jarStep[q].gets /\ jarStep'[q].known = jarStep[q].known
      BY <1>0, <2>1, ThenStep
    <2>5. AtWork(q)'
      BY <1>0, <2>1, <2>3, <2>4 DEF AtWork
    <2> QED
      BY <2>1, <2>4, <2>5, GoesOnSerial
  <1>fill. CASE FillUpload(q)
    <2>1. /\ jarStep[q].do = "fill" /\ UNCHANGED jarUp /\ Then(q, "place")
          /\ jar' = Filled(jar, q) /\ jarUpload' = {Filled(file, q) : file \in jarUpload}
      BY <1>fill DEF FillUpload, Step, OneByOne
    <2> DEFINE file == [rel |-> jarStep[q].rel, whole |-> FALSE, writers |-> {q}]
    <2>2. jarUpload = {file} /\ jar.writers = {} /\ jarStep[q].gets = jarStep[q].rel
      BY <1>0, <2>1 DEF AtWork
    <2>3. jar' = jar /\ Filled(file, q) = [rel |-> jarStep[q].rel, whole |-> TRUE, writers |-> {}]
      BY <2>1, <2>2 DEF Filled
    <2> HIDE DEF file
    <2>4. jarUpload' = {[rel |-> jarStep[q].rel, whole |-> TRUE, writers |-> {}]}
      BY <2>1, <2>2, <2>3
    <2>5. /\ \A p \in JarRequests \ {q} : jarStep'[p] = jarStep[p]
          /\ jarStep'[q].do = "place" /\ jarStep'[q].rel = jarStep[q].rel
          /\ jarStep'[q].gets = jarStep[q].gets /\ jarStep'[q].known = jarStep[q].known
      BY <1>0, <2>1, ThenStep
    <2>6. AtWork(q)'
      BY <1>0, <2>1, <2>3, <2>4, <2>5 DEF AtWork
    <2> QED
      BY <2>1, <2>5, <2>6, GoesOnSerial
  <1>1. CASE PlaceJar(q)
    <2>0. jarStep[q].do = "place" /\ UNCHANGED jarUp /\ jarUpload' = {}
      BY <1>1 DEF PlaceJar, Step
    <2>up. jarUpload = {[rel |-> jarStep[q].rel, whole |-> TRUE, writers |-> {}]}
      BY <1>0, <2>0 DEF AtWork
    <2>1. /\ jarStep[q].do = "place" /\ UNCHANGED jarUp /\ Then(q, "clean") /\ jarUpload' = {}
          /\ jar' = [rel |-> jarStep[q].rel, whole |-> TRUE, writers |-> {}]
      BY <1>1, <2>0, <2>up DEF PlaceJar, OneByOne
    <2>2. /\ \A p \in JarRequests \ {q} : jarStep'[p] = jarStep[p]
          /\ jarStep'[q].do = "clean" /\ jarStep'[q].rel = jarStep[q].rel
          /\ jarStep'[q].gets = jarStep[q].gets /\ jarStep'[q].known = jarStep[q].known
      BY <1>0, <2>1, ThenStep
    <2>3. AtWork(q)'
      BY <1>0, <2>1, <2>2 DEF AtWork
    <2> QED
      BY <2>1, <2>2, <2>3, GoesOnSerial
  <1>2. CASE CleanInstalled(q)
    <2>1. /\ jarStep[q].do = "clean" /\ UNCHANGED <<jar, jarUpload, jarUp>> /\ Then(q, "record")
          /\ Kind = "installer" => installed' = JarNone
      BY <1>2 DEF CleanInstalled, Step, OneByOne
    <2>2. /\ \A p \in JarRequests \ {q} : jarStep'[p] = jarStep[p]
          /\ jarStep'[q].do = "record" /\ jarStep'[q].rel = jarStep[q].rel
          /\ jarStep'[q].gets = jarStep[q].gets /\ jarStep'[q].known = jarStep[q].known
      BY <1>0, <2>1, ThenStep
    <2>3. AtWork(q)'
      BY <1>0, <2>1, <2>2 DEF AtWork
    <2> QED
      BY <2>1, <2>2, <2>3, GoesOnSerial
  <1>3. CASE RecordManual(q)
    <2>1. /\ jarStep[q].do = "record" /\ UNCHANGED <<jar, jarUpload, installed, jarUp>> /\ Ends(q)
          /\ jarRow' = Rel(jarStep[q].rel.ver, IF jarStep[q].known THEN jarStep[q].rel.id ELSE 0)
      BY <1>3 DEF RecordManual, Step, OneByOne
    <2>2. jarStep[q].known \in BOOLEAN
      <3>1. jarStep[q] \in JarSteps
        BY <1>0
      <3> QED
        BY <2>1, <3>1 DEF JarSteps
    <2>3. /\ \A p \in JarRequests \ {q} : jarStep'[p] = jarStep[p]
          /\ jarStep'[q].do = "idle"
      BY <1>0, <2>1, EndsStep
    <2>4. AtWork(q)'
      BY <2>3 DEF AtWork
    <2>5. /\ jarRow'.ver = jar.rel.ver
          /\ \/ jarRow'.id = jar.rel.id
             \/ jarRow'.id = 0 /\ Kind \in {"paper", "purpur"}
      BY <1>0, <2>1, <2>2 DEF AtWork, Rel
    <2>6. JarSettled'
      BY <1>0, <2>1, <2>5 DEF AtWork, JarSettled
    <2> QED
      BY <2>1, <2>3, <2>4, <2>6, GoesOnSerial
  <1> QED
    BY <1>save, <1>fill, <1>1, <1>2, <1>3

LEMMA RunSerial ==
    ASSUME JarIInv, JarSerial, OneByOne, UNCHANGED jarUsers, StartJar \/ StopJar
    PROVE  JarSerial'
  <1>1. /\ \A q \in JarRequests : jarStep[q].do = "idle"
        /\ UNCHANGED <<jar, jarUpload, jarRow, jarStep, Kind>>
    BY Rests DEF StartJar, StopJar, OneByOne, Kind
  <1>2. JarSettled
    BY <1>1 DEF JarSerial
  <1>3. Kind = "installer" =>
            installed' \in {JarNone, jar.rel} /\ (jarUp' => installed' = jar.rel)
    BY <1>2 DEF JarSettled, StartJar, StopJar
  <1>4. JarSettled'
    BY <1>1, <1>2, <1>3 DEF JarSettled
  <1> QED
    BY <1>1, <1>4 DEF JarSerial, JarAlone, AtWork

LEMMA JarSerialStep ==
    ASSUME JarIInv, JarSerial, [JarNext]_jarVars
    PROVE  JarSerial'
  <1> SUFFICES ASSUME OneByOne PROVE JarSerial'
    BY ListsStep DEF JarSerial, OneByOne, JarIInv
  <1>1. UNCHANGED jarUsers
    BY ListsStep DEF JarIInv
  <1>2. CASE UpdateJar \/ ManualUpdate
    BY <1>1, <1>2, UpdateSerial, ManualSerial
  <1>3. ASSUME NEW q \in JarRequests,
               \/ CreateFile(q) \/ CopyFile(q) \/ RecordUpdate(q)
               \/ SaveUpload(q) \/ FillUpload(q) \/ PlaceJar(q)
               \/ CleanInstalled(q) \/ RecordManual(q)
        PROVE  JarSerial'
    BY <1>1, <1>3, DownloadSerial, UploadSerial
  <1>4. CASE StartJar \/ StopJar
    BY <1>1, <1>4, RunSerial
  <1>5. ~CrashJar
    BY DEF CrashJar, OneByOne
  <1>6. CheckJarUpdate \/ CacheExpires \/ Publish \/ Rechannel \/ UNCHANGED jarVars
            => UNCHANGED <<jar, jarUpload, jarRow, installed, jarUp, jarStep>>
    BY DEF CheckJarUpdate, CacheExpires, Publish, Rechannel, jarVars
  <1>7. CASE UNCHANGED <<jar, jarUpload, jarRow, installed, jarUp, jarStep>>
    BY <1>7, SitesSerial
  <1> QED
    BY <1>2, <1>3, <1>4, <1>5, <1>6, <1>7 DEF JarNext

(* Without downloads, and one by one, only whole uploads are put in place. *)
LEMMA UploadsStep ==
    ASSUME JarIInv, JarUploads, [JarNext]_jarVars
    PROVE  JarUploads'
  <1>1. UNCHANGED jarUsers /\ jarStep \in [JarRequests -> JarSteps]
    BY ListsStep DEF JarIInv, JarTypes
  <1> DEFINE Only == ~jarUsers.overlap /\ "update" \notin jarUsers.ops
             Open(q) == [rel |-> jarStep[q].gets, whole |-> FALSE, writers |-> {q}]
             Resting(q) == \A p \in JarRequests \ {q} : jarStep[p].do = "idle"
  <1> SUFFICES ASSUME Only PROVE JarUploads'
    BY <1>1 DEF JarUploads
  <1>2. /\ JarAlone /\ jar.whole = TRUE /\ jar.writers = {}
        /\ \A q \in JarRequests :
            /\ jarStep[q].do \notin {"create", "copy", "row"}
            /\ jarStep[q].do = "fill" => jarUpload = {Open(q)}
            /\ jarStep[q].do = "place" => \A f \in jarUpload : f.whole = TRUE
        /\ (\A q \in JarRequests : jarStep[q].do # "fill") =>
                \A f \in jarUpload : f.writers = {}
    BY DEF JarUploads
  <1>3. ~UpdateJar /\ \A q \in JarRequests : ~CreateFile(q) /\ ~CopyFile(q) /\ ~RecordUpdate(q)
    BY <1>2 DEF UpdateJar, Handle, AskJar, CreateFile, CopyFile, RecordUpdate, Step
  <1>4. \A q \in JarRequests : jarStep[q].do # "idle" => Resting(q)
    BY <1>2 DEF JarAlone
  <1> HIDE DEF Only
  \* One request at work takes a step, the others rest.
  <1>5. ASSUME NEW q \in JarRequests, Resting(q), jar'.whole = TRUE, jar'.writers = {},
               \A p \in JarRequests \ {q} : jarStep'[p] = jarStep[p],
               jarStep'[q].do \notin {"create", "copy", "row"},
               jarStep'[q].do = "fill" => jarUpload' = {Open(q)'},
               jarStep'[q].do = "place" => \A f \in jarUpload' : f.whole = TRUE,
               jarStep'[q].do # "fill" => \A f \in jarUpload' : f.writers = {}
        PROVE  JarUploads'
    <2>1. JarAlone'
      BY <1>5 DEF JarAlone
    <2> QED
      BY <1>5, <2>1 DEF JarUploads
  <1> HIDE DEF Open, Resting
  <1>6. CASE ManualUpdate
    <2>1. PICK rel \in JarRels, known \in BOOLEAN :
            First([do |-> "save", rel |-> rel, gets |-> rel, known |-> known])
      BY <1>6, UploadTakes
    <2> DEFINE s == [do |-> "save", rel |-> rel, gets |-> rel, known |-> known]
    <2>2. s \in JarSteps /\ First(s) /\ s.do = "save" /\ UNCHANGED <<jar, jarUpload>>
      BY <1>6, <2>1 DEF ManualUpdate, JarSteps
    <2> HIDE DEF s
    <2>3. /\ \A q \in JarRequests : jarStep'[q] \in {jarStep[q], s}
          /\ \A p, q \in JarRequests :
                jarStep'[p] # jarStep[p] /\ jarStep'[q] # jarStep[q] => p = q
      BY <1>1, <2>2, FirstStep
    <2>4. \A q \in JarRequests : jarStep[q].do = "idle"
      BY <1>6, Rests DEF ManualUpdate, Only
    <2>5. JarAlone'
      BY <2>3, <2>4 DEF JarAlone
    <2>6. \A q \in JarRequests : jarStep'[q].do \in {"idle", "save"}
      BY <2>2, <2>3, <2>4
    <2>7. \A f \in jarUpload : f.writers = {}
      BY <1>2, <2>4
    <2> QED
      BY <1>2, <2>2, <2>5, <2>6, <2>7 DEF JarUploads
  <1>7. ASSUME NEW q \in JarRequests, SaveUpload(q) PROVE JarUploads'
    <2>1. jarStep[q].do = "save" /\ UNCHANGED jar
      BY <1>7 DEF SaveUpload, Step
    <2>2. \A f \in jarUpload : f.writers = {}
      BY <1>2, <1>4, <2>1 DEF Resting
    <2>3. CASE Ends(q) /\ jarUpload' = {}
      BY <1>1, <1>2, <1>4, <1>5, <2>1, <2>3, EndsStep
    <2>4. CASE /\ Then(q, "fill")
               /\ \E file \in IF jarUpload = {} THEN {EmptyJar} ELSE jarUpload :
                    jarUpload' = {Truncated(file, q, jarStep[q].gets)}
      <3>1. PICK file : /\ file.writers = {}
                        /\ jarUpload' = {Truncated(file, q, jarStep[q].gets)}
        BY <2>2, <2>4 DEF EmptyJar
      <3>2. jarUpload' = {[rel |-> jarStep[q].gets, whole |-> FALSE, writers |-> {q}]}
        BY <3>1 DEF Truncated
      <3>3. /\ \A p \in JarRequests \ {q} : jarStep'[p] = jarStep[p]
            /\ jarStep'[q].do = "fill" /\ jarStep'[q].gets = jarStep[q].gets
        BY <1>1, <2>1, <2>4, ThenStep
      <3> QED
        BY <1>2, <1>4, <1>5, <2>1, <3>2, <3>3 DEF Open
    <2> QED
      BY <1>7, <2>3, <2>4 DEF SaveUpload
  <1>8. ASSUME NEW q \in JarRequests, FillUpload(q) PROVE JarUploads'
    <2>1. jarStep[q].do = "fill" /\ jarUpload = {Open(q)}
      BY <1>2, <1>8 DEF FillUpload, Step
    <2>2. Filled(jar, q) = jar /\ Abandoned(jar, {q}) = jar
      BY <1>2 DEF Filled, Abandoned
    <2>3. CASE Ends(q) /\ jarUpload' = {} /\ jar' = jar
      BY <1>1, <1>2, <1>4, <1>5, <2>1, <2>3, EndsStep
    <2>4. CASE Then(q, "place") /\ jar' = jar /\ jarUpload' = {Filled(file, q) : file \in jarUpload}
      <3>1. Filled(Open(q), q) = [rel |-> jarStep[q].gets, whole |-> TRUE, writers |-> {}]
        BY DEF Filled, Open
      <3>2. jarUpload' = {[rel |-> jarStep[q].gets, whole |-> TRUE, writers |-> {}]}
        BY <2>1, <2>4, <3>1
      <3>3. \A f \in jarUpload' : f.whole = TRUE /\ f.writers = {}
        BY <3>2
      <3>4. /\ \A p \in JarRequests \ {q} : jarStep'[p] = jarStep[p]
            /\ jarStep'[q].do = "place"
        BY <1>1, <2>1, <2>4, ThenStep
      <3> QED
        BY <1>2, <1>4, <1>5, <2>1, <2>4, <3>3, <3>4
    <2> QED
      BY <1>8, <2>2, <2>3, <2>4 DEF FillUpload
  <1>9. ASSUME NEW q \in JarRequests, PlaceJar(q) PROVE JarUploads'
    <2>1. jarStep[q].do = "place" /\ jarUpload' = {}
      BY <1>9 DEF PlaceJar, Step
    <2>2. \A f \in jarUpload : f.whole = TRUE /\ f.writers = {}
      BY <1>2, <1>4, <2>1 DEF Resting
    <2>3. CASE Ends(q) /\ UNCHANGED jar
      BY <1>1, <1>2, <1>4, <1>5, <2>1, <2>3, EndsStep
    <2>4. CASE jar' \in jarUpload /\ Then(q, "clean")
      <3>1. /\ \A p \in JarRequests \ {q} : jarStep'[p] = jarStep[p]
            /\ jarStep'[q].do = "clean"
        BY <1>1, <2>1, <2>4, ThenStep
      <3> QED
        BY <1>4, <1>5, <2>1, <2>2, <2>4, <3>1
    <2> QED
      BY <1>9, <2>3, <2>4 DEF PlaceJar
  <1>10. ASSUME NEW q \in JarRequests, CleanInstalled(q) \/ RecordManual(q) PROVE JarUploads'
    <2>1. /\ UNCHANGED <<jar, jarUpload>>
          /\ \/ jarStep[q].do = "clean" /\ Then(q, "record")
             \/ jarStep[q].do = "record" /\ Ends(q)
      BY <1>10 DEF CleanInstalled, RecordManual, Step
    <2>2. \A f \in jarUpload : f.writers = {}
      BY <1>2, <1>4, <2>1 DEF Resting
    <2>3. /\ \A p \in JarRequests \ {q} : jarStep'[p] = jarStep[p]
          /\ jarStep'[q].do \in {"record", "idle"}
      <3>1. CASE jarStep[q].do = "clean" /\ Then(q, "record")
        BY <1>1, <3>1, ThenStep
      <3>2. CASE Ends(q)
        BY <1>1, <3>2, EndsStep
      <3> QED
        BY <2>1, <3>1, <3>2
    <2> QED
      BY <1>2, <1>4, <1>5, <2>1, <2>2, <2>3
  <1>11. CASE CrashJar
    <2>1. Abandoned(jar, JarRequests) = jar
      BY <1>2 DEF Abandoned
    <2>2. \A q \in JarRequests : jarStep'[q].do = "idle"
      BY <1>11 DEF CrashJar, JarAtRest
    <2>3. \A f \in jarUpload : f.writers \subseteq JarRequests
      <3>1. CASE \A q \in JarRequests : jarStep[q].do # "fill"
        BY <1>2, <3>1
      <3>2. ASSUME NEW q \in JarRequests, jarStep[q].do = "fill"
            PROVE  \A f \in jarUpload : f.writers \subseteq JarRequests
        BY <1>2, <3>2 DEF Open
      <3> QED
        BY <3>1, <3>2
    <2>4. \A f \in jarUpload : Abandoned(f, JarRequests).writers = {}
      BY <2>3 DEF Abandoned
    <2>5. jar' = jar /\ \A f \in jarUpload' : f.writers = {}
      BY <1>11, <2>1, <2>4 DEF CrashJar
    <2>6. JarAlone'
      BY <2>2 DEF JarAlone
    <2> QED
      BY <1>2, <2>2, <2>5, <2>6 DEF JarUploads
  <1>12. CheckJarUpdate \/ CacheExpires \/ StartJar \/ StopJar \/ Publish \/ Rechannel
            \/ UNCHANGED jarVars => UNCHANGED <<jar, jarUpload, jarStep>>
    BY DEF CheckJarUpdate, CacheExpires, StartJar, StopJar, Publish, Rechannel, jarVars
  <1>13. CASE UNCHANGED <<jar, jarUpload, jarStep>>
    BY <1>2, <1>13 DEF JarUploads, JarAlone, Open
  <1> QED
    BY <1>3, <1>6, <1>7, <1>8, <1>9, <1>10, <1>11, <1>12, <1>13 DEF JarNext

LEMMA JarSerialInit == JarInit => JarSerial /\ JarUploads
  <1> SUFFICES ASSUME JarInit PROVE JarSerial /\ JarUploads
    OBVIOUS
  <1>1. \A q \in JarRequests : jarStep[q].do = "idle"
    BY DEF JarInit, JarAtRest
  <1>2. JarSettled
    BY DEF JarInit, JarSettled
  <1> QED
    BY <1>1, <1>2 DEF JarSerial, JarUploads, JarAlone, AtWork, JarInit

(* Requests one by one, none failing, for any number of them and any lists:    *)
(* whenever none is at work the jar is whole and the row names it, and what an *)
(* installer server runs was made by it.  Without downloads, again one by one, *)
(* the jar is whole whatever fails or crashes.                                  *)
THEOREM SerialJarMatchesRowHolds == JarSpec => []SerialJarMatchesRow
  <1>1. JarSpec => [](JarSerial /\ JarUploads)
    <2>1. JarIInv /\ JarSerial /\ JarUploads /\ [JarNext]_jarVars => (JarSerial /\ JarUploads)'
      BY JarSerialStep, UploadsStep
    <2> QED
      BY <2>1, JarSerialInit, JarInvariance, PTL DEF JarSpec
  <1>2. JarSerial /\ JarUploads => SerialJarMatchesRow
    <2> SUFFICES ASSUME JarSerial, JarUploads PROVE SerialJarMatchesRow
      OBVIOUS
    <2>1. ASSUME OneByOne, JarIdle = JarRequests
          PROVE  /\ jar.whole
                 /\ jarRow.ver = jar.rel.ver
                 /\ \/ jarRow.id = jar.rel.id
                    \/ jarRow.id = 0 /\ Kind \in {"paper", "purpur"}
                    \/ jarRow.id < jar.rel.id /\ Kind = "purpur"
                 /\ jarUp /\ Kind = "installer" => installed = jar.rel
      <3>1. \A q \in JarRequests : jarStep[q].do = "idle"
        BY <2>1 DEF JarIdle
      <3> QED
        BY <2>1, <3>1 DEF JarSerial, JarSettled
    <2>2. ~jarUsers.overlap /\ "update" \notin jarUsers.ops => jar.whole
      BY DEF JarUploads
    <2> QED
      BY <2>1, <2>2 DEF SerialJarMatchesRow, OneByOne
  <1> QED
    BY <1>1, <1>2, PTL

-----------------------------------------------------------------------------
(***************************************************************************)
(* The hub: types, that Hub.Run sends on open channels only, and that a     *)
(* client misses no broadcast, for any clients, capacities and messages.    *)
(***************************************************************************)
\* RegisteredIsOpen is not inductive: Register would enter a client with a
\* closed channel.  A channel is closed only for a client that has been entered,
\* and a client is entered once: Run takes one registration of each handler.
HubIInv ==
  /\ RegisteredIsOpen
  /\ \A c \in Clients : handler[c] \in {"new", "register"} => c \notin clients \cup closed
  /\ hub.pc = "register" =>
       hub.client \notin closed /\ handler[hub.client] \notin {"new", "register"}
  /\ hub.pc \in {"fanout", "evictClose"} => hub.todo \subseteq clients
  /\ hub.pc = "evictClose" => hub.client \in clients

\* The types, and that Run has a client in hand where it needs one.
HubTyped ==
  /\ TypeOK
  /\ hub.pc \notin {"select", "fanout"} => hub.client \in Clients

USE DEF HubSteps, HubTo, Error

-------------------------------------------------------------------------------
(***************************************************************************)
(* Types                                                                   *)
(***************************************************************************)
LEMMA PushType ==
  ASSUME TypeOK, NEW c \in Clients, ~Full(c), NEW m \in 0..MaxMessages, Push(c, m)
  PROVE  /\ send' \in [Clients -> Seq(0..MaxMessages)]
         /\ \A d \in Clients : Len(send'[d]) <= SendCap
<1>1. send[c] \in Seq(0..MaxMessages) /\ Len(send[c]) <= SendCap /\ Len(send[c]) # SendCap
  BY DEF TypeOK, Full
<1>2. /\ Append(send[c], m) \in Seq(0..MaxMessages)
      /\ Len(Append(send[c], m)) = Len(send[c]) + 1
  BY <1>1
<1>3. Len(Append(send[c], m)) <= SendCap
  BY <1>1, <1>2, HubAssumption
<1>4. send' = [send EXCEPT ![c] = Append(send[c], m)]
  BY DEF Push
<1>5. QED
  BY <1>2, <1>3, <1>4 DEF TypeOK

LEMMA IdleType ==
  HubIdle \in [pc : HubSteps, client : Clients \cup {None},
               msg : 0..MaxMessages, todo : SUBSET Clients]
<1>1. 0 \in 0..MaxMessages
  BY HubAssumption
<1>2. QED
  BY <1>1 DEF HubIdle

LEMMA TypeInit == Init => HubTyped
  BY HubAssumption, IdleType DEF Init, TypeOK, HubTyped, HubIdle

LEMMA TypeRun == HubTyped /\ Run => HubTyped'
<1> SUFFICES ASSUME HubTyped, Run PROVE HubTyped'
  OBVIOUS
<1>1. ASSUME NEW c \in Clients, TakeRegister(c) PROVE HubTyped'
  BY <1>1 DEF HubTyped, TypeOK, TakeRegister
<1>2. ASSUME NEW c \in Clients, TakeUnregister(c) PROVE HubTyped'
  BY <1>2 DEF HubTyped, TypeOK, TakeUnregister
<1>3. ASSUME NEW c \in Clients, FanOut(c) PROVE HubTyped'
  <2>1. CASE UNCHANGED send
    <3>1. CASE UNCHANGED hub
      BY <1>3, <2>1, <3>1 DEF HubTyped, TypeOK, FanOut
    <3>2. CASE HubTo("evictClose", c)
      BY <1>3, <2>1, <3>2 DEF HubTyped, TypeOK, FanOut
    <3>3. CASE Push(c, hub.msg) /\ hub' = [hub EXCEPT !.todo = @ \ {c}]
      BY <1>3, <2>1, <3>3 DEF HubTyped, TypeOK, FanOut
    <3>4. QED
      BY <1>3, <3>1, <3>2, <3>3 DEF FanOut
  <2>2. CASE ~Full(c) /\ Push(c, hub.msg)
    <3>1. hub.msg \in 0..MaxMessages
      BY DEF HubTyped, TypeOK
    <3>2. /\ send' \in [Clients -> Seq(0..MaxMessages)]
          /\ \A d \in Clients : Len(send'[d]) <= SendCap
      BY <2>2, <3>1, PushType DEF HubTyped
    <3>3. CASE UNCHANGED hub
      BY <1>3, <3>2, <3>3 DEF HubTyped, TypeOK, FanOut
    <3>4. CASE hub' = [hub EXCEPT !.todo = @ \ {c}]
      <4>1. /\ hub' \in [pc : HubSteps, client : Clients \cup {None},
                        msg : 0..MaxMessages, todo : SUBSET Clients]
            /\ hub'.pc = hub.pc
            /\ hub'.client = hub.client
        BY <3>4 DEF HubTyped, TypeOK
      <4>2. /\ UNCHANGED <<clients, broadcast, published, closed, handler, reader,
                            writer, command, netUp, got>>
            /\ fate' \in {"runs", "fatal unlock", "send on closed channel"}
        BY <1>3 DEF HubTyped, TypeOK, FanOut
      <4>3. QED
        BY <3>2, <4>1, <4>2 DEF HubTyped, TypeOK
    <3>5. QED
      BY <1>3, <2>2, <3>3, <3>4 DEF FanOut
  <2>3. QED
    BY <1>3, <2>1, <2>2 DEF FanOut
<1>4. CASE Register
  BY <1>4, IdleType DEF HubTyped, TypeOK, Register, HubIdle
<1>5. CASE Unregister
  BY <1>5, IdleType DEF HubTyped, TypeOK, Unregister, HubIdle
<1>6. CASE TakeBroadcast
  <2>1. /\ broadcast \in Seq(1..MaxMessages)
        /\ Len(broadcast) <= BroadcastCap
        /\ broadcast # <<>>
    BY <1>6 DEF HubTyped, TypeOK, TakeBroadcast
  <2>2. /\ Head(broadcast) \in 0..MaxMessages
        /\ Tail(broadcast) \in Seq(1..MaxMessages)
        /\ Len(Tail(broadcast)) = Len(broadcast) - 1
    <3>1. /\ Head(broadcast) \in 1..MaxMessages
          /\ Tail(broadcast) \in Seq(1..MaxMessages)
          /\ Len(Tail(broadcast)) = Len(broadcast) - 1
      BY <2>1, HeadTailProperties
    <3>2. QED
      BY <3>1, HubAssumption
  <2>3. Len(Tail(broadcast)) <= BroadcastCap
    BY <2>1, <2>2, HubAssumption
  <2>4. hub' \in [pc : HubSteps, client : Clients \cup {None},
                 msg : 0..MaxMessages, todo : SUBSET Clients]
    BY <1>6, <2>2 DEF HubTyped, TypeOK, TakeBroadcast
  <2>5. QED
    BY <1>6, <2>2, <2>3, <2>4 DEF HubTyped, TypeOK, TakeBroadcast
<1>7. CASE FanOutEnds
  BY <1>7, IdleType DEF HubTyped, TypeOK, FanOutEnds, HubIdle
<1>8. CASE EvictClose
  BY <1>8 DEF HubTyped, TypeOK, EvictClose
<1>9. CASE EvictDelete
  BY <1>9 DEF HubTyped, TypeOK, EvictDelete
<1>10. CASE EvictUnlock
  BY <1>10 DEF HubTyped, TypeOK, EvictUnlock
<1>11. QED
  BY <1>1, <1>2, <1>3, <1>4, <1>5, <1>6, <1>7, <1>8, <1>9, <1>10 DEF Run

LEMMA TypeClient ==
  ASSUME HubTyped, NEW c \in Clients, Client(c)
  PROVE  HubTyped'
<1>1. CASE Connect(c)
  BY <1>1 DEF HubTyped, TypeOK, Connect
<1>2. CASE CountLock(c)
  BY <1>2 DEF HubTyped, TypeOK, CountLock
<1>3. CASE CountUnlock(c)
  BY <1>3 DEF HubTyped, TypeOK, CountUnlock
<1>4. CASE ReadCommand(c)
  BY <1>4 DEF HubTyped, TypeOK, ReadCommand
<1>5. CASE ReadFails(c)
  BY <1>5 DEF HubTyped, TypeOK, ReadFails
<1>6. CASE Write(c)
  <2>1. CASE send[c] # <<>> /\ send' = [send EXCEPT ![c] = Tail(@)]
    <3>1. send[c] \in Seq(0..MaxMessages) /\ Len(send[c]) <= SendCap
      BY DEF HubTyped, TypeOK
    <3>2. /\ Head(send[c]) \in 0..MaxMessages
          /\ Tail(send[c]) \in Seq(0..MaxMessages)
          /\ Len(Tail(send[c])) = Len(send[c]) - 1
      BY <2>1, <3>1, HeadTailProperties
    <3>3. Len(Tail(send[c])) <= SendCap
      BY <3>1, <3>2, HubAssumption
    <3>4. /\ send' \in [Clients -> Seq(0..MaxMessages)]
          /\ \A d \in Clients : Len(send'[d]) <= SendCap
      BY <2>1, <3>2, <3>3 DEF HubTyped, TypeOK
    <3>5. got' \in [Clients -> 0..MaxMessages]
      BY <1>6, <3>2 DEF HubTyped, TypeOK, Write
    <3>6. QED
      BY <1>6, <3>4, <3>5 DEF HubTyped, TypeOK, Write
  <2>2. CASE UNCHANGED <<send, got>>
    BY <1>6, <2>2 DEF HubTyped, TypeOK, Write
  <2>3. QED
    BY <1>6, <2>1, <2>2 DEF Write
<1>7. CASE CommandEnds(c)
  <2>1. PICK step \in {"none", "failed"} : command' = [command EXCEPT ![c] = step]
    BY <1>7 DEF CommandEnds
  <2>2. command' \in [Clients -> {"none", "running", "failed"}]
    BY <2>1 DEF HubTyped, TypeOK
  <2>3. QED
    BY <1>7, <2>2 DEF HubTyped, TypeOK, CommandEnds
<1>8. CASE SendError(c)
  <2>1. CASE UNCHANGED send
    BY <1>8, <2>1 DEF HubTyped, TypeOK, SendError
  <2>2. CASE ~Full(c) /\ Push(c, Error)
    <3>1. Error \in 0..MaxMessages
      BY HubAssumption
    <3>2. /\ send' \in [Clients -> Seq(0..MaxMessages)]
          /\ \A d \in Clients : Len(send'[d]) <= SendCap
      BY <2>2, <3>1, PushType DEF HubTyped
    <3>3. QED
      BY <1>8, <3>2 DEF HubTyped, TypeOK, SendError
  <2>3. QED
    BY <1>8, <2>1, <2>2 DEF SendError
<1>9. CASE NetFails(c)
  BY <1>9 DEF HubTyped, TypeOK, NetFails
<1>10. QED
  BY <1>1, <1>2, <1>3, <1>4, <1>5, <1>6, <1>7, <1>8, <1>9 DEF Client

LEMMA TypeBroadcast == HubTyped /\ Broadcast => HubTyped'
<1> SUFFICES ASSUME HubTyped, Broadcast PROVE HubTyped'
  OBVIOUS
<1> DEFINE m == published + 1
<1>1. m \in 1..MaxMessages /\ m \in 0..MaxMessages
  <2>1. published \in 0..MaxMessages /\ published < MaxMessages
    BY DEF HubTyped, TypeOK, Broadcast
  <2>2. QED
    BY <2>1, HubAssumption
<1>2. /\ broadcast' \in Seq(1..MaxMessages)
      /\ Len(broadcast') <= BroadcastCap
  <2>1. /\ broadcast \in Seq(1..MaxMessages)
        /\ Len(broadcast) <= BroadcastCap /\ Len(broadcast) < BroadcastCap
        /\ broadcast' = Append(broadcast, m)
    BY DEF HubTyped, TypeOK, Broadcast
  <2>2. /\ Append(broadcast, m) \in Seq(1..MaxMessages)
        /\ Len(Append(broadcast, m)) = Len(broadcast) + 1
    <3> HIDE DEF m
    <3>1. QED
      BY <2>1, <1>1
  <2>3. QED
    BY <2>1, <2>2, HubAssumption
<1>3. QED
  BY <1>1, <1>2 DEF HubTyped, TypeOK, Broadcast

\* The types with Run's client: what the other proofs start from.
THEOREM Types == Spec => []HubTyped
<1>1. HubTyped /\ [Next]_vars => HubTyped'
  <2>1. CASE UNCHANGED vars
    BY <2>1 DEF HubTyped, TypeOK, vars
  <2>2. QED
    BY <2>1, TypeRun, TypeClient, TypeBroadcast DEF Next
<1>2. QED
  BY <1>1, TypeInit, PTL DEF Spec

\* The variables keep their types; in particular no channel holds more than its
\* capacity (Hub.Run, SendError and Broadcast wait or give up when it is full).
THEOREM TypeCorrect == Spec => []TypeOK
<1>1. HubTyped => TypeOK
  BY DEF HubTyped
<1>2. QED
  BY <1>1, Types, PTL

-------------------------------------------------------------------------------
(***************************************************************************)
(* Open channels                                                           *)
(***************************************************************************)
LEMMA InvRun == HubTyped /\ HubIInv /\ Run => HubIInv'
<1> SUFFICES ASSUME HubTyped, HubIInv, Run PROVE HubIInv'
  OBVIOUS
<1> USE DEF HubTyped, TypeOK, HubIInv, RegisteredIsOpen
<1>1. ASSUME NEW c \in Clients, TakeRegister(c) PROVE HubIInv'
  BY <1>1 DEF TakeRegister
<1>2. ASSUME NEW c \in Clients, TakeUnregister(c) PROVE HubIInv'
  BY <1>2 DEF TakeUnregister
<1>3. ASSUME NEW c \in Clients, FanOut(c) PROVE HubIInv'
  BY <1>3 DEF FanOut
<1>4. CASE Register
  BY <1>4 DEF Register, HubIdle
<1>5. CASE Unregister
  BY <1>5 DEF Unregister, HubIdle
<1>6. CASE TakeBroadcast
  BY <1>6 DEF TakeBroadcast
<1>7. CASE FanOutEnds
  BY <1>7 DEF FanOutEnds, HubIdle
<1>8. CASE EvictClose
  BY <1>8 DEF EvictClose
<1>9. CASE EvictDelete
  BY <1>9 DEF EvictDelete
<1>10. CASE EvictUnlock
  BY <1>10 DEF EvictUnlock
<1>11. QED
  BY <1>1, <1>2, <1>3, <1>4, <1>5, <1>6, <1>7, <1>8, <1>9, <1>10 DEF Run

\* The clients' goroutines touch neither the map nor the channels' state; their
\* handlers only move on.
LEMMA InvClient ==
  ASSUME HubTyped, HubIInv, NEW c \in Clients, Client(c)
  PROVE  HubIInv'
<1> USE DEF HubTyped, TypeOK, HubIInv, RegisteredIsOpen
<1>1. UNCHANGED <<hub, clients, closed>>
  BY DEF Client, Connect, CountLock, CountUnlock, ReadCommand, ReadFails, Write,
         CommandEnds, SendError, NetFails
<1>2. CASE UNCHANGED handler
  BY <1>1, <1>2
<1>3. CASE handler[c] = "new" /\ handler' = [handler EXCEPT ![c] = "register"]
  BY <1>1, <1>3
<1>4. ASSUME NEW step \in {"blocked", "counting", "done"},
             handler' = [handler EXCEPT ![c] = step]
      PROVE  HubIInv'
  BY <1>1, <1>4
<1>5. QED
  BY <1>2, <1>3, <1>4 DEF Client, Connect, CountLock, CountUnlock, ReadCommand,
     ReadFails, Write, CommandEnds, SendError, NetFails

THEOREM HubInvariance == Spec => []HubIInv
<1>1. Init => HubIInv
  BY DEF Init, HubIdle, HubIInv, RegisteredIsOpen
<1>2. HubTyped /\ HubIInv /\ [Next]_vars => HubIInv'
  <2>1. CASE UNCHANGED vars
    BY <2>1 DEF HubIInv, RegisteredIsOpen, vars
  <2>2. ASSUME HubIInv, Broadcast PROVE HubIInv'
    BY <2>2 DEF HubIInv, RegisteredIsOpen, Broadcast
  <2>3. QED
    BY <2>1, <2>2, InvRun, InvClient DEF Next
<1>3. QED
  BY <1>1, <1>2, Types, PTL DEF Spec

\* A client in the hub's map has an open channel, but for the one the eviction
\* is about to delete (Hub.Run's unregister and eviction).
THEOREM OpenChannels == Spec => []RegisteredIsOpen
<1>1. HubIInv => RegisteredIsOpen
  BY DEF HubIInv
<1>2. QED
  BY <1>1, HubInvariance, PTL

\* Both, as the run on a small instance checks them.
THEOREM HubInvHolds == Spec => []HubInv
<1>1. TypeOK /\ RegisteredIsOpen => HubInv
  BY DEF HubInv
<1>2. QED
  BY <1>1, TypeCorrect, OpenChannels, PTL

\* Hub.Run never sends on a closed channel: what ends the process there is the
\* eviction's RUnlock only, and the panic comes from SendError.
THEOREM RunSendsOnOpen == Spec => [][Run => fate' # "send on closed channel" \/ fate' = fate]_vars
<1>1. HubTyped /\ HubIInv /\ [Next]_vars
        => [Run => fate' # "send on closed channel" \/ fate' = fate]_vars
  <2> SUFFICES ASSUME HubTyped, HubIInv, Run
               PROVE  fate' # "send on closed channel" \/ fate' = fate
    OBVIOUS
  <2>1. ASSUME NEW c \in Clients, FanOut(c)
        PROVE  fate' = fate
    BY <2>1 DEF FanOut, HubTyped, TypeOK, HubIInv, RegisteredIsOpen
  <2>2. ASSUME NEW c \in Clients, TakeRegister(c) \/ TakeUnregister(c)
        PROVE  fate' = fate
    BY <2>2 DEF TakeRegister, TakeUnregister
  <2>3. CASE Register \/ Unregister \/ TakeBroadcast \/ FanOutEnds \/ EvictClose \/ EvictDelete
    BY <2>3 DEF Register, Unregister, TakeBroadcast, FanOutEnds, EvictClose, EvictDelete
  <2>4. CASE EvictUnlock
    BY <2>4 DEF EvictUnlock
  <2>5. QED
    BY <2>1, <2>2, <2>3, <2>4 DEF Run
<1>2. QED
  BY <1>1, Types, HubInvariance, PTL DEF Spec

-------------------------------------------------------------------------------
(***************************************************************************)
(* No gaps.  What Run appends for a client follows the last broadcast on   *)
(* its way to it: broadcasts are numbered as they are published, Run takes *)
(* them in that order, and a client is entered with nothing on its way.    *)
(***************************************************************************)
\* The last broadcast of line f, if there is one, is m.
LastIs(f, m) ==
  \A i \in DOMAIN f : f[i] # Error /\ (\A k \in DOMAIN f : i < k => f[k] = Error) => f[i] = m

\* The broadcast that client c gets next.
Due(c) ==
  IF hub.pc = "fanout" /\ c \in hub.todo THEN hub.msg ELSE published + 1 - Len(broadcast)

Numbered ==
  /\ \A i \in 1..Len(broadcast) : broadcast[i] = published - Len(broadcast) + i
  /\ hub.pc = "fanout" => hub.msg = published - Len(broadcast) /\ hub.msg # Error

\* Nothing is sent to a client before Run has entered it.
Untouched ==
  /\ \A c \in Clients : handler[c] # "done" =>
       reader[c] = "off" /\ writer[c] = "off" /\ command[c] = "none"
  /\ \A c \in Clients : handler[c] \in {"new", "register"} => send[c] = <<>> /\ got[c] = 0
  /\ hub.pc = "register" =>
       /\ handler[hub.client] \in {"count", "blocked"}
       /\ send[hub.client] = <<>> /\ got[hub.client] = 0

\* Once Run evicts a client it sends no more.
Sends == hub.pc \in {"select", "register", "unregister", "fanout"}

UpToDate ==
  Sends => \A c \in clients : writer[c] # "done" => LastIs(InFlight(c), Due(c) - 1)

GapInv == Numbered /\ Untouched /\ UpToDate /\ NoGaps

\* A line to which something is appended.
LEMMA LineAppend ==
  ASSUME NEW n \in Nat, NEW f, NEW g, DOMAIN f = 0..n, DOMAIN g = 0..n+1,
         \A i \in 0..n : g[i] = f[i], Gapless(f)
  PROVE  /\ g[n+1] = Error => Gapless(g) /\ \A m : LastIs(f, m) => LastIs(g, m)
         /\ \A m \in Int : LastIs(f, m) /\ g[n+1] = m + 1 /\ g[n+1] # Error
                             => Gapless(g) /\ LastIs(g, m + 1)
<1>0. 0..n+1 = 0..n \cup {n+1} /\ n+1 \notin 0..n /\ 0..n \subseteq Int
  OBVIOUS
<1>1. \A i, j \in 0..n : Consecutive(g, i, j) => Consecutive(f, i, j)
  BY <1>0 DEF Consecutive
<1>2. \A i, j \in 0..n : Consecutive(g, i, j) => g[j] = g[i] + 1
  BY <1>1 DEF Gapless
<1>3. \A i \in 0..n+1, j \in 0..n : Consecutive(g, i, j) => i \in 0..n
  BY DEF Consecutive
<1>4. ASSUME g[n+1] = Error PROVE Gapless(g) /\ \A m : LastIs(f, m) => LastIs(g, m)
  <2>1. Gapless(g)
    BY <1>0, <1>2, <1>3, <1>4 DEF Gapless, Consecutive
  <2>2. \A m : LastIs(f, m) => LastIs(g, m)
    BY <1>0, <1>4 DEF LastIs
  <2>3. QED
    BY <2>1, <2>2
<1>5. ASSUME NEW m \in Int, LastIs(f, m), g[n+1] = m + 1, g[n+1] # Error
      PROVE  Gapless(g) /\ LastIs(g, m + 1)
  <2>1. ASSUME NEW i \in 0..n, Consecutive(g, i, n+1) PROVE g[n+1] = g[i] + 1
    <3>1. f[i] # Error /\ \A k \in 0..n : i < k => f[k] = Error
      BY <1>0, <2>1 DEF Consecutive
    <3>2. f[i] = m
      BY <1>5, <3>1 DEF LastIs
    <3>3. QED
      BY <1>5, <3>2
  <2>2. ~Consecutive(g, n+1, n+1)
    BY DEF Consecutive
  <2>3. Gapless(g)
    BY <1>0, <1>2, <1>3, <2>1, <2>2 DEF Gapless
  <2>4. LastIs(g, m + 1)
    BY <1>0, <1>5 DEF LastIs
  <2>5. QED
    BY <2>3, <2>4
<1>6. QED
  BY <1>4, <1>5

\* A line whose first place is taken by the second, or that loses an error there.
LEMMA LineShrinks ==
  ASSUME NEW n \in Nat, NEW f, NEW g, DOMAIN f = 0..n+1, DOMAIN g = 0..n,
         \A i \in 1..n : g[i] = f[i+1],
         IF f[1] = Error THEN g[0] = f[0] ELSE g[0] = f[1],
         Gapless(f)
  PROVE  Gapless(g) /\ \A m : LastIs(f, m) => LastIs(g, m)
<1> DEFINE to(i) == IF i = 0 /\ f[1] = Error THEN 0 ELSE i + 1
<1>1. \A i \in 0..n : to(i) \in 0..n+1 /\ g[i] = f[to(i)]
  OBVIOUS
<1>2. \A i, j \in 0..n : i < j => to(i) < to(j)
  OBVIOUS
<1>3. \A k \in 0..n+1 : f[k] = Error \/ (\E i \in 0..n : k = to(i)) \/ (k = 0 /\ f[1] # Error)
  <2>1. ASSUME NEW k \in 0..n+1, k # 0, k # 1 PROVE k - 1 \in 0..n /\ k = to(k - 1)
    BY <2>1
  <2>2. f[1] # Error => 1 = to(0)
    OBVIOUS
  <2>3. f[1] = Error => 0 = to(0)
    OBVIOUS
  <2>4. 0 \in 0..n
    OBVIOUS
  <2> HIDE DEF to
  <2>5. QED
    BY <2>1, <2>2, <2>3, <2>4
<1>4. \A i \in 0..n, k \in 0..n+1 : to(i) < k /\ f[1] # Error => k # 0
  OBVIOUS
<1>5. \A i, j \in 0..n : to(i) < to(j) => i < j
  OBVIOUS
<1>6. ASSUME NEW i \in 0..n, NEW j \in 0..n, Consecutive(g, i, j)
      PROVE  Consecutive(f, to(i), to(j))
  <2>1. i < j /\ g[i] # Error /\ g[j] # Error
        /\ \A k \in 0..n : i < k /\ k < j => g[k] = Error
    BY <1>6 DEF Consecutive
  <2> HIDE DEF to
  <2>2. ASSUME NEW k \in 0..n+1, to(i) < k, k < to(j), f[k] # Error PROVE FALSE
    <3>1. PICK l \in 0..n : k = to(l)
      BY <1>3, <1>4, <2>2
    <3>2. i < l /\ l < j
      BY <1>5, <2>2, <3>1
    <3>3. QED
      BY <1>1, <2>1, <2>2, <3>1, <3>2
  <2>3. QED
    BY <1>1, <1>2, <2>1, <2>2 DEF Consecutive
<1>7. Gapless(g)
  <2> HIDE DEF to
  <2>1. QED
    BY <1>1, <1>6 DEF Gapless
<1>8. ASSUME NEW m, LastIs(f, m) PROVE LastIs(g, m)
  <2> SUFFICES ASSUME NEW i \in 0..n, g[i] # Error, \A k \in 0..n : i < k => g[k] = Error
               PROVE  g[i] = m
    BY DEF LastIs
  <2> HIDE DEF to
  <2>1. ASSUME NEW k \in 0..n+1, to(i) < k, f[k] # Error PROVE FALSE
    <3>1. PICK l \in 0..n : k = to(l)
      BY <1>3, <1>4, <2>1
    <3>2. i < l
      BY <1>5, <2>1, <3>1
    <3>3. QED
      BY <1>1, <2>1, <3>1, <3>2
  <2>2. QED
    BY <1>1, <1>8, <2>1 DEF LastIs
<1>9. QED
  BY <1>7, <1>8

-------------------------------------------------------------------------------
\* The steps that send and write nothing.
LEMMA SameLines ==
  ASSUME UpToDate, NoGaps, UNCHANGED <<send, got>>,
         \A c \in Clients : writer'[c] # "done" => writer[c] # "done",
         Sends' => Sends,
         Sends' => \A c \in clients' : c \in clients /\ Due(c)' = Due(c),
         clients \subseteq Clients
  PROVE  UpToDate' /\ NoGaps'
<1>1. \A c : InFlight(c)' = InFlight(c)
  BY DEF InFlight
<1>2. NoGaps'
  BY <1>1 DEF NoGaps
<1>3. UpToDate'
  BY <1>1 DEF UpToDate
<1>4. QED
  BY <1>2, <1>3

LEMMA Lines ==
  ASSUME HubTyped, NEW c \in Clients
  PROVE  /\ DOMAIN InFlight(c) = 0..Len(send[c]) /\ InFlight(c)[0] = got[c]
         /\ \A i \in 1..Len(send[c]) : InFlight(c)[i] = send[c][i]
         /\ Len(send[c]) \in Nat /\ send[c] \in Seq(0..MaxMessages)
<1>1. send[c] \in Seq(0..MaxMessages)
  BY DEF HubTyped, TypeOK
<1>2. Len(send[c]) \in Nat
  BY <1>1
<1>3. 0 \in 0..Len(send[c]) /\ \A i \in 1..Len(send[c]) : i \in 0..Len(send[c]) /\ i # 0
  BY <1>2
<1>4. QED
  BY <1>1, <1>2, <1>3 DEF InFlight

\* A message m is appended for client c.
LEMMA PushLine ==
  ASSUME HubTyped, NEW c \in Clients, NEW m \in 0..MaxMessages, Push(c, m), got' = got
  PROVE  /\ \A d \in Clients \ {c} : InFlight(d)' = InFlight(d)
         /\ Gapless(InFlight(c)) /\ m = Error =>
              Gapless(InFlight(c)') /\ \A l : LastIs(InFlight(c), l) => LastIs(InFlight(c)', l)
         /\ Gapless(InFlight(c)) /\ m # Error /\ LastIs(InFlight(c), m - 1) =>
              Gapless(InFlight(c)') /\ LastIs(InFlight(c)', m)
<1> DEFINE n == Len(send[c])
<1>1. send' = [send EXCEPT ![c] = Append(send[c], m)]
  BY DEF Push
<1>2. /\ send'[c] = Append(send[c], m)
      /\ \A d \in Clients \ {c} : send'[d] = send[d]
  BY <1>1 DEF HubTyped, TypeOK
<1>3. n \in Nat /\ send[c] \in Seq(0..MaxMessages)
  BY Lines
<1>4. Len(send'[c]) = n + 1 /\ send'[c][n + 1] = m /\ \A i \in 1..n : send'[c][i] = send[c][i]
  BY <1>2, <1>3
<1>5. DOMAIN InFlight(c) = 0..n /\ DOMAIN InFlight(c)' = 0..n+1
  BY <1>4, Lines DEF InFlight
<1>6. \A i \in 0..n : InFlight(c)'[i] = InFlight(c)[i]
  BY <1>3, <1>4 DEF InFlight
<1>7. InFlight(c)'[n+1] = m
  BY <1>3, <1>4 DEF InFlight
<1>8. \A d \in Clients \ {c} : InFlight(d)' = InFlight(d)
  BY <1>2 DEF InFlight
<1> HIDE DEF n
<1>9. m \in Int /\ m - 1 \in Int /\ (m - 1) + 1 = m
  BY HubAssumption
<1>10. ASSUME Gapless(InFlight(c)), m = Error
       PROVE  Gapless(InFlight(c)') /\ \A l : LastIs(InFlight(c), l) => LastIs(InFlight(c)', l)
  BY <1>3, <1>5, <1>6, <1>7, <1>10, LineAppend
<1>11. ASSUME Gapless(InFlight(c)), m # Error, LastIs(InFlight(c), m - 1)
       PROVE  Gapless(InFlight(c)') /\ LastIs(InFlight(c)', m)
  <2>1. Gapless(InFlight(c)') /\ LastIs(InFlight(c)', (m - 1) + 1)
    BY <1>3, <1>5, <1>6, <1>7, <1>9, <1>11, LineAppend
  <2>2. QED
    BY <1>9, <2>1
<1>12. QED
  BY <1>8, <1>10, <1>11

\* The write pump of client c takes the first message and delivers it.
LEMMA WriteLine ==
  ASSUME HubTyped, NEW c \in Clients, send[c] # <<>>, send' = [send EXCEPT ![c] = Tail(@)],
         got' = [got EXCEPT ![c] = IF Head(send[c]) = Error THEN @ ELSE Head(send[c])]
  PROVE  /\ \A d \in Clients \ {c} : InFlight(d)' = InFlight(d)
         /\ Gapless(InFlight(c)) =>
              Gapless(InFlight(c)') /\ \A l : LastIs(InFlight(c), l) => LastIs(InFlight(c)', l)
<1> DEFINE n == Len(send'[c])
<1>1. send[c] \in Seq(0..MaxMessages)
  BY Lines
<1>2. /\ send'[c] = Tail(send[c])
      /\ got'[c] = IF Head(send[c]) = Error THEN got[c] ELSE Head(send[c])
      /\ \A d \in Clients \ {c} : send'[d] = send[d] /\ got'[d] = got[d]
  BY DEF HubTyped, TypeOK
<1>3. /\ Len(send[c]) = n + 1 /\ n \in Nat /\ Head(send[c]) = send[c][1]
      /\ \A i \in 1..n : send'[c][i] = send[c][i + 1]
  <2>1. Len(Tail(send[c])) = Len(send[c]) - 1 /\ Tail(send[c]) \in Seq(0..MaxMessages)
    BY <1>1, HeadTailProperties
  <2>2. \A i \in 1..Len(send[c]) - 1 : Tail(send[c])[i] = send[c][i + 1]
    BY <1>1
  <2>3. Head(send[c]) = send[c][1] /\ Len(send[c]) \in Nat
    BY <1>1
  <2>4. n = Len(send[c]) - 1 /\ n \in Nat
    <3>1. Len(Tail(send[c])) \in Nat
      BY <2>1
    <3>2. QED
      BY <1>2, <2>1, <3>1
  <2>5. QED
    BY <1>2, <2>2, <2>3, <2>4
<1>4. DOMAIN InFlight(c) = 0..n+1 /\ DOMAIN InFlight(c)' = 0..n
  BY <1>3 DEF InFlight
<1>5. /\ \A i \in 1..n : InFlight(c)'[i] = InFlight(c)[i + 1]
      /\ InFlight(c)'[0] = got'[c] /\ InFlight(c)[0] = got[c] /\ InFlight(c)[1] = send[c][1]
  BY <1>3 DEF InFlight
<1>6. IF InFlight(c)[1] = Error THEN InFlight(c)'[0] = InFlight(c)[0]
                                ELSE InFlight(c)'[0] = InFlight(c)[1]
  BY <1>2, <1>3, <1>5
<1>7. \A d \in Clients \ {c} : InFlight(d)' = InFlight(d)
  BY <1>2 DEF InFlight
<1> HIDE DEF n
<1>8. QED
  BY <1>3, <1>4, <1>5, <1>6, <1>7, LineShrinks

\* What changes for one client whose line keeps its order and its end.
LEMMA OneLine ==
  ASSUME UpToDate, NoGaps, clients \subseteq Clients, NEW c \in Clients,
         UNCHANGED <<clients, hub, published, broadcast, writer>>,
         \A d \in Clients \ {c} : InFlight(d)' = InFlight(d),
         Gapless(InFlight(c)) =>
           Gapless(InFlight(c)') /\ \A l : LastIs(InFlight(c), l) => LastIs(InFlight(c)', l)
  PROVE  UpToDate' /\ NoGaps'
<1>1. NoGaps'
  <2>1. ASSUME NEW d \in Clients, writer[d] # "done" PROVE Gapless(InFlight(d)')
    BY <2>1 DEF NoGaps
  <2>2. QED
    BY <2>1 DEF NoGaps
<1>2. UpToDate'
  <2>1. \A d : Due(d)' = Due(d)
    BY DEF Due
  <2>2. ASSUME Sends, NEW d \in clients, writer[d] # "done" PROVE LastIs(InFlight(d)', Due(d) - 1)
    BY <2>2 DEF NoGaps, UpToDate
  <2>3. QED
    BY <2>1, <2>2 DEF UpToDate, Sends
<1>3. QED
  BY <1>1, <1>2

-------------------------------------------------------------------------------
LEMMA Counted ==
  ASSUME HubTyped
  PROVE  /\ broadcast \in Seq(1..MaxMessages) /\ Len(broadcast) \in Nat
         /\ published \in Nat /\ MaxMessages \in Nat /\ clients \subseteq Clients
<1>1. MaxMessages \in Nat
  BY HubAssumption
<1>2. published \in 0..MaxMessages /\ broadcast \in Seq(1..MaxMessages) /\ clients \subseteq Clients
  BY DEF HubTyped, TypeOK
<1>3. Len(broadcast) \in Nat
  BY <1>2
<1>4. published \in Nat
  BY <1>1, <1>2
<1>5. QED
  BY <1>1, <1>2, <1>3, <1>4

\* The numbers of the broadcasts: they change where one is published or taken.
LEMMA NumberedStep ==
  ASSUME HubTyped, Numbered, [Next]_vars
  PROVE  Numbered'
<1>1. ASSUME UNCHANGED <<broadcast, published>>,
             hub'.pc = "fanout" => hub.pc = "fanout" /\ hub'.msg = hub.msg
      PROVE  Numbered'
  BY <1>1 DEF Numbered
<1>2. CASE Broadcast
  <2>1. broadcast \in Seq(1..MaxMessages) /\ published \in Nat
    BY Counted
  <2>2. /\ Len(broadcast) \in Nat /\ published' = published + 1 /\ hub' = hub
        /\ Len(broadcast') = Len(broadcast) + 1
        /\ broadcast'[Len(broadcast) + 1] = published + 1
        /\ \A i \in 1..Len(broadcast) : broadcast'[i] = broadcast[i]
    BY <1>2, <2>1 DEF Broadcast
  <2>3. \A i \in 1..Len(broadcast') : broadcast'[i] = published' - Len(broadcast') + i
    BY <2>1, <2>2 DEF Numbered
  <2>4. hub.pc = "fanout" => hub.msg = published' - Len(broadcast') /\ hub.msg # Error
    BY <2>1, <2>2 DEF Numbered
  <2>5. QED
    BY <2>2, <2>3, <2>4 DEF Numbered
<1>3. CASE TakeBroadcast
  <2>1. broadcast \in Seq(1..MaxMessages) /\ broadcast # <<>> /\ published \in Nat
    BY <1>3, Counted DEF TakeBroadcast
  <2>2. /\ Len(Tail(broadcast)) = Len(broadcast) - 1
        /\ \A i \in 1..Len(Tail(broadcast)) : Tail(broadcast)[i] = broadcast[i + 1]
    BY <2>1, HeadTailProperties
  <2>3. Head(broadcast) = broadcast[1] /\ 1 \in 1..Len(broadcast) /\ Len(broadcast) \in Nat
    BY <2>1
  <2>4. broadcast[1] = published - Len(broadcast) + 1 /\ broadcast[1] \in 1..MaxMessages
    <3>1. broadcast[1] \in 1..MaxMessages
      BY <2>1, <2>3, HeadTailProperties
    <3>2. QED
      BY <2>3, <3>1 DEF Numbered
  <2>5. /\ broadcast' = Tail(broadcast) /\ published' = published
        /\ hub'.pc = "fanout" /\ hub'.msg = Head(broadcast)
    BY <1>3 DEF TakeBroadcast
  <2>6. hub'.msg = published' - Len(broadcast') /\ hub'.msg # Error
    BY <2>1, <2>2, <2>3, <2>4, <2>5, HubAssumption
  <2>7. \A i \in 1..Len(broadcast') : broadcast'[i] = published' - Len(broadcast') + i
    BY <2>1, <2>2, <2>3, <2>5 DEF Numbered
  <2>8. QED
    BY <2>6, <2>7 DEF Numbered
<1>4. ASSUME NEW c \in Clients, FanOut(c) PROVE Numbered'
  <2>1. UNCHANGED <<broadcast, published>> /\ hub.pc = "fanout"
    BY <1>4 DEF FanOut
  <2>2. hub'.msg = hub.msg
    BY <1>4 DEF FanOut, HubTyped, TypeOK
  <2>3. QED
    BY <1>1, <2>1, <2>2
<1>5. ASSUME NEW c \in Clients, TakeRegister(c) \/ TakeUnregister(c) \/ Client(c) PROVE Numbered'
  BY <1>1, <1>5 DEF TakeRegister, TakeUnregister, HubTyped, TypeOK, Client, Connect, CountLock,
     CountUnlock, ReadCommand, ReadFails, Write, CommandEnds, SendError, NetFails
<1>6. CASE Register \/ Unregister \/ FanOutEnds \/ EvictClose \/ EvictDelete \/ EvictUnlock
  <2>1. UNCHANGED <<broadcast, published>>
    BY <1>6 DEF Register, Unregister, FanOutEnds, EvictClose, EvictDelete, EvictUnlock
  <2>2. hub'.pc # "fanout"
    <3>1. CASE Register \/ Unregister \/ FanOutEnds
      BY <3>1 DEF Register, Unregister, FanOutEnds, HubIdle
    <3>2. CASE EvictClose \/ EvictDelete \/ EvictUnlock
      BY <3>2 DEF EvictClose, EvictDelete, EvictUnlock, HubTyped, TypeOK
    <3>3. QED
      BY <1>6, <3>1, <3>2
  <2>3. QED
    BY <1>1, <2>1, <2>2
<1>7. CASE UNCHANGED vars
  BY <1>1, <1>7 DEF vars
<1>8. QED
  BY <1>2, <1>3, <1>4, <1>5, <1>6, <1>7 DEF Next, Run

\* Who is not registered has been sent nothing.
LEMMA UntouchedFrame ==
  ASSUME Untouched,
         \A d \in Clients : handler'[d] # "done" =>
           /\ handler[d] # "done"
           /\ reader'[d] = reader[d] /\ writer'[d] = writer[d] /\ command'[d] = command[d],
         \A d \in Clients : handler'[d] \in {"new", "register"} =>
           /\ handler[d] \in {"new", "register"}
           /\ send'[d] = send[d] /\ got'[d] = got[d],
         hub'.pc = "register" =>
           /\ hub'.pc = hub.pc /\ hub'.client = hub.client
           /\ handler'[hub.client] \in {"count", "blocked"}
           /\ send'[hub.client] = send[hub.client] /\ got'[hub.client] = got[hub.client]
  PROVE  Untouched'
BY DEF Untouched

LEMMA UntouchedStep ==
  ASSUME HubTyped, HubIInv, Untouched, [Next]_vars
  PROVE  Untouched'
<1>0. /\ handler \in [Clients -> {"new", "register", "count", "blocked", "counting", "done"}]
      /\ reader \in [Clients -> {"off", "reading", "leaving", "done"}]
      /\ writer \in [Clients -> {"off", "writing", "done"}]
      /\ command \in [Clients -> {"none", "running", "failed"}]
      /\ hub.pc = "register" => hub.client \in Clients
  BY DEF HubTyped, TypeOK
<1>1. ASSUME NEW c \in Clients, FanOut(c) PROVE Untouched'
  <2>1. c \in clients /\ handler[c] \notin {"new", "register"}
    BY <1>1 DEF FanOut, HubIInv
  <2>2. \A d \in Clients \ {c} : send'[d] = send[d]
    BY <1>1 DEF FanOut, Push, HubTyped, TypeOK
  <2>3. UNCHANGED <<handler, reader, writer, command, got>>
    BY <1>1 DEF FanOut
  <2>4. hub'.pc # "register"
    BY <1>1 DEF FanOut, HubTyped, TypeOK
  <2>5. QED
    BY <2>1, <2>2, <2>3, <2>4, UntouchedFrame
<1>2. ASSUME NEW c \in Clients, TakeRegister(c) PROVE Untouched'
  <2>1. /\ handler[c] = "register" /\ handler' = [handler EXCEPT ![c] = "count"]
        /\ UNCHANGED <<reader, writer, command, send, got>>
    BY <1>2 DEF TakeRegister
  <2>2. hub'.client = c
    BY <1>2 DEF TakeRegister, HubTyped, TypeOK
  <2>3. send[c] = <<>> /\ got[c] = 0
    BY <2>1 DEF Untouched
  <2>4. QED
    BY <1>0, <2>1, <2>2, <2>3 DEF Untouched
<1>3. ASSUME NEW c \in Clients, TakeUnregister(c) PROVE Untouched'
  <2>1. /\ reader[c] = "leaving" /\ reader' = [reader EXCEPT ![c] = "done"]
        /\ UNCHANGED <<handler, writer, command, send, got>>
    BY <1>3 DEF TakeUnregister
  <2>2. hub'.pc # "register" /\ handler[c] = "done"
    BY <1>3, <2>1 DEF TakeUnregister, HubTyped, TypeOK, Untouched
  <2>3. QED
    BY <1>0, <2>1, <2>2, UntouchedFrame
<1>4. CASE \/ Register \/ Unregister \/ TakeBroadcast \/ FanOutEnds \/ EvictClose \/ EvictDelete
           \/ EvictUnlock \/ Broadcast \/ UNCHANGED vars
  <2>1. UNCHANGED <<handler, reader, writer, command, send, got>>
    BY <1>4 DEF Register, Unregister, TakeBroadcast, FanOutEnds, EvictClose, EvictDelete,
       EvictUnlock, Broadcast, vars
  <2>2. hub' = hub \/ hub'.pc # "register"
    <3>1. CASE Register \/ Unregister \/ FanOutEnds \/ TakeBroadcast
      BY <3>1 DEF Register, Unregister, FanOutEnds, TakeBroadcast, HubIdle
    <3>2. CASE EvictClose \/ EvictDelete \/ EvictUnlock
      BY <3>2 DEF EvictClose, EvictDelete, EvictUnlock, HubTyped, TypeOK
    <3>3. CASE Broadcast \/ UNCHANGED vars
      BY <3>3 DEF Broadcast, vars
    <3>4. QED
      BY <1>4, <3>1, <3>2, <3>3
  <2>3. hub.pc = "register" => handler[hub.client] \in {"count", "blocked"}
    BY DEF Untouched
  <2>4. QED
    BY <2>1, <2>2, <2>3, UntouchedFrame
<1>5. ASSUME NEW c \in Clients, NEW step \in {"register", "blocked", "counting", "done"},
             handler' = [handler EXCEPT ![c] = step],
             step = "register" => handler[c] = "new",
             handler[c] \in {"new", "count", "blocked", "counting"},
             step = "counting" => hub.pc # "register",
             step = "done" => handler[c] = "counting",
             step # "done" => UNCHANGED <<reader, writer>>,
             \A d \in Clients \ {c} : reader'[d] = reader[d] /\ writer'[d] = writer[d],
             UNCHANGED <<hub, send, got, command>>
      PROVE  Untouched'
  <2>1. handler'[c] = step /\ \A d \in Clients \ {c} : handler'[d] = handler[d]
    BY <1>0, <1>5
  <2>2. hub.pc = "register" => /\ handler[hub.client] \in {"count", "blocked"}
                               /\ hub.client \in Clients
    BY <1>0 DEF Untouched
  <2>3. hub.pc = "register" => handler'[hub.client] \in {"count", "blocked"}
    BY <1>5, <2>1, <2>2
  <2>4. QED
    BY <1>5, <2>1, <2>3, UntouchedFrame
<1>6. ASSUME NEW c \in Clients, Connect(c) \/ CountLock(c) PROVE Untouched'
  BY <1>5, <1>6 DEF Connect, CountLock, WritePending
<1>7. ASSUME NEW c \in Clients, CountUnlock(c) PROVE Untouched'
  BY <1>0, <1>5, <1>7 DEF CountUnlock
<1>8. ASSUME NEW c \in Clients, handler[c] = "done", UNCHANGED <<hub, handler>>,
             \A d \in Clients \ {c} :
               /\ send'[d] = send[d] /\ got'[d] = got[d] /\ reader'[d] = reader[d]
               /\ writer'[d] = writer[d] /\ command'[d] = command[d]
      PROVE  Untouched'
  <2>1. hub.pc = "register" => handler[hub.client] \in {"count", "blocked"} /\ hub.client \in Clients
    BY <1>0 DEF Untouched
  <2>2. QED
    BY <1>8, <2>1, UntouchedFrame
<1>9. ASSUME NEW c \in Clients, ReadCommand(c) \/ ReadFails(c) \/ CommandEnds(c)
      PROVE  Untouched'
  <2>1. handler[c] = "done"
    BY <1>9 DEF ReadCommand, ReadFails, CommandEnds, Untouched
  <2>2. /\ UNCHANGED <<hub, handler, send, got, writer>>
        /\ \A d \in Clients \ {c} : reader'[d] = reader[d] /\ command'[d] = command[d]
    BY <1>0, <1>9 DEF ReadCommand, ReadFails, CommandEnds
  <2>3. QED
    BY <1>8, <2>1, <2>2
<1>10. ASSUME NEW c \in Clients, Write(c) \/ SendError(c) PROVE Untouched'
  <2>1. handler[c] = "done"
    BY <1>10 DEF Write, SendError, Untouched
  <2>2. \A d \in Clients \ {c} :
          send'[d] = send[d] /\ got'[d] = got[d] /\ writer'[d] = writer[d] /\ command'[d] = command[d]
    BY <1>10 DEF Write, SendError, Push, HubTyped, TypeOK
  <2>3. UNCHANGED <<hub, handler, reader>>
    BY <1>10 DEF Write, SendError
  <2>4. QED
    BY <1>8, <2>1, <2>2, <2>3
<1>11. ASSUME NEW c \in Clients, NetFails(c) PROVE Untouched'
  BY <1>11 DEF NetFails, Untouched
<1>12. QED
  BY <1>1, <1>2, <1>3, <1>4, <1>6, <1>7, <1>9, <1>10, <1>11 DEF Next, Run, Client

\* What a client has to get next changes only when Run has it in hand.
LEMMA UpToDateRun ==
  ASSUME HubTyped, HubIInv, GapInv, Run
  PROVE  UpToDate' /\ NoGaps'
<1>0. /\ UpToDate /\ NoGaps /\ clients \subseteq Clients /\ UNCHANGED <<writer, got>>
      /\ published \in Nat /\ Len(broadcast) \in Nat
  <2>1. published \in Nat /\ Len(broadcast) \in Nat /\ clients \subseteq Clients
    BY Counted
  <2>2. UNCHANGED <<writer, got>>
    BY DEF Run, TakeRegister, TakeUnregister, FanOut, Register, Unregister, TakeBroadcast,
       FanOutEnds, EvictClose, EvictDelete, EvictUnlock
  <2>3. QED
    BY <2>1, <2>2 DEF GapInv
<1>1. ASSUME NEW c \in Clients, FanOut(c) PROVE UpToDate' /\ NoGaps'
  <2>1. /\ hub.pc = "fanout" /\ c \in hub.todo /\ c \in clients /\ c \notin closed
        /\ UNCHANGED <<clients, broadcast, published>>
    BY <1>1 DEF FanOut, HubIInv, RegisteredIsOpen
  <2>2. CASE HubTo("evictClose", c) /\ UNCHANGED send
    <3>1. ~Sends'
      BY <2>2 DEF Sends, HubTyped, TypeOK
    <3>2. QED
      BY <1>0, <2>2, <3>1, SameLines
  <2>3. CASE Push(c, hub.msg) /\ hub' = [hub EXCEPT !.todo = @ \ {c}]
    <3>1. hub.msg \in 0..MaxMessages /\ hub.msg # Error /\ hub.msg = published - Len(broadcast)
      BY <2>1 DEF HubTyped, TypeOK, GapInv, Numbered
    <3>2. /\ hub'.pc = "fanout" /\ hub'.msg = hub.msg /\ hub'.todo = hub.todo \ {c}
      BY <2>1, <2>3 DEF HubTyped, TypeOK
    <3>3. Due(c) = hub.msg /\ Due(c)' = hub.msg + 1
      BY <1>0, <2>1, <3>1, <3>2 DEF Due
    <3>4. \A d \in Clients \ {c} : Due(d)' = Due(d)
      BY <2>1, <3>2 DEF Due
    <3>5. /\ \A d \in Clients \ {c} : InFlight(d)' = InFlight(d)
          /\ Gapless(InFlight(c)) /\ LastIs(InFlight(c), hub.msg - 1) =>
              Gapless(InFlight(c)') /\ LastIs(InFlight(c)', hub.msg)
      BY <1>0, <2>3, <3>1, PushLine
    <3>6. writer[c] # "done" => Gapless(InFlight(c)) /\ LastIs(InFlight(c), hub.msg - 1)
      BY <1>0, <2>1, <3>3 DEF UpToDate, Sends, NoGaps
    <3>7. NoGaps'
      <4>1. ASSUME NEW d \in Clients, writer[d] # "done" PROVE Gapless(InFlight(d)')
        BY <1>0, <3>5, <3>6, <4>1 DEF NoGaps
      <4>2. QED
        BY <1>0, <4>1 DEF NoGaps
    <3>8. UpToDate'
      <4>1. (hub.msg + 1) - 1 = hub.msg
        BY <1>0, <3>1
      <4>2. writer[c] # "done" => LastIs(InFlight(c)', Due(c)' - 1)
        BY <3>3, <3>5, <3>6, <4>1
      <4>3. ASSUME NEW d \in clients, d # c, writer[d] # "done"
            PROVE  LastIs(InFlight(d)', Due(d)' - 1)
        <5>1. LastIs(InFlight(d), Due(d) - 1)
          BY <1>0, <2>1, <4>3 DEF UpToDate, Sends
        <5>2. QED
          BY <1>0, <3>4, <3>5, <4>3, <5>1
      <4>4. ASSUME NEW d \in clients, writer[d] # "done" PROVE LastIs(InFlight(d)', Due(d)' - 1)
        BY <4>2, <4>3, <4>4
      <4>5. QED
        BY <1>0, <2>1, <4>4 DEF UpToDate
    <3>9. QED
      BY <3>7, <3>8
  <2>4. QED
    BY <1>1, <2>1, <2>2, <2>3 DEF FanOut
<1>2. ASSUME UNCHANGED <<send, broadcast, published>>, clients' \subseteq clients,
             hub.pc # "fanout" \/ hub.todo = {}, Sends, hub'.pc # "fanout"
      PROVE  UpToDate' /\ NoGaps'
  <2>1. \A c : Due(c)' = Due(c)
    BY <1>2 DEF Due
  <2>2. QED
    BY <1>0, <1>2, <2>1, SameLines
<1>3. ASSUME NEW c \in Clients, TakeRegister(c) \/ TakeUnregister(c)
      PROVE  UpToDate' /\ NoGaps'
  BY <1>2, <1>3 DEF TakeRegister, TakeUnregister, Sends, HubTyped, TypeOK
<1>4. CASE Unregister \/ FanOutEnds
  BY <1>2, <1>4 DEF Unregister, FanOutEnds, Sends, HubIdle
<1>5. CASE EvictClose \/ EvictDelete \/ EvictUnlock
  <2>1. ~Sends' /\ UNCHANGED send
    BY <1>5 DEF EvictClose, EvictDelete, EvictUnlock, Sends, HubTyped, TypeOK
  <2>2. QED
    BY <1>0, <2>1, SameLines
<1>6. CASE TakeBroadcast
  <2>1. broadcast \in Seq(1..MaxMessages) /\ broadcast # <<>>
    BY <1>6 DEF TakeBroadcast, HubTyped, TypeOK
  <2>2. Head(broadcast) = broadcast[1] /\ 1 \in 1..Len(broadcast)
    BY <2>1
  <2>3. Head(broadcast) = published + 1 - Len(broadcast)
    BY <1>0, <2>2 DEF GapInv, Numbered
  <2>4. hub.pc = "select" /\ clients' = clients /\ send' = send
        /\ hub'.pc = "fanout" /\ hub'.msg = Head(broadcast) /\ hub'.todo = clients
    BY <1>6 DEF TakeBroadcast
  <2>5. \A c \in clients : Due(c)' = Due(c)
    BY <2>3, <2>4 DEF Due
  <2>6. QED
    BY <1>0, <2>4, <2>5, SameLines DEF Sends
<1>7. CASE Register
  <2>1. /\ hub.pc = "register" /\ clients' = clients \cup {hub.client} /\ hub'.pc = "select"
        /\ UNCHANGED <<send, broadcast, published>> /\ hub.client \in Clients
    BY <1>7 DEF Register, HubIdle, HubTyped
  <2>2. \A c : InFlight(c)' = InFlight(c) /\ Due(c)' = Due(c)
    BY <1>0, <2>1 DEF InFlight, Due
  <2>3. NoGaps'
    BY <1>0, <2>2 DEF NoGaps
  <2>4. send[hub.client] = <<>> /\ got[hub.client] = Error
    BY <2>1 DEF GapInv, Untouched
  <2>5. \A m : LastIs(InFlight(hub.client), m)
    BY <2>4 DEF LastIs, InFlight
  <2>6. UpToDate'
    BY <1>0, <2>1, <2>2, <2>5 DEF UpToDate, Sends
  <2>7. QED
    BY <2>3, <2>6
<1>8. QED
  BY <1>1, <1>3, <1>4, <1>5, <1>6, <1>7 DEF Run

LEMMA UpToDateClient ==
  ASSUME HubTyped, GapInv, NEW c \in Clients, Client(c)
  PROVE  UpToDate' /\ NoGaps'
<1>0. /\ UpToDate /\ NoGaps /\ clients \subseteq Clients
      /\ UNCHANGED <<hub, clients, broadcast, published>>
  BY DEF GapInv, HubTyped, TypeOK, Client, Connect, CountLock, CountUnlock, ReadCommand, ReadFails,
     Write, CommandEnds, SendError, NetFails
<1>1. \A d : Due(d)' = Due(d)
  BY <1>0 DEF Due
<1>2. Sends' = Sends
  BY <1>0 DEF Sends
<1>3. ASSUME UNCHANGED <<send, got>>, \A d \in Clients : writer'[d] # "done" => writer[d] # "done"
      PROVE  UpToDate' /\ NoGaps'
  BY <1>0, <1>1, <1>2, <1>3, SameLines
<1>4. CASE \/ Connect(c) \/ CountLock(c) \/ ReadCommand(c) \/ ReadFails(c) \/ CommandEnds(c)
           \/ NetFails(c)
  BY <1>3, <1>4 DEF Connect, CountLock, ReadCommand, ReadFails, CommandEnds, NetFails
<1>5. CASE CountUnlock(c)
  BY <1>3, <1>5 DEF CountUnlock, GapInv, Untouched, HubTyped, TypeOK
<1>6. CASE SendError(c)
  <2>1. CASE UNCHANGED send
    BY <1>3, <1>6, <2>1 DEF SendError
  <2>2. CASE Push(c, Error)
    <3>1. Error \in 0..MaxMessages /\ got' = got /\ writer' = writer
      <4>1. got' = got /\ writer' = writer
        BY <1>6 DEF SendError
      <4>2. Error \in 0..MaxMessages
        BY HubAssumption
      <4>3. QED
        BY <4>1, <4>2
    <3>2. /\ \A d \in Clients \ {c} : InFlight(d)' = InFlight(d)
          /\ Gapless(InFlight(c)) =>
               Gapless(InFlight(c)') /\ \A l : LastIs(InFlight(c), l) => LastIs(InFlight(c)', l)
      BY <2>2, <3>1, PushLine
    <3>3. QED
      BY <1>0, <3>1, <3>2, OneLine
  <2>3. QED
    BY <1>6, <2>1, <2>2 DEF SendError
<1>7. CASE Write(c)
  <2>1. CASE send[c] = <<>>
    BY <1>3, <1>7, <2>1 DEF Write, HubTyped, TypeOK
  <2>2. CASE send[c] # <<>> /\ c \in netUp
    <3>1. /\ send' = [send EXCEPT ![c] = Tail(@)] /\ writer' = writer
          /\ got' = [got EXCEPT ![c] = IF Head(send[c]) = Error THEN @ ELSE Head(send[c])]
      BY <1>7, <2>2 DEF Write
    <3>2. /\ \A d \in Clients \ {c} : InFlight(d)' = InFlight(d)
          /\ Gapless(InFlight(c)) =>
               Gapless(InFlight(c)') /\ \A l : LastIs(InFlight(c), l) => LastIs(InFlight(c)', l)
      BY <2>2, <3>1, WriteLine
    <3>3. QED
      BY <1>0, <3>1, <3>2, OneLine
  <2>3. CASE send[c] # <<>> /\ c \notin netUp
    <3>1. /\ writer'[c] = "done" /\ got' = got
          /\ \A d \in Clients \ {c} : writer'[d] = writer[d] /\ send'[d] = send[d]
      BY <1>7, <2>3 DEF Write, HubTyped, TypeOK
    <3>2. \A d \in Clients \ {c} : InFlight(d)' = InFlight(d)
      BY <3>1 DEF InFlight
    <3>3. NoGaps'
      BY <1>0, <3>1, <3>2 DEF NoGaps
    <3>4. UpToDate'
      BY <1>0, <1>1, <1>2, <3>1, <3>2 DEF UpToDate
    <3>5. QED
      BY <3>3, <3>4
  <2>4. QED
    BY <2>1, <2>2, <2>3
<1>8. QED
  BY <1>4, <1>5, <1>6, <1>7 DEF Client

LEMMA GapStep ==
  ASSUME HubTyped, HubIInv, GapInv, [Next]_vars
  PROVE  GapInv'
<1>1. Numbered' /\ Untouched'
  BY NumberedStep, UntouchedStep DEF GapInv
<1>2. ASSUME UNCHANGED <<hub, clients, send, got, writer>>,
             published' - Len(broadcast') = published - Len(broadcast), Broadcast \/ UNCHANGED vars
      PROVE  UpToDate' /\ NoGaps'
  <2>1. published + 1 - Len(broadcast) = published' + 1 - Len(broadcast')
    <3>1. broadcast \in Seq(1..MaxMessages) /\ published \in Nat
      BY Counted
    <3>2. Len(broadcast) \in Nat
      BY <3>1
    <3>3. CASE Broadcast
      <4>1. Len(broadcast') = Len(broadcast) + 1 /\ published' = published + 1
        BY <3>1, <3>3 DEF Broadcast
      <4>2. QED
        BY <3>1, <3>2, <4>1
    <3>4. QED
      BY <1>2, <3>3 DEF vars
  <2>2. \A c : Due(c)' = Due(c)
    BY <1>2, <2>1 DEF Due
  <2>3. QED
    BY <1>2, <2>2, SameLines DEF GapInv, Sends, HubTyped, TypeOK
<1>3. CASE Broadcast
  <2>1. broadcast \in Seq(1..MaxMessages) /\ published \in Nat
    BY Counted
  <2>2. Len(broadcast') = Len(broadcast) + 1 /\ published' = published + 1 /\ Len(broadcast) \in Nat
    BY <1>3, <2>1 DEF Broadcast
  <2>3. published' - Len(broadcast') = published - Len(broadcast)
    BY <2>1, <2>2
  <2>4. QED
    BY <1>1, <1>2, <1>3, <2>3 DEF Broadcast, GapInv
<1>4. CASE UNCHANGED vars
  BY <1>1, <1>2, <1>4 DEF vars, GapInv
<1>5. QED
  BY <1>1, <1>3, <1>4, UpToDateRun, UpToDateClient DEF Next, GapInv

\* A client that stays gets every broadcast from its first one on, in order
\* (Hub.Run's fan-out and eviction, RunWritePump).
THEOREM NoGapsHolds == Spec => []NoGaps
<1>1. Init => GapInv
  <2> SUFFICES ASSUME Init PROVE GapInv
    OBVIOUS
  <2>1. Numbered
    BY DEF Init, Numbered, HubIdle
  <2>2. Untouched /\ UpToDate
    BY DEF Init, Untouched, UpToDate, HubIdle
  <2>3. NoGaps
    <3>1. \A c \in Clients : send[c] = <<>>
      BY DEF Init
    <3>2. \A c \in Clients : DOMAIN InFlight(c) = {0}
      <4>1. 0..Len(<<>>) = {0}
        OBVIOUS
      <4>2. QED
        BY <3>1, <4>1 DEF InFlight
    <3>3. QED
      BY <3>2 DEF NoGaps, Gapless, Consecutive
  <2>4. QED
    BY <2>1, <2>2, <2>3 DEF GapInv
<1>2. HubTyped /\ HubIInv /\ GapInv /\ [Next]_vars => GapInv'
  BY GapStep
<1>3. GapInv => NoGaps
  BY DEF GapInv
<1>4. QED
  BY <1>1, <1>2, <1>3, Types, HubInvariance, PTL DEF Spec

=============================================================================
