---------------------------- MODULE ServicesProofs ----------------------------
(***************************************************************************)
(* The login limiter, DemiAuth, the profiler and the migrations.           *)
(*                                                                         *)
(* ServedApart holds for every number of addresses, limit and window.  It  *)
(* is not inductive: that a new entry is made far enough from the one      *)
(* before it follows from the entry of the map, or from its absence, which *)
(* tells how long ago the last window began.                               *)
(*                                                                         *)
(* AuthInv holds for any number of players, sessions and kicks, any        *)
(* configuration and every order of events.  The argument is about what is *)
(* lost: a player who has never left the login server other than to the    *)
(* hub has at most one live kick, the one the plugin would cancel, and     *)
(* waits at the login server while he has it.                              *)
(*                                                                         *)
(* SerialProfileFound and SchemaKeepsData hold for any number of requests, *)
(* reports, rows, servers and crashes; what each of them needs is said     *)
(* where its proof begins.                                                 *)
(***************************************************************************)
EXTENDS RateLimiter, DemiAuth, Profiler, Schema, FiniteSetTheorems, TLAPS

(* An entry is the last window and counts what was let through in it. *)
EntryIsLast(ip) ==
    Entry(ip) =>
        /\ attempts[ip].first <= now
        /\ served[ip][attempts[ip].first] > 0
        /\ served[ip][attempts[ip].first] =
               IF attempts[ip].count < Limit THEN attempts[ip].count ELSE Limit
        /\ \A f \in Times : served[ip][f] > 0 => f <= attempts[ip].first

(* Without an entry every window is over. *)
NoEntryIsOver(ip) ==
    ~Entry(ip) => \A f \in Times : served[ip][f] > 0 => f < now /\ now - f > Window

RateInv ==
    /\ RateTypeOK
    /\ ServedApart
    /\ \A ip \in Addresses : EntryIsLast(ip) /\ NoEntryIsOver(ip)

(* The program starts with an empty map. *)
LEMMA RateInitInv == RateInit => RateInv
  BY RateAssumption DEF RateInit, RateInv, RateTypeOK, ServedApart, EntryIsLast,
     NoEntryIsOver, Entry, Times

(* Letting a request through keeps the counters numbers. *)
LEMMA ServeType ==
    ASSUME served \in [Addresses -> [Times -> Nat]],
           NEW ip \in Addresses, NEW f \in Times, Serve(ip, f)
    PROVE  /\ served' \in [Addresses -> [Times -> Nat]]
           /\ served'[ip][f] = served[ip][f] + 1
           /\ \A g \in Times \ {f} : served'[ip][g] = served[ip][g]
           /\ \A j \in Addresses \ {ip} : served'[j] = served[j]
  <1>1. served[ip] \in [Times -> Nat]
    OBVIOUS
  <1>2. served' = [served EXCEPT ![ip] = [served[ip] EXCEPT ![f] = served[ip][f] + 1]]
    BY DEF Serve
  <1>3. [served[ip] EXCEPT ![f] = served[ip][f] + 1] \in [Times -> Nat]
    BY <1>1
  <1> QED
    BY <1>1, <1>2, <1>3

(* Opening a window: all the earlier ones began more than Window ago. *)
LEMMA FreshInv ==
    ASSUME RateInv, NEW ip \in Addresses, Fresh(ip)
    PROVE  RateInv'
  <1>1. now \in Times /\ now \in Nat /\ Times \subseteq Nat
    BY RateAssumption DEF RateInv, RateTypeOK, Times
  <1>2. \A f \in Times : served[ip][f] > 0 => f < now /\ now - f > Window
    <2>1. CASE ~Entry(ip)
      BY <2>1 DEF RateInv, NoEntryIsOver
    <2>2. CASE Entry(ip)
      <3>1. Expired(ip)
        BY <2>2 DEF Fresh
      <3>2. attempts[ip].first \in Times
        BY <2>2 DEF RateInv, RateTypeOK, Entry
      <3>3. \A f \in Times : served[ip][f] > 0 => f <= attempts[ip].first
        BY <2>2 DEF RateInv, EntryIsLast
      <3>4. now - attempts[ip].first > Window
        BY <3>1 DEF Expired
      <3>5. attempts[ip].first \in Nat /\ Window \in Nat
        BY <1>1, <3>2, RateAssumption
      <3>6. ASSUME NEW f \in Times, served[ip][f] > 0
            PROVE  f < now /\ now - f > Window
        <4>1. f <= attempts[ip].first /\ f \in Nat
          BY <1>1, <3>3, <3>6
        <4> QED
          BY <1>1, <3>4, <3>5, <4>1
      <3> QED
        BY <3>6
    <2> QED
      BY <2>1, <2>2
  <1>3. served[ip][now] = 0
    BY <1>1, <1>2 DEF RateInv, RateTypeOK
  <1>4. /\ now' = now
        /\ attempts'[ip] = [count |-> 1, first |-> now]
        /\ \A j \in Addresses \ {ip} : attempts'[j] = attempts[j] /\ served'[j] = served[j]
        /\ served'[ip][now] = 1
        /\ \A f \in Times \ {now} : served'[ip][f] = served[ip][f]
    BY <1>1, <1>3 DEF Fresh, Serve, RateInv, RateTypeOK
  <1>5. RateTypeOK'
    <2>1. now' \in Times
      BY <1>1, <1>4
    <2>2. [count |-> 1, first |-> now] \in [count : Nat \ {0}, first : Times]
      BY <1>1
    <2>3. attempts' \in [Addresses -> [count : Nat \ {0}, first : Times] \cup {NoAttempt}]
      BY <2>2 DEF Fresh, RateInv, RateTypeOK
    <2>4. served' \in [Addresses -> [Times -> Nat]]
      BY ServeType DEF Fresh, RateInv, RateTypeOK
    <2> QED
      BY <2>1, <2>3, <2>4 DEF RateTypeOK
  <1>6. ServedApart'
    <2> SUFFICES ASSUME NEW j \in Addresses, NEW f \in Times, served'[j][f] > 0,
                        NEW g \in Times
                 PROVE  served'[j][f] <= Limit
                        /\ (g > f /\ served'[j][g] > 0 => g - f > Window)
      BY DEF ServedApart, Times
    <2>1. CASE j # ip
      BY <1>4, <2>1 DEF RateInv, ServedApart
    <2>2. CASE j = ip /\ f = now
      <3>1. served'[j][f] <= Limit
        BY <1>4, <2>2, RateAssumption
      <3>2. ~(g > f /\ served'[j][g] > 0)
        BY <1>1, <1>2, <1>4, <2>2
      <3> QED
        BY <3>1, <3>2
    <2>3. CASE j = ip /\ f # now
      <3>1. served[j][f] > 0 /\ served'[j][f] = served[j][f]
        BY <1>4, <2>3
      <3>2. served'[j][f] <= Limit
        BY <3>1 DEF RateInv, ServedApart
      <3>3. CASE g = now
        BY <1>2, <2>3, <3>1, <3>2, <3>3
      <3>4. CASE g # now
        BY <1>4, <2>3, <3>1, <3>2, <3>4 DEF RateInv, ServedApart
      <3> QED
        BY <3>3, <3>4
    <2> QED
      BY <2>1, <2>2, <2>3
  <1>7. ASSUME NEW j \in Addresses
        PROVE  EntryIsLast(j)' /\ NoEntryIsOver(j)'
    <2>1. CASE j = ip
      BY <1>1, <1>2, <1>4, <2>1, RateAssumption
      DEF EntryIsLast, NoEntryIsOver, Entry, Times
    <2>2. CASE j # ip
      BY <1>4, <2>2 DEF RateInv, EntryIsLast, NoEntryIsOver, Entry, Times
    <2> QED
      BY <2>1, <2>2
  <1> QED
    BY <1>5, <1>6, <1>7 DEF RateInv

(* Within a window only its own count grows, and never beyond the limit. *)
LEMMA CountedInv ==
    ASSUME RateInv, NEW ip \in Addresses, Counted(ip)
    PROVE  RateInv'
  <1> DEFINE f == attempts[ip].first
  <1>1. Entry(ip) /\ f \in Times /\ attempts[ip].count \in Nat \ {0} /\ Times \subseteq Nat
    BY RateAssumption DEF Counted, Entry, RateInv, RateTypeOK, Times
  <1>2. /\ now' = now
        /\ attempts'[ip].first = f /\ attempts'[ip].count = attempts[ip].count + 1
        /\ attempts'[ip] # NoAttempt
        /\ \A j \in Addresses \ {ip} : attempts'[j] = attempts[j] /\ served'[j] = served[j]
        /\ \A g \in Times \ {f} : served'[ip][g] = served[ip][g]
        /\ served'[ip][f] = IF attempts[ip].count < Limit
                            THEN served[ip][f] + 1 ELSE served[ip][f]
    <2>1. attempts[ip] \in [count : Nat \ {0}, first : Times]
      BY <1>1 DEF RateInv, RateTypeOK, Entry
    <2>2. attempts'[ip] = [count |-> attempts[ip].count + 1, first |-> f]
      BY <2>1 DEF Counted, RateInv, RateTypeOK
    <2>3. attempts'[ip] \in [count : Nat, first : Nat]
      <3>1. attempts[ip].count + 1 \in Nat
        BY <1>1
      <3>2. f \in Nat
        BY <1>1, Zenon
      <3> QED
        BY <2>2, <3>1, <3>2
    <2>4. attempts'[ip] # NoAttempt
      BY <2>3, RateAssumption
    <2>5. \A j \in Addresses \ {ip} : attempts'[j] = attempts[j]
      BY DEF Counted, RateInv, RateTypeOK
    <2>6. CASE attempts[ip].count < Limit
      BY <1>1, <2>2, <2>4, <2>5, <2>6, ServeType DEF Counted, RateInv, RateTypeOK
    <2>7. CASE ~(attempts[ip].count < Limit)
      BY <2>2, <2>4, <2>5, <2>7 DEF Counted
    <2> QED
      BY <2>6, <2>7
  <1>3. RateTypeOK'
    <2>1. now' \in Times
      BY <1>2 DEF RateInv, RateTypeOK
    <2>2. attempts[ip] \in [count : Nat \ {0}, first : Times]
      BY <1>1 DEF RateInv, RateTypeOK, Entry
    <2>3. attempts' = [attempts EXCEPT ![ip] = [count |-> attempts[ip].count + 1, first |-> f]]
      <3>1. [attempts[ip] EXCEPT !.count = attempts[ip].count + 1]
                = [count |-> attempts[ip].count + 1, first |-> f]
        BY <2>2
      <3> QED
        BY <3>1 DEF Counted
    <2>4. [count |-> attempts[ip].count + 1, first |-> f] \in [count : Nat \ {0}, first : Times]
      <3>1. attempts[ip].count + 1 \in Nat \ {0} /\ f \in Times
        BY <1>1
      <3> QED
        BY <3>1
    <2>5. attempts' \in [Addresses -> [count : Nat \ {0}, first : Times] \cup {NoAttempt}]
      BY <2>3, <2>4 DEF RateInv, RateTypeOK
    <2>6. served' \in [Addresses -> [Times -> Nat]]
      BY <1>1, ServeType DEF Counted, RateInv, RateTypeOK
    <2> QED
      BY <2>1, <2>5, <2>6 DEF RateTypeOK
  <1>4. /\ served[ip][f] > 0 /\ served[ip][f] \in Nat
        /\ served[ip][f] = IF attempts[ip].count < Limit THEN attempts[ip].count ELSE Limit
        /\ \A g \in Times : served[ip][g] > 0 => g <= f
    BY <1>1 DEF RateInv, EntryIsLast, RateTypeOK
  <1>5. served'[ip][f] > 0 /\ served'[ip][f] <= Limit
    BY <1>1, <1>2, <1>4, RateAssumption
  <1>6. ServedApart'
    BY <1>1, <1>2, <1>4, <1>5 DEF RateInv, ServedApart, Times
  <1>7. ASSUME NEW j \in Addresses
        PROVE  EntryIsLast(j)' /\ NoEntryIsOver(j)'
    <2>1. CASE j = ip
      BY <1>1, <1>2, <1>4, <1>5, <2>1, RateAssumption
      DEF RateInv, EntryIsLast, NoEntryIsOver, Entry, Times
    <2>2. CASE j # ip
      BY <1>2, <2>2 DEF RateInv, EntryIsLast, NoEntryIsOver, Entry, Times
    <2> QED
      BY <2>1, <2>2
  <1> QED
    BY <1>3, <1>6, <1>7 DEF RateInv

(* The clean-up forgets only windows that are over. *)
LEMMA CleanupInv ==
    ASSUME RateInv, Cleanup
    PROVE  RateInv'
  <1>1. RateTypeOK'
    BY DEF Cleanup, RateInv, RateTypeOK
  <1>2. ServedApart'
    BY DEF Cleanup, RateInv, ServedApart, Times
  <1>3. ASSUME NEW j \in Addresses
        PROVE  EntryIsLast(j)' /\ NoEntryIsOver(j)'
    <2>1. CASE Entry(j) /\ Expired(j)
      <3>1. attempts'[j] = NoAttempt /\ served' = served /\ now' = now
        BY <2>1 DEF Cleanup
      <3>2. attempts[j].first \in Times /\ now \in Times /\ Times \subseteq Nat
        BY <2>1, RateAssumption DEF RateInv, RateTypeOK, Entry, Times
      <3>3. \A f \in Times : served[j][f] > 0 => f <= attempts[j].first
        BY <2>1 DEF RateInv, EntryIsLast
      <3>4. \A f \in Times : served[j][f] > 0 => f < now /\ now - f > Window
        <4>1. now - attempts[j].first > Window
          BY <2>1 DEF Expired
        <4>2. ASSUME NEW f \in Times, served[j][f] > 0
              PROVE  f < now /\ now - f > Window
          <5>1. f <= attempts[j].first
            BY <3>3, <4>2
          <5>2. f \in Nat /\ now \in Nat /\ attempts[j].first \in Nat
            BY <3>2
          <5> QED
            BY <4>1, <5>1, <5>2, RateAssumption
        <4> QED
          BY <4>2
      <3> QED
        BY <3>1, <3>4 DEF EntryIsLast, NoEntryIsOver, Entry, Times
    <2>2. CASE ~(Entry(j) /\ Expired(j))
      BY <2>2 DEF Cleanup, RateInv, EntryIsLast, NoEntryIsOver, Entry, Times
    <2> QED
      BY <2>1, <2>2
  <1> QED
    BY <1>1, <1>2, <1>3 DEF RateInv

(* Time only makes windows longer ago. *)
LEMMA TickInv ==
    ASSUME RateInv, Tick
    PROVE  RateInv'
  BY RateAssumption DEF Tick, RateInv, RateTypeOK, ServedApart, EntryIsLast,
     NoEntryIsOver, Entry, Times

(* No period as long as a window lets through more than twice the limit:    *)
(* the requests served fall into windows more than that length apart.       *)
THEOREM ServedApartHolds == RateSpec => []ServedApart
  <1>1. RateInv /\ [RateNext]_rateVars => RateInv'
    <2> SUFFICES ASSUME RateInv, [RateNext]_rateVars
                 PROVE  RateInv'
      OBVIOUS
    <2>1. ASSUME NEW ip \in Addresses, Fresh(ip)
          PROVE  RateInv'
      BY <2>1, FreshInv
    <2>2. ASSUME NEW ip \in Addresses, Counted(ip)
          PROVE  RateInv'
      BY <2>2, CountedInv
    <2>3. CASE Cleanup
      BY <2>3, CleanupInv
    <2>4. CASE Tick
      BY <2>4, TickInv
    <2>5. CASE UNCHANGED rateVars
      BY <2>5 DEF rateVars, RateInv, RateTypeOK, ServedApart, EntryIsLast,
         NoEntryIsOver, Entry, Times
    <2> QED
      BY <2>1, <2>2, <2>3, <2>4, <2>5 DEF RateNext
  <1>2. RateInv => ServedApart
    BY DEF RateInv
  <1> QED
    BY <1>1, <1>2, RateInitInv, PTL DEF RateSpec

-------------------------------------------------------------------------------
(* DemiAuth *)

KickTasks == [player : AuthPlayers, session : 0 .. MaxSessions]

KicksOK == kicks \in Seq(KickTasks) /\ Len(kicks) <= MaxKicks

(* scheduledKicks names a task of that player. *)
OwnEntry ==
    \A p \in AuthPlayers :
        scheduledKicks[p] # AuthNone => kicks[scheduledKicks[p]].player = p

(* The one kick of a player who has not strayed. *)
OneKick ==
    \A p \in AuthPlayers \ strayed : \A k \in live :
        kicks[k].player = p =>
            k = scheduledKicks[p] /\ kicks[k].session = session[p] /\ at[p] = "login"

KicksInv == KicksOK /\ OwnEntry /\ OneKick

AuthIInv == AuthInv /\ KicksInv

LEMMA AuthInitInv == AuthInit => AuthIInv
  <1> SUFFICES ASSUME AuthInit PROVE AuthIInv
    OBVIOUS
  <1>1. kicks = <<>> /\ live = {} /\ DOMAIN kicks = {}
    BY DEF AuthInit
  <1>2. AuthTypeOK
    BY <1>1, AuthAssumption DEF AuthInit, AuthTypeOK
  <1>3. LoginIsTimed /\ KicksHitWaiting
    BY DEF AuthInit, LoginIsTimed, KicksHitWaiting
  <1>4. KicksOK
    BY <1>1, AuthAssumption DEF KicksOK
  <1>5. OwnEntry /\ OneKick
    BY DEF AuthInit, OwnEntry, OneKick
  <1> QED
    BY <1>2, <1>3, <1>4, <1>5 DEF AuthIInv, AuthInv, KicksInv

(* What a kick is and how many there are. *)
LEMMA KickFacts ==
    ASSUME AuthIInv
    PROVE  /\ DOMAIN kicks = 1 .. Len(kicks) /\ Len(kicks) \in Nat
           /\ live \subseteq 1 .. Len(kicks) /\ AuthNone \notin live
           /\ \A k \in live : kicks[k] \in KickTasks
           /\ \A p \in AuthPlayers : scheduledKicks[p] \in 1 .. Len(kicks) \cup {AuthNone}
           /\ session \in [AuthPlayers -> 0 .. MaxSessions]
           /\ scheduledKicks \in [AuthPlayers -> 1 .. Len(kicks) \cup {AuthNone}]
           /\ at \in [AuthPlayers -> Servers \cup {"off", "proxy"}]
           /\ heading \in [AuthPlayers -> Servers \cup {AuthNone}]
           /\ strayed \subseteq AuthPlayers
  <1>1. DOMAIN kicks = 1 .. Len(kicks) /\ Len(kicks) \in Nat /\ Len(kicks) <= MaxKicks
    BY DEF AuthIInv, KicksInv, KicksOK
  <1>2. \A k \in 1 .. Len(kicks) : kicks[k] \in KickTasks
    BY DEF AuthIInv, KicksInv, KicksOK
  <1>3. live \subseteq 1 .. Len(kicks)
    BY <1>1 DEF AuthIInv, AuthInv, AuthTypeOK
  <1>4. AuthNone \notin live
    <2>1. 1 .. Len(kicks) \subseteq 1 .. MaxKicks
      BY <1>1, AuthAssumption
    <2> QED
      BY <1>3, <2>1, AuthAssumption, Zenon
  <1>5. /\ session \in [AuthPlayers -> 0 .. MaxSessions]
        /\ scheduledKicks \in [AuthPlayers -> 1 .. Len(kicks) \cup {AuthNone}]
        /\ at \in [AuthPlayers -> Servers \cup {"off", "proxy"}]
        /\ heading \in [AuthPlayers -> Servers \cup {AuthNone}]
        /\ strayed \subseteq AuthPlayers
    BY <1>1 DEF AuthIInv, AuthInv, AuthTypeOK
  <1> QED
    BY <1>1, <1>2, <1>3, <1>4, <1>5

(* A live kick of a player who has not strayed is of his present session.   *)
LEMMA LiveIsHers ==
    ASSUME AuthIInv, NEW p \in AuthPlayers, p \notin strayed,
           NEW k \in live, kicks[k].player = p
    PROVE  k \in Hers(p) /\ k = scheduledKicks[p] /\ at[p] = "login"
  <1>1. kicks[k].session = session[p] /\ k = scheduledKicks[p] /\ at[p] = "login"
    BY DEF AuthIInv, KicksInv, OneKick
  <1>2. kicks[k] \in KickTasks
    BY KickFacts
  <1>3. kicks[k] = [player |-> p, session |-> session[p]]
    BY <1>1, <1>2 DEF KickTasks
  <1> QED
    BY <1>1, <1>3 DEF Hers

(* The steps that leave the kicks alone, and who is at the login server.    *)
LEMMA Apart ==
    ASSUME AuthIInv, UNCHANGED <<kicks, live, scheduledKicks, strayed, misfired>>,
           node \subseteq node',
           \A p \in AuthPlayers :
             \/ at'[p] = at[p] /\ session'[p] = session[p]
             \/ at[p] # "login" /\ at'[p] # "login"
    PROVE  LoginIsTimed' /\ KicksHitWaiting' /\ KicksInv'
  <1>1. KicksHitWaiting' /\ KicksOK' /\ OwnEntry'
    BY DEF AuthIInv, AuthInv, KicksInv, KicksHitWaiting, KicksOK, OwnEntry
  <1>2. LoginIsTimed'
    BY DEF AuthIInv, AuthInv, LoginIsTimed, Hers
  <1>3. OneKick'
    BY DEF AuthIInv, KicksInv, OneKick
  <1> QED
    BY <1>1, <1>2, <1>3 DEF KicksInv

(* A session ends, with the kick that ends it if one does. *)
LEMMA EndsKicks ==
    ASSUME AuthIInv, NEW p \in AuthPlayers, NEW running, Ends(p, running),
           \A k \in running : k \in live /\ kicks[k].player = p,
           live' = live \ running, misfired' \subseteq strayed',
           \/ UNCHANGED scheduledKicks
           \/ scheduledKicks' = [scheduledKicks EXCEPT ![p] = AuthNone],
           UNCHANGED <<kicks, session, node>>
    PROVE  LoginIsTimed' /\ KicksHitWaiting' /\ KicksInv'
  <1>1. /\ at' = [at EXCEPT ![p] = "off"]
        /\ strayed' = IF Hers(p) \ running # {} THEN strayed \cup {p} ELSE strayed
    BY DEF Ends
  <1>2. at \in [AuthPlayers -> Servers \cup {"off", "proxy"}]
        /\ scheduledKicks \in [AuthPlayers -> 1 .. Len(kicks) \cup {AuthNone}]
    BY KickFacts
  <1>3. KicksHitWaiting' /\ KicksOK'
    BY DEF AuthIInv, KicksInv, KicksHitWaiting, KicksOK
  <1>4. OwnEntry'
    BY <1>2 DEF AuthIInv, KicksInv, OwnEntry
  <1>5. LoginIsTimed'
    <2>1. SUFFICES ASSUME NEW q \in AuthPlayers, at'[q] = "login", q \notin node'
                   PROVE  Hers(q)' # {}
      BY DEF LoginIsTimed
    <2>2. q # p /\ at[q] = "login"
      BY <1>1, <1>2, <2>1
    <2>3. PICK k \in live : kicks[k] = [player |-> q, session |-> session[q]]
      BY <2>1, <2>2 DEF AuthIInv, AuthInv, LoginIsTimed, Hers
    <2>4. kicks[k].player = q
      BY <2>3
    <2>5. k \notin running
      BY <2>2, <2>4
    <2> QED
      BY <2>3, <2>5 DEF Hers
  <1>6. OneKick'
    <2>1. SUFFICES ASSUME NEW q \in AuthPlayers \ strayed', NEW k \in live', kicks[k].player = q
                   PROVE  k = scheduledKicks'[q] /\ kicks[k].session = session[q] /\ at'[q] = "login"
      BY DEF OneKick
    <2>2. q \notin strayed /\ k \in live /\ k \notin running
      BY <1>1, <2>1
    <2>3. k \in Hers(q)
      BY <2>1, <2>2, LiveIsHers
    <2>4. q # p
      BY <1>1, <2>1, <2>2, <2>3
    <2>5. k = scheduledKicks[q] /\ kicks[k].session = session[q] /\ at[q] = "login"
      BY <2>1, <2>2 DEF AuthIInv, KicksInv, OneKick
    <2> QED
      BY <1>1, <1>2, <2>4, <2>5
  <1> QED
    BY <1>3, <1>4, <1>5, <1>6 DEF KicksInv

(* Arriving at a server: the kick of a player who goes on to the hub is     *)
(* cancelled, one who comes to wait gets one.                               *)
LEMMA ConnectedKicks ==
    ASSUME AuthIInv, NEW p \in AuthPlayers, ServerConnected(p)
    PROVE  AuthIInv'
  <1> DEFINE to == heading[p]  new == Len(kicks) + 1
  <1>1. /\ to # AuthNone /\ to \in Servers
        /\ at' = [at EXCEPT ![p] = to] /\ heading' = [heading EXCEPT ![p] = AuthNone]
        /\ strayed' = IF at[p] = "login" /\ to # "hub" /\ Hers(p) # {}
                      THEN strayed \cup {p} ELSE strayed
        /\ UNCHANGED <<session, node, granting, bypassList, playerAttempts, misfired>>
    BY KickFacts DEF ServerConnected
  <1>2. AuthTypeOK /\ LoginIsTimed /\ KicksHitWaiting /\ KicksOK /\ OwnEntry /\ OneKick
    BY DEF AuthIInv, AuthInv, KicksInv
  <1>3. /\ at' \in [AuthPlayers -> Servers \cup {"off", "proxy"}]
        /\ heading' \in [AuthPlayers -> Servers \cup {AuthNone}]
        /\ strayed' \subseteq AuthPlayers
        /\ \A q \in AuthPlayers \ {p} : at'[q] = at[q]
        /\ at'[p] = to
    BY <1>1, KickFacts
  <1>4. KicksHitWaiting'
    BY <1>1, <1>2 DEF KicksHitWaiting
  <1>5. CASE to = "login" /\ p \notin node /\ Len(kicks) < MaxKicks /\ ScheduleKick(p)
    <2>1. [player |-> p, session |-> session[p]] \in KickTasks
      BY KickFacts DEF KickTasks
    <2>2. /\ kicks' \in Seq(KickTasks) /\ Len(kicks') = new
          /\ kicks'[new] = [player |-> p, session |-> session[p]]
          /\ \A k \in 1 .. Len(kicks) : kicks'[k] = kicks[k]
      BY <1>2, <1>5, <2>1 DEF ScheduleKick, KicksOK
    <2>3. /\ live' = live \cup {new}
          /\ scheduledKicks' = [scheduledKicks EXCEPT ![p] = new]
      BY <1>5, <2>2 DEF ScheduleKick
    <2>4. KicksOK'
      BY <1>2, <1>5, <2>2, AuthAssumption DEF KicksOK
    <2>5. /\ DOMAIN kicks' = 1 .. new /\ 1 .. Len(kicks) \subseteq 1 .. new /\ new \in 1 .. new
          /\ new \notin 1 .. Len(kicks) /\ new # AuthNone
      <3>1. Len(kicks) \in Nat /\ new \in 1 .. MaxKicks
        BY <1>5, KickFacts, AuthAssumption
      <3>2. DOMAIN kicks' = 1 .. new
        BY <2>2
      <3>3. 1 .. Len(kicks) \subseteq 1 .. new /\ new \in 1 .. new /\ new \notin 1 .. Len(kicks)
        BY <3>1
      <3>4. new # AuthNone
        BY <3>1, AuthAssumption, Zenon
      <3> QED
        BY <3>2, <3>3, <3>4
    <2>6. AuthTypeOK'
      <3>1. live' \subseteq DOMAIN kicks'
        BY <2>3, <2>5, KickFacts
      <3>2. scheduledKicks' \in [AuthPlayers -> DOMAIN kicks' \cup {AuthNone}]
        BY <2>3, <2>5, KickFacts
      <3> QED
        BY <1>1, <1>2, <1>3, <3>1, <3>2 DEF AuthTypeOK
    <2>7. OwnEntry'
      <3>1. scheduledKicks'[p] = new /\ kicks'[new].player = p
        BY <2>2, <2>3, KickFacts
      <3>2. ASSUME NEW q \in AuthPlayers \ {p}, scheduledKicks'[q] # AuthNone
            PROVE  kicks'[scheduledKicks'[q]].player = q
        <4>1. scheduledKicks'[q] = scheduledKicks[q] /\ scheduledKicks[q] \in 1 .. Len(kicks)
          BY <2>3, <3>2, KickFacts
        <4> QED
          BY <1>2, <2>2, <3>2, <4>1 DEF OwnEntry
      <3> QED
        BY <3>1, <3>2 DEF OwnEntry
    <2>8. LoginIsTimed'
      <3>1. new \in Hers(p)'
        BY <1>1, <2>2, <2>3 DEF Hers
      <3>2. ASSUME NEW q \in AuthPlayers \ {p}, at'[q] = "login", q \notin node'
            PROVE  Hers(q)' # {}
        <4>1. PICK k \in live : kicks[k] = [player |-> q, session |-> session[q]]
          BY <1>1, <1>2, <1>3, <3>2 DEF LoginIsTimed, Hers
        <4>2. k \in live' /\ kicks'[k] = kicks[k]
          BY <2>2, <2>3, KickFacts
        <4> QED
          BY <1>1, <4>1, <4>2 DEF Hers
      <3> QED
        BY <3>1, <3>2 DEF LoginIsTimed
    <2>9. OneKick'
      <3>1. SUFFICES ASSUME NEW q \in AuthPlayers \ strayed', NEW k \in live', kicks'[k].player = q
                     PROVE  k = scheduledKicks'[q] /\ kicks'[k].session = session'[q] /\ at'[q] = "login"
        BY DEF OneKick
      <3>2. CASE k = new
        BY <1>1, <1>3, <1>5, <2>2, <2>3, <3>1, <3>2, KickFacts
      <3>3. CASE k # new
        <4>1. k \in live /\ kicks[k].player = q /\ q \notin strayed /\ kicks'[k] = kicks[k]
          BY <1>1, <2>2, <2>3, <3>1, <3>3, KickFacts
        <4>2. k \in Hers(q) /\ k = scheduledKicks[q] /\ at[q] = "login"
          BY <4>1, LiveIsHers
        <4>3. q # p
          BY <1>1, <1>5, <3>1, <4>2
        <4> QED
          BY <1>1, <1>2, <1>3, <2>3, <4>1, <4>2, <4>3, KickFacts DEF OneKick
      <3> QED
        BY <3>2, <3>3
    <2> QED
      BY <1>4, <2>4, <2>6, <2>7, <2>8, <2>9 DEF AuthIInv, AuthInv, KicksInv
  <1>6. CASE to = "hub" /\ at[p] = "login" /\ CancelKick(p)
    <2>1. /\ live' = live \ {scheduledKicks[p]} /\ kicks' = kicks
          /\ scheduledKicks' = [scheduledKicks EXCEPT ![p] = AuthNone]
          /\ strayed' = strayed
      BY <1>1, <1>6 DEF CancelKick
    <2>2. AuthTypeOK'
      BY <1>1, <1>2, <1>3, <2>1 DEF AuthTypeOK
    <2>3. KicksOK' /\ OwnEntry'
      BY <1>2, <2>1, KickFacts DEF KicksOK, OwnEntry
    <2>4. LoginIsTimed'
      <3>1. SUFFICES ASSUME NEW q \in AuthPlayers, at'[q] = "login", q \notin node'
                     PROVE  Hers(q)' # {}
        BY DEF LoginIsTimed
      <3>2. q # p
        BY <1>3, <1>6, <3>1
      <3>3. PICK k \in live : kicks[k] = [player |-> q, session |-> session[q]]
        BY <1>1, <1>2, <1>3, <3>1, <3>2 DEF LoginIsTimed, Hers
      <3>4. k # scheduledKicks[p]
        BY <1>2, <3>2, <3>3, KickFacts DEF OwnEntry
      <3> QED
        BY <1>1, <2>1, <3>3, <3>4 DEF Hers
    <2>5. OneKick'
      <3>1. SUFFICES ASSUME NEW q \in AuthPlayers \ strayed, NEW k \in live', kicks[k].player = q
                     PROVE  k = scheduledKicks'[q] /\ kicks[k].session = session[q] /\ at'[q] = "login"
        BY <1>1, <2>1 DEF OneKick
      <3>2. k = scheduledKicks[q] /\ kicks[k].session = session[q] /\ at[q] = "login"
        BY <1>2, <2>1, <3>1 DEF OneKick
      <3>3. q # p
        BY <2>1, <3>1, <3>2
      <3> QED
        BY <1>3, <2>1, <3>2, <3>3, KickFacts
    <2> QED
      BY <1>4, <2>2, <2>3, <2>4, <2>5 DEF AuthIInv, AuthInv, KicksInv
  <1>7. CASE /\ ~(to = "login" /\ p \notin node) /\ ~(to = "hub" /\ at[p] = "login")
             /\ UNCHANGED <<kicks, live, scheduledKicks>>
    <2>1. AuthTypeOK'
      BY <1>1, <1>2, <1>3, <1>7 DEF AuthTypeOK
    <2>2. KicksOK' /\ OwnEntry'
      BY <1>2, <1>7 DEF KicksOK, OwnEntry
    <2>3. LoginIsTimed'
      BY <1>1, <1>2, <1>3, <1>7 DEF LoginIsTimed, Hers
    <2>4. OneKick'
      <3>1. SUFFICES ASSUME NEW q \in AuthPlayers \ strayed', NEW k \in live, kicks[k].player = q
                     PROVE  k = scheduledKicks[q] /\ kicks[k].session = session[q] /\ at'[q] = "login"
        BY <1>1, <1>7 DEF OneKick
      <3>2. q \notin strayed
        BY <1>1, <3>1
      <3>3. k \in Hers(q) /\ k = scheduledKicks[q] /\ at[q] = "login"
        BY <3>1, <3>2, LiveIsHers
      <3>4. q # p
        BY <1>1, <1>7, <3>1, <3>3
      <3> QED
        BY <1>2, <1>3, <3>1, <3>2, <3>3, <3>4 DEF OneKick
    <2> QED
      BY <1>4, <2>1, <2>2, <2>3, <2>4 DEF AuthIInv, AuthInv, KicksInv
  <1> QED
    BY <1>5, <1>6, <1>7 DEF ServerConnected

LEMMA KickInv ==
    ASSUME AuthIInv, NEW k \in live, Kick(k)
    PROVE  AuthIInv'
  <1> DEFINE p == kicks[k].player
             hits == kicks[k].session = session[p] /\ at[p] # "off"
  <1>1. /\ live' = live \ {k}
        /\ scheduledKicks' = [scheduledKicks EXCEPT ![p] = AuthNone]
        /\ IF hits THEN Ends(p, {k}) ELSE UNCHANGED <<at, heading, strayed>>
        /\ misfired' = IF hits /\ at[p] # "login" THEN misfired \cup {p} ELSE misfired
        /\ UNCHANGED <<session, node, granting, bypassList, playerAttempts, kicks>>
    BY DEF Kick
  <1>2. p \in AuthPlayers
    BY KickFacts DEF KickTasks
  <1>3. AuthTypeOK /\ LoginIsTimed /\ KicksHitWaiting /\ KicksOK /\ OwnEntry /\ OneKick
    BY DEF AuthIInv, AuthInv, KicksInv
  <1>4. p \notin strayed => hits /\ at[p] = "login"
    <2>1. p \notin strayed => kicks[k].session = session[p] /\ at[p] = "login"
      BY <1>2, <1>3 DEF OneKick
    <2> QED
      BY <2>1
  <1>5. misfired' \subseteq strayed'
    BY <1>1, <1>3, <1>4 DEF KicksHitWaiting, Ends
  <1>6. misfired' \subseteq AuthPlayers /\ live' \subseteq DOMAIN kicks'
        /\ scheduledKicks' \in [AuthPlayers -> DOMAIN kicks' \cup {AuthNone}]
    BY <1>1, <1>2, <1>3 DEF AuthTypeOK
  <1>7. CASE hits
    <2>1. Ends(p, {k})
      BY <1>1, <1>7
    <2>2. LoginIsTimed' /\ KicksHitWaiting' /\ KicksInv'
      <3>1. PICK x \in AuthPlayers : x = kicks[k].player
        BY <1>2
      <3> DEFINE running == {k}
      <3>2. /\ Ends(x, running) /\ \A j \in running : j \in live /\ kicks[j].player = x
            /\ scheduledKicks' = [scheduledKicks EXCEPT ![x] = AuthNone]
            /\ live' = live \ running
        BY <1>1, <2>1, <3>1
      <3>3. UNCHANGED <<kicks, session, node>>
        BY <1>1
      <3> HIDE DEF running
      <3> QED
        BY <1>5, <3>2, <3>3, EndsKicks
    <2>3. AuthTypeOK'
      BY <1>1, <1>2, <1>3, <1>6, <2>1, KickFacts DEF AuthTypeOK, Ends
    <2> QED
      BY <2>2, <2>3 DEF AuthIInv, AuthInv
  <1>8. CASE ~hits
    <2>1. UNCHANGED <<at, heading, strayed>> /\ p \in strayed
      BY <1>1, <1>4, <1>8
    <2>2. AuthTypeOK'
      BY <1>1, <1>3, <1>6, <2>1 DEF AuthTypeOK
    <2>3. KicksOK' /\ OwnEntry'
      BY <1>1, <1>2, <1>3, KickFacts DEF KicksOK, OwnEntry
    <2>4. LoginIsTimed'
      <3>1. ASSUME NEW q \in AuthPlayers, at[q] = "login", q \notin node
            PROVE  \E j \in live' : kicks[j] = [player |-> q, session |-> session[q]]
        <4>1. PICK j \in live : kicks[j] = [player |-> q, session |-> session[q]]
          BY <1>3, <3>1 DEF LoginIsTimed, Hers
        <4>2. j # k
          BY <1>8, <3>1, <4>1
        <4> QED
          BY <1>1, <4>1, <4>2
      <3> QED
        BY <1>1, <2>1, <3>1 DEF LoginIsTimed, Hers
    <2>5. OneKick'
      <3>1. \A q \in AuthPlayers \ {p} : scheduledKicks'[q] = scheduledKicks[q]
        BY <1>1, KickFacts
      <3> QED
        BY <1>1, <1>3, <2>1, <3>1 DEF OneKick
    <2>6. KicksHitWaiting'
      BY <1>5 DEF KicksHitWaiting
    <2> QED
      BY <2>2, <2>3, <2>4, <2>5, <2>6 DEF AuthIInv, AuthInv, KicksInv
  <1> QED
    BY <1>7, <1>8

(* The other events of a player. *)
LEMMA PlayerInv ==
    ASSUME AuthIInv, NEW p \in AuthPlayers,
           \/ \E login \in {"up", "down", "unknown"} : Join(p, login)
           \/ \E s \in Servers : Connect(p, s)
           \/ Refused(p) \/ LoginLost(p) \/ Quit(p)
           \/ RightPassword(p) \/ WrongPassword(p) \/ Granted(p)
    PROVE  AuthIInv'
  <1>0. AuthTypeOK
    BY DEF AuthIInv, AuthInv
  <1>1. CASE \E login \in {"up", "down", "unknown"} : Join(p, login)
    <2>1. /\ at[p] = "off" /\ session[p] < MaxSessions
          /\ session' = [session EXCEPT ![p] = @ + 1]
          /\ \E to \in Servers \cup {AuthNone} :
                /\ at' = [at EXCEPT ![p] = IF to = AuthNone THEN "off" ELSE "proxy"]
                /\ heading' = [heading EXCEPT ![p] = to]
          /\ UNCHANGED <<node, granting, bypassList, playerAttempts, kicks, live,
                         scheduledKicks, strayed, misfired>>
      BY <1>1 DEF Join, Admitted, Servers
    <2>2. session' \in [AuthPlayers -> 0 .. MaxSessions]
      BY <2>1, KickFacts, AuthAssumption
    <2>3. AuthTypeOK'
      BY <1>0, <2>1, <2>2 DEF AuthTypeOK
    <2>4. \A q \in AuthPlayers : \/ at'[q] = at[q] /\ session'[q] = session[q]
                                 \/ at[q] # "login" /\ at'[q] # "login"
      BY <2>1, KickFacts
    <2> QED
      BY <2>1, <2>3, <2>4, Apart DEF AuthIInv, AuthInv
  <1>2. CASE \E s \in Servers : Connect(p, s)
    <2>1. /\ \E to \in Servers \cup {AuthNone} : heading' = [heading EXCEPT ![p] = to]
          /\ UNCHANGED <<at, session, node, granting, bypassList, playerAttempts, kicks, live,
                         scheduledKicks, strayed, misfired>>
      BY <1>2 DEF Connect, Admitted, Servers
    <2>2. AuthTypeOK'
      BY <1>0, <2>1 DEF AuthTypeOK
    <2> QED
      BY <2>1, <2>2, Apart DEF AuthIInv, AuthInv
  <1>3. CASE Refused(p)
    <2>1. /\ heading' = [heading EXCEPT ![p] = AuthNone]
          /\ at' = [at EXCEPT ![p] = IF @ = "proxy" THEN "off" ELSE @]
          /\ UNCHANGED <<session, node, granting, bypassList, playerAttempts, kicks, live,
                         scheduledKicks, strayed, misfired>>
      BY <1>3 DEF Refused
    <2>2. AuthTypeOK'
      BY <1>0, <2>1 DEF AuthTypeOK
    <2>3. \A q \in AuthPlayers : \/ at'[q] = at[q] /\ session'[q] = session[q]
                                 \/ at[q] # "login" /\ at'[q] # "login"
      BY <2>1, KickFacts
    <2> QED
      BY <2>1, <2>2, <2>3, Apart DEF AuthIInv, AuthInv
  <1>4. ASSUME Ends(p, {}), playerAttempts' \in [AuthPlayers -> 0 .. 2],
               UNCHANGED <<session, node, granting, bypassList, kicks, live,
                           scheduledKicks, misfired>>
        PROVE  AuthIInv'
    <2>1. AuthTypeOK'
      BY <1>0, <1>4, KickFacts DEF AuthTypeOK, Ends
    <2>2. misfired' \subseteq strayed'
      BY <1>4 DEF Ends, AuthIInv, AuthInv, KicksHitWaiting
    <2>3. LoginIsTimed' /\ KicksHitWaiting' /\ KicksInv'
      BY <1>4, <2>2, EndsKicks
    <2> QED
      BY <2>1, <2>3 DEF AuthIInv, AuthInv
  <1>5. CASE LoginLost(p) \/ Quit(p)
    BY <1>0, <1>4, <1>5 DEF LoginLost, Quit, AuthTypeOK
  <1>6. CASE WrongPassword(p)
    <2>1. UNCHANGED <<session, node, granting, bypassList, kicks, live, scheduledKicks, misfired>>
      BY <1>6 DEF WrongPassword
    <2>2. CASE playerAttempts[p] + 1 >= 3
      BY <1>0, <1>4, <1>6, <2>1, <2>2 DEF WrongPassword, AuthTypeOK
    <2>3. CASE ~(playerAttempts[p] + 1 >= 3)
      <3>1. UNCHANGED <<at, heading, strayed>>
            /\ playerAttempts' = [playerAttempts EXCEPT ![p] = @ + 1]
        BY <1>6, <2>3 DEF WrongPassword
      <3>2. AuthTypeOK'
        BY <1>0, <2>1, <2>3, <3>1 DEF AuthTypeOK
      <3> QED
        BY <2>1, <3>1, <3>2, Apart DEF AuthIInv, AuthInv
    <2> QED
      BY <2>2, <2>3
  <1>7. CASE RightPassword(p) \/ Granted(p)
    <2>1. /\ UNCHANGED <<at, heading, session, bypassList, kicks, live, scheduledKicks,
                         strayed, misfired>>
          /\ node \subseteq node' /\ node' \cup granting' \subseteq AuthPlayers
          /\ playerAttempts' \in [AuthPlayers -> 0 .. 2]
      BY <1>0, <1>7 DEF RightPassword, Granted, AuthTypeOK
    <2>2. AuthTypeOK'
      BY <1>0, <2>1 DEF AuthTypeOK
    <2> QED
      BY <2>1, <2>2, Apart DEF AuthIInv, AuthInv
  <1> QED
    BY <1>1, <1>2, <1>3, <1>5, <1>6, <1>7

(* The inductive invariant: who has not strayed has one kick, his own. *)
THEOREM AuthInvariance == AuthSpec => []AuthIInv
  <1>1. ASSUME AuthIInv, [AuthNext]_authVars
        PROVE  AuthIInv'
    <2>0. AuthTypeOK
      BY <1>1 DEF AuthIInv, AuthInv
    <2>1. CASE \E p \in AuthPlayers :
                \/ \E login \in {"up", "down", "unknown"} : Join(p, login)
                \/ \E s \in Servers : Connect(p, s)
                \/ ServerConnected(p) \/ Refused(p) \/ LoginLost(p) \/ Quit(p)
                \/ RightPassword(p) \/ WrongPassword(p) \/ Granted(p)
      BY <1>1, <2>1, PlayerInv, ConnectedKicks
    <2>2. CASE \E k \in live : Kick(k)
      BY <1>1, <2>2, KickInv
    <2>3. CASE \E t \in transfers : TransferToHub(t)
      <3>1. /\ \/ \E p : heading' = [heading EXCEPT ![p] = "hub"]
               \/ UNCHANGED heading
            /\ UNCHANGED <<at, session, node, granting, bypassList, playerAttempts, kicks, live,
                           scheduledKicks, strayed, misfired>>
        BY <2>3 DEF TransferToHub
      <3>2. AuthTypeOK'
        BY <2>0, <3>1 DEF AuthTypeOK, Servers
      <3> QED
        BY <1>1, <3>1, <3>2, Apart DEF AuthIInv, AuthInv
    <2>4. CASE Administer
      <3>1. /\ UNCHANGED <<at, heading, session, node, granting, playerAttempts, kicks, live,
                           scheduledKicks, strayed, misfired>>
            /\ bypassList' \subseteq AuthPlayers
        BY <2>0, <2>4 DEF Administer, AuthTypeOK
      <3>2. AuthTypeOK'
        BY <2>0, <3>1 DEF AuthTypeOK
      <3> QED
        BY <1>1, <3>1, <3>2, Apart DEF AuthIInv, AuthInv
    <2>5. CASE UNCHANGED authVars
      <3>1. UNCHANGED <<at, heading, session, node, granting, bypassList, playerAttempts, kicks,
                        live, scheduledKicks, strayed, misfired>>
        BY <2>5 DEF authVars
      <3>2. AuthTypeOK'
        BY <2>0, <3>1 DEF AuthTypeOK
      <3> QED
        BY <1>1, <3>1, <3>2, Apart DEF AuthIInv, AuthInv
    <2> QED
      BY <1>1, <2>1, <2>2, <2>3, <2>4, <2>5 DEF AuthNext
  <1> QED
    BY AuthInitInv, <1>1, PTL DEF AuthSpec

(* Who waits at the login server is timed, and kicks hit only who waits or  *)
(* has strayed (PlayerConnection's scheduledKicks), always.                 *)
THEOREM AuthInvHolds == AuthSpec => []AuthInv
  <1>1. AuthIInv => AuthInv
    BY DEF AuthIInv
  <1> QED
    BY AuthInvariance, <1>1, PTL
-----------------------------------------------------------------------------
(***************************************************************************)
(* Profiles, for any number of requests, restarts and reports.  While      *)
(* requests do not overlap and no answer comes late, there is one report   *)
(* on the way at most, its request still waits for it, and everything that *)
(* holds it hands it to that request's channel.                            *)
(***************************************************************************)

Reports == ProfRequests \cup {Other}

ProfTypes ==
    /\ ProfTypeOK
    /\ logLines \in Seq(Reports)
    /\ uploads \in [Targets -> SUBSET ProfRequests]
    /\ clientLock \in [Targets -> ProfRequests \cup {ProfNone}]
    /\ stopped \subseteq ProfRequests

LEMMA ProfInitTypes == ProfInit => ProfTypes
  <1> SUFFICES ASSUME ProfInit PROVE ProfTypes
    OBVIOUS
  <1>1. ProfTypeOK
    BY DEF ProfInit, ProfTypeOK, Targets
  <1> QED
    BY <1>1 DEF ProfInit, ProfTypes, Targets, Reports

Labels == {"new", "wait", "pool", "look", "send", "command", "reply", "select", "cancel", "done"}

Url == ProfRequests \cup {Other, ProfNone}

(* What a step that leaves the log, the games and the channels alone keeps. *)
LEMMA TypesOfRequests ==
  ASSUME ProfTypes, NEW r \in ProfRequests, NEW l \in Labels, Goto(r, l),
         kind' \in [ProfRequests -> {"start", "stop"}], target' \in [ProfRequests -> Targets],
         urlChan' \in [ProfRequests -> [buffer : Url, closed : BOOLEAN]],
         result' \in [ProfRequests -> Url],
         pendingURLs' \in ProfRequests \cup {ProfNone}, poolLock' \in ProfRequests \cup {ProfNone},
         clientLock' \in [Targets -> ProfRequests \cup {ProfNone}],
         uploads' \in [Targets -> SUBSET ProfRequests], stopped' \subseteq ProfRequests,
         mixed' \in BOOLEAN, UNCHANGED <<reader, panicked, logLines>>
  PROVE  ProfTypes'
  <1>1. pc' \in [ProfRequests -> Labels]
    BY DEF ProfTypes, ProfTypeOK, Goto, Labels
  <1>2. ProfTypeOK'
    <2>1. ({pendingURLs, poolLock} \cup {clientLock[t] : t \in Targets}
            \subseteq ProfRequests \cup {ProfNone})'
      OBVIOUS
    <2>2. \A t \in Targets : uploads'[t] \subseteq ProfRequests
      OBVIOUS
    <2>3. (reader = ProfNone \/ reader \in [url : Url, chan : ProfRequests])' /\ panicked' \in BOOLEAN
      BY DEF ProfTypes, ProfTypeOK, Url
    <2> QED
      BY <1>1, <2>1, <2>2, <2>3 DEF ProfTypeOK, Labels, Url
  <1> QED
    BY <1>2 DEF ProfTypes

LEMMA ProfTypesStep == ProfTypes /\ [ProfNext]_profVars => ProfTypes'
  <1> SUFFICES ASSUME ProfTypes, [ProfNext]_profVars PROVE ProfTypes'
    OBVIOUS
  <1>0. /\ pc \in [ProfRequests -> Labels]
        /\ kind \in [ProfRequests -> {"start", "stop"}] /\ target \in [ProfRequests -> Targets]
        /\ urlChan \in [ProfRequests -> [buffer : Url, closed : BOOLEAN]]
        /\ result \in [ProfRequests -> Url]
        /\ pendingURLs \in ProfRequests \cup {ProfNone} /\ poolLock \in ProfRequests \cup {ProfNone}
        /\ reader = ProfNone \/ reader \in [url : Url, chan : ProfRequests]
        /\ panicked \in BOOLEAN /\ mixed \in BOOLEAN
        /\ logLines \in Seq(Reports)
        /\ uploads \in [Targets -> SUBSET ProfRequests]
        /\ clientLock \in [Targets -> ProfRequests \cup {ProfNone}]
        /\ stopped \subseteq ProfRequests
    BY DEF ProfTypes, ProfTypeOK, Labels, Url
  <1>1. ASSUME NEW r \in ProfRequests, NEW k \in {"start", "stop"}, NEW t \in Targets, Ask(r, k, t)
        PROVE  ProfTypes'
    BY <1>0, <1>1, TypesOfRequests
    DEF Ask, chanVars, rconVars, gameVars, Labels
  <1>2. ASSUME NEW r \in ProfRequests, WaitForProfilerURL(r) PROVE ProfTypes'
    BY <1>0, <1>2, TypesOfRequests DEF WaitForProfilerURL, askVars, rconVars, gameVars, Labels
  <1>3. ASSUME NEW r \in ProfRequests, CancelProfilerURLWait(r) PROVE ProfTypes'
    <2>1. urlChan' \in [ProfRequests -> [buffer : Url, closed : BOOLEAN]]
          /\ pendingURLs' \in ProfRequests \cup {ProfNone}
      <3>1. CASE pendingURLs = ProfNone
        BY <3>1, <1>3, <1>0 DEF CancelProfilerURLWait, chanVars
      <3>2. CASE pendingURLs # ProfNone
        <4>1. urlChan' = [urlChan EXCEPT ![pendingURLs].closed = TRUE] /\ pendingURLs' = ProfNone
          BY <3>2, <1>3 DEF CancelProfilerURLWait
        <4> QED
          BY <4>1, <3>2, <1>0
      <3> QED
        BY <3>1, <3>2
    <2> QED
      BY <1>0, <1>3, <2>1, TypesOfRequests DEF CancelProfilerURLWait, askVars, rconVars, gameVars, Labels
  <1>4. CASE ReadLine
    <2>1. Head(logLines) \in Reports /\ Tail(logLines) \in Seq(Reports)
      BY <1>4, <1>0 DEF ReadLine
    <2>2. /\ logLines' = Tail(logLines)
          /\ reader' = IF pendingURLs = ProfNone THEN ProfNone
                       ELSE [url |-> Head(logLines), chan |-> pendingURLs]
          /\ UNCHANGED <<pc, kind, target, urlChan, pendingURLs, poolLock, clientLock, uploads,
                         result, panicked, stopped, mixed>>
      BY <1>4 DEF ReadLine, askVars, chanVars, rconVars
    <2>3. reader' = ProfNone \/ reader' \in [url : Url, chan : ProfRequests]
      BY <2>1, <2>2, <1>0 DEF Reports, Url
    <2> QED
      BY <1>0, <2>1, <2>2, <2>3 DEF ProfTypes, ProfTypeOK, Labels, Url
  <1>5. CASE Deliver
    <2>1. reader \in [url : Url, chan : ProfRequests]
      BY <1>5, <1>0 DEF Deliver
    <2>2. urlChan' \in [ProfRequests -> [buffer : Url, closed : BOOLEAN]]
      BY <1>5, <1>0, <2>1 DEF Deliver
    <2>3. panicked' \in BOOLEAN /\ reader' = ProfNone
      BY <1>5, <1>0, <2>1 DEF Deliver
    <2>4. UNCHANGED <<pc, kind, target, pendingURLs, poolLock, clientLock, uploads, logLines,
                      result, stopped, mixed>>
      BY <1>5 DEF Deliver, askVars, rconVars, gameVars
    <2> QED
      BY <1>0, <2>2, <2>3, <2>4 DEF ProfTypes, ProfTypeOK, Labels, Url
  <1>6. ASSUME NEW r \in ProfRequests, LockPool(r) PROVE ProfTypes'
    BY <1>0, <1>6, TypesOfRequests DEF LockPool, askVars, chanVars, gameVars, Labels
  <1>7. ASSUME NEW r \in ProfRequests, GetConnection(r) PROVE ProfTypes'
    <2>1. PICK l \in {"send", "cancel", "done"} : Goto(r, l)
      BY <1>7 DEF GetConnection, Leaving
    <2> QED
      BY <1>0, <1>7, <2>1, TypesOfRequests DEF GetConnection, askVars, chanVars, gameVars, Labels
  <1>8. ASSUME NEW r \in ProfRequests, LockClient(r) PROVE ProfTypes'
    BY <1>0, <1>8, TypesOfRequests DEF LockClient, askVars, chanVars, gameVars, Labels
  <1>9. ASSUME NEW r \in ProfRequests, SendCommand(r) PROVE ProfTypes'
    <2>1. uploads' \in [Targets -> SUBSET ProfRequests] /\ stopped' \subseteq ProfRequests
          /\ logLines' = logLines
      BY <1>0, <1>9 DEF SendCommand, Obeys, gameVars
    <2> QED
      BY <1>0, <1>9, <2>1, TypesOfRequests DEF SendCommand, askVars, chanVars, rconVars, Labels
  <1>10. ASSUME NEW r \in ProfRequests, ReadReply(r) PROVE ProfTypes'
    <2>1. PICK l \in {"select", "done"} : Goto(r, l)
      BY <1>10 DEF ReadReply
    <2> QED
      BY <1>0, <1>10, <2>1, TypesOfRequests DEF ReadReply, askVars, chanVars, gameVars, Labels
  <1>11. ASSUME NEW r \in ProfRequests, Receive(r) PROVE ProfTypes'
    <2>1. urlChan' \in [ProfRequests -> [buffer : Url, closed : BOOLEAN]]
      BY <1>0, <1>11 DEF Receive, Url
    <2>2. result' \in [ProfRequests -> Url]
      BY <1>0, <1>11 DEF Receive, Answer, Url
    <2> QED
      BY <1>0, <1>11, <2>1, <2>2, TypesOfRequests DEF Receive, askVars, rconVars, gameVars, Labels
  <1>12. ASSUME NEW r \in ProfRequests, Timeout(r) PROVE ProfTypes'
    BY <1>0, <1>12, TypesOfRequests DEF Timeout, askVars, chanVars, rconVars, gameVars, Labels
  <1>13. ASSUME NEW t \in Targets, Upload(t) PROVE ProfTypes'
    <2>1. PICK r \in uploads[t] :
            /\ uploads' = [uploads EXCEPT ![t] = @ \ {r}]
            /\ logLines' = IF t = "server" THEN Append(logLines, r) ELSE logLines
      BY <1>13 DEF Upload
    <2>2. r \in Reports
      BY <1>0 DEF Reports
    <2>3. logLines' \in Seq(Reports) /\ uploads' \in [Targets -> SUBSET ProfRequests]
      BY <2>1, <2>2, <1>0
    <2>4. UNCHANGED <<pc, kind, target, urlChan, pendingURLs, poolLock, clientLock,
                      result, reader, panicked, stopped, mixed>>
      BY <1>13 DEF Upload, askVars, chanVars, rconVars
    <2> QED
      BY <1>0, <2>3, <2>4 DEF ProfTypes, ProfTypeOK, Labels, Url
  <1>14. ASSUME NEW t \in Targets, Restart(t) PROVE ProfTypes'
    <2>1. uploads' \in [Targets -> SUBSET ProfRequests] /\ stopped' \subseteq ProfRequests
      BY <1>0, <1>14 DEF Restart
    <2>2. UNCHANGED <<pc, kind, target, urlChan, pendingURLs, poolLock, clientLock, logLines,
                      result, reader, panicked, mixed>>
      BY <1>14 DEF Restart, askVars, chanVars, rconVars
    <2> QED
      BY <1>0, <2>1, <2>2 DEF ProfTypes, ProfTypeOK, Labels, Url
  <1>15. CASE OtherReport
    <2>1. logLines' = Append(logLines, Other) /\ mixed' = TRUE
          /\ UNCHANGED <<pc, kind, target, urlChan, pendingURLs, poolLock, clientLock, uploads,
                         result, reader, panicked, stopped>>
      BY <1>15 DEF OtherReport, askVars, chanVars, rconVars
    <2>2. logLines' \in Seq(Reports)
      BY <2>1, <1>0 DEF Reports
    <2> QED
      BY <1>0, <2>1, <2>2 DEF ProfTypes, ProfTypeOK, Labels, Url
  <1>16. CASE UNCHANGED profVars
    BY <1>0, <1>16 DEF profVars, askVars, chanVars, rconVars, gameVars, ProfTypes, ProfTypeOK, Labels, Url
  <1> QED
    BY <1>1, <1>2, <1>3, <1>4, <1>5, <1>6, <1>7, <1>8, <1>9, <1>10, <1>11, <1>12, <1>13, <1>14,
       <1>15, <1>16 DEF ProfNext, Serves

(* A stop that waits is the one pendingProfilerURLs knows. *)
Waiting == {"pool", "look", "send", "command", "reply", "select", "cancel"}

(* Where the one report on its way may be: with Spark, in the log, with the *)
(* log's reader, in the channel. *)
Report(r) ==
    \/ /\ uploads["server"] = {r} /\ logLines = <<>> /\ reader = ProfNone
       /\ \A q \in ProfRequests : urlChan[q].buffer = ProfNone
    \/ /\ uploads["server"] = {} /\ logLines = <<r>> /\ reader = ProfNone
       /\ \A q \in ProfRequests : urlChan[q].buffer = ProfNone
    \/ /\ uploads["server"] = {} /\ logLines = <<>> /\ reader = [url |-> r, chan |-> r]
       /\ \A q \in ProfRequests : urlChan[q].buffer = ProfNone
    \/ /\ uploads["server"] = {} /\ logLines = <<>> /\ reader = ProfNone
       /\ urlChan[r].buffer = r
       /\ \A q \in ProfRequests \ {r} : urlChan[q].buffer = ProfNone

NoReport ==
    /\ uploads["server"] = {} /\ logLines = <<>> /\ reader = ProfNone
    /\ \A q \in ProfRequests : urlChan[q].buffer = ProfNone

OneActive == \A r, q \in ProfRequests : Active(r) /\ Active(q) => r = q

PendingWaits ==
    /\ pendingURLs # ProfNone => kind[pendingURLs] = "stop" /\ pc[pendingURLs] \in Waiting
    /\ \A r \in ProfRequests : kind[r] = "stop" /\ pc[r] \in Waiting => pendingURLs = r
    /\ \A r \in ProfRequests : pc[r] \in {"wait", "select", "cancel"} => kind[r] = "stop"

ClosedAfter == \A r \in ProfRequests : urlChan[r].closed => pc[r] = "done"

StoppedWait ==
    \A r \in stopped :
        /\ kind[r] = "stop" /\ pc[r] \in {"reply", "select", "cancel", "done"}
        /\ target[r] = "server" =>
            /\ pc[r] \in {"reply", "select"} => Report(r)
            /\ pc[r] \in {"cancel", "done"} => result[r] = r

OneReport ==
    NoReport \/ \E r \in ProfRequests : /\ kind[r] = "stop" /\ pc[r] \in {"reply", "select"}
                                        /\ Report(r)

SerialProf ==
    /\ OneActive /\ PendingWaits /\ ClosedAfter /\ StoppedWait /\ OneReport /\ ~panicked

LEMMA SerialProfInit == ProfInit => SerialProf
  BY ProfAssumption DEF ProfInit, SerialProf, OneActive, PendingWaits, ClosedAfter, StoppedWait, OneReport,
     NoReport, Active, Targets, Waiting

(* A request that goes on, and touches neither report nor channel. *)
LEMMA SerialMoves ==
  ASSUME ProfTypes, SerialProf, NEW r \in ProfRequests, NEW l \in Labels, Goto(r, l), Active(r),
         UNCHANGED <<kind, target, urlChan, pendingURLs, reader, panicked, logLines, uploads,
                     result, stopped>>,
         pc[r] # "cancel", l \notin {"new", "wait"}, l \in {"select", "cancel"} => kind[r] = "stop",
         kind[r] = "stop" => pc[r] \in Waiting /\ l \in Waiting,
         kind[r] = "stop" /\ pc[r] \in {"reply", "select"} => l \in {"reply", "select"}
  PROVE  SerialProf'
  <1>0. pc \in [ProfRequests -> Labels] /\ stopped \subseteq ProfRequests
    BY DEF ProfTypes, ProfTypeOK, Labels
  <1>1. pc'[r] = l /\ \A q \in ProfRequests \ {r} : pc'[q] = pc[q]
    BY <1>0 DEF Goto
  <1>2. \A q \in ProfRequests : Active(q)' => Active(q)
    BY <1>1 DEF Active
  <1>3. OneActive'
    BY <1>2 DEF SerialProf, OneActive
  <1>4. PendingWaits'
    BY <1>1, <1>0, ProfAssumption DEF SerialProf, PendingWaits, ProfTypes, ProfTypeOK
  <1>5. ClosedAfter'
    BY <1>1 DEF SerialProf, ClosedAfter, Active
  <1>6. /\ \A q \in ProfRequests : Report(q)' = Report(q)
        /\ NoReport' = NoReport
    BY DEF Report, NoReport
  <1>7. StoppedWait'
    <2> SUFFICES ASSUME NEW q \in stopped
                 PROVE  (/\ kind[q] = "stop" /\ pc[q] \in {"reply", "select", "cancel", "done"}
                         /\ target[q] = "server" =>
                            /\ pc[q] \in {"reply", "select"} => Report(q)
                            /\ pc[q] \in {"cancel", "done"} => result[q] = q)'
      BY DEF StoppedWait
    <2>1. /\ q \in ProfRequests /\ kind[q] = "stop"
          /\ pc[q] \in {"reply", "select", "cancel", "done"}
          /\ target[q] = "server" =>
                /\ pc[q] \in {"reply", "select"} => Report(q)
                /\ pc[q] \in {"cancel", "done"} => result[q] = q
      BY <1>0 DEF SerialProf, StoppedWait
    <2>2. CASE q # r
      BY <2>1, <2>2, <1>1, <1>6
    <2>3. CASE q = r /\ pc[q] \in {"reply", "select"}
      BY <2>1, <2>3, <1>1, <1>6
    <2> QED
      BY <2>1, <2>2, <2>3 DEF Active
  <1>8. OneReport'
    BY <1>1, <1>6 DEF SerialProf, OneReport
  <1> QED
    BY <1>3, <1>4, <1>5, <1>7, <1>8 DEF SerialProf

LEMMA SerialAsk ==
  ASSUME ProfTypes, SerialProf, NEW r \in ProfRequests, NEW k \in {"start", "stop"},
         NEW t \in Targets, Ask(r, k, t), ~mixed'
  PROVE  SerialProf'
  <1>0. /\ pc \in [ProfRequests -> Labels] /\ stopped \subseteq ProfRequests
        /\ kind \in [ProfRequests -> {"start", "stop"}] /\ target \in [ProfRequests -> Targets]
        /\ pendingURLs \in ProfRequests \cup {ProfNone}
    BY DEF ProfTypes, ProfTypeOK, Labels
  <1>1. \A q \in ProfRequests : ~Active(q)
    BY DEF Ask
  <1>2. pc[r] = "new"
    BY <1>0 DEF Ask, Asked, ProfRequests
  <1>3. /\ kind'[r] = k /\ pc'[r] = IF k = "stop" THEN "wait" ELSE "pool"
        /\ \A q \in ProfRequests \ {r} : pc'[q] = pc[q] /\ kind'[q] = kind[q] /\ target'[q] = target[q]
        /\ UNCHANGED <<urlChan, pendingURLs, uploads, logLines, result, reader, panicked, stopped>>
    BY <1>0 DEF Ask, Goto, chanVars, gameVars
  <1>4. pendingURLs = ProfNone
    BY <1>0, <1>1 DEF SerialProf, PendingWaits, Active, Waiting
  <1>5. NoReport
    BY <1>1 DEF SerialProf, OneReport, Active
  <1>6. OneActive'
    BY <1>1, <1>3 DEF OneActive, Active
  <1>7. PendingWaits'
    BY <1>1, <1>3, <1>4 DEF SerialProf, PendingWaits, Active, Waiting
  <1>8. ClosedAfter'
    BY <1>2, <1>3 DEF SerialProf, ClosedAfter
  <1>9. StoppedWait'
    <2> SUFFICES ASSUME NEW q \in stopped
                 PROVE  (/\ kind[q] = "stop" /\ pc[q] \in {"reply", "select", "cancel", "done"}
                         /\ target[q] = "server" =>
                            /\ pc[q] \in {"reply", "select"} => Report(q)
                            /\ pc[q] \in {"cancel", "done"} => result[q] = q)'
      BY <1>3 DEF StoppedWait
    <2>1. q # r /\ q \in ProfRequests /\ ~Active(q)
      BY <1>0, <1>1, <1>2 DEF SerialProf, StoppedWait
    <2> QED
      BY <2>1, <1>3 DEF SerialProf, StoppedWait, Active
  <1>10. OneReport'
    BY <1>3, <1>5 DEF OneReport, NoReport
  <1> QED
    BY <1>3, <1>6, <1>7, <1>8, <1>9, <1>10 DEF SerialProf

(* The steps of a stop's wait. *)
LEMMA SerialWait ==
  ASSUME ProfTypes, SerialProf, NEW r \in ProfRequests, WaitForProfilerURL(r)
  PROVE  SerialProf'
  <1>0. /\ pc \in [ProfRequests -> Labels] /\ stopped \subseteq ProfRequests
        /\ kind \in [ProfRequests -> {"start", "stop"}]
    BY DEF ProfTypes, ProfTypeOK, Labels
  <1>1. /\ pc[r] = "wait" /\ pc'[r] = "pool" /\ pendingURLs' = r
        /\ \A q \in ProfRequests \ {r} : pc'[q] = pc[q]
        /\ UNCHANGED <<kind, target, urlChan, uploads, logLines, result, reader, panicked, stopped>>
    BY <1>0 DEF WaitForProfilerURL, Goto, askVars, gameVars
  <1>2. \A q \in ProfRequests : Active(q) => q = r
    BY <1>1 DEF SerialProf, OneActive, Active
  <1>2a. \A q \in ProfRequests \ {r} : pc[q] \in {"new", "done"}
    BY <1>2 DEF Active
  <1>3. OneActive'
    BY <1>1, <1>2a DEF OneActive, Active
  <1>4. PendingWaits'
    BY <1>1, <1>2a DEF SerialProf, PendingWaits, Waiting
  <1>5. ClosedAfter'
    BY <1>1 DEF SerialProf, ClosedAfter
  <1>6. NoReport
    BY <1>1, <1>2a DEF SerialProf, OneReport
  <1>7. StoppedWait'
    <2> SUFFICES ASSUME NEW q \in stopped
                 PROVE  (/\ kind[q] = "stop" /\ pc[q] \in {"reply", "select", "cancel", "done"}
                         /\ target[q] = "server" =>
                            /\ pc[q] \in {"reply", "select"} => Report(q)
                            /\ pc[q] \in {"cancel", "done"} => result[q] = q)'
      BY <1>1 DEF StoppedWait
    <2>1. q # r /\ q \in ProfRequests /\ pc[q] \in {"new", "done"}
      BY <1>0, <1>1, <1>2a DEF SerialProf, StoppedWait
    <2> QED
      BY <2>1, <1>1 DEF SerialProf, StoppedWait
  <1>8. OneReport'
    BY <1>1, <1>6 DEF OneReport, NoReport
  <1> QED
    BY <1>1, <1>3, <1>4, <1>5, <1>7, <1>8 DEF SerialProf

LEMMA SerialCancel ==
  ASSUME ProfTypes, SerialProf, NEW r \in ProfRequests, CancelProfilerURLWait(r)
  PROVE  SerialProf'
  <1>0. /\ pc \in [ProfRequests -> Labels] /\ stopped \subseteq ProfRequests
        /\ kind \in [ProfRequests -> {"start", "stop"}]
        /\ urlChan \in [ProfRequests -> [buffer : Url, closed : BOOLEAN]]
    BY DEF ProfTypes, ProfTypeOK, Labels, Url
  <1>1. /\ pc[r] = "cancel" /\ pc'[r] = "done"
        /\ \A q \in ProfRequests \ {r} : pc'[q] = pc[q]
        /\ UNCHANGED <<kind, target, uploads, logLines, result, reader, panicked, stopped>>
    BY <1>0 DEF CancelProfilerURLWait, Goto, askVars, gameVars
  <1>2. kind[r] = "stop" /\ pendingURLs = r
    BY <1>1 DEF SerialProf, PendingWaits, Waiting
  <1>3. urlChan' = [urlChan EXCEPT ![r].closed = TRUE] /\ pendingURLs' = ProfNone
    BY <1>2, ProfAssumption DEF CancelProfilerURLWait
  <1>4. /\ \A q \in ProfRequests : urlChan'[q].buffer = urlChan[q].buffer
        /\ \A q \in ProfRequests \ {r} : urlChan'[q].closed = urlChan[q].closed
    BY <1>0, <1>3
  <1>5. \A q \in ProfRequests \ {r} : pc[q] \in {"new", "done"}
    BY <1>1 DEF SerialProf, OneActive, Active
  <1>6. OneActive'
    BY <1>1, <1>5 DEF OneActive, Active
  <1>7. PendingWaits'
    BY <1>1, <1>3, <1>5, ProfAssumption DEF PendingWaits, Waiting
  <1>8. ClosedAfter'
    BY <1>1, <1>4 DEF SerialProf, ClosedAfter
  <1>9. NoReport
    BY <1>1, <1>5 DEF SerialProf, OneReport
  <1>10. OneReport'
    BY <1>1, <1>4, <1>9 DEF OneReport, NoReport
  <1>11. StoppedWait'
    <2> SUFFICES ASSUME NEW q \in stopped
                 PROVE  (/\ kind[q] = "stop" /\ pc[q] \in {"reply", "select", "cancel", "done"}
                         /\ target[q] = "server" =>
                            /\ pc[q] \in {"reply", "select"} => Report(q)
                            /\ pc[q] \in {"cancel", "done"} => result[q] = q)'
      BY <1>1 DEF StoppedWait
    <2>1. q \in ProfRequests /\ pc[q] \in {"cancel", "done"} /\ pc'[q] = "done"
      BY <1>0, <1>1, <1>5 DEF SerialProf, StoppedWait
    <2> QED
      BY <2>1, <1>1 DEF SerialProf, StoppedWait
  <1> QED
    BY <1>1, <1>6, <1>7, <1>8, <1>10, <1>11 DEF SerialProf

LEMMA SerialSend ==
  ASSUME ProfTypes, SerialProf, NEW r \in ProfRequests, SendCommand(r)
  PROVE  SerialProf'
  <1>0. /\ pc \in [ProfRequests -> Labels] /\ stopped \subseteq ProfRequests
        /\ kind \in [ProfRequests -> {"start", "stop"}] /\ target \in [ProfRequests -> Targets]
        /\ uploads \in [Targets -> SUBSET ProfRequests]
    BY DEF ProfTypes, ProfTypeOK, Labels
  <1>1. /\ pc[r] = "command" /\ Goto(r, "reply") /\ Active(r)
        /\ UNCHANGED <<kind, target, urlChan, pendingURLs, reader, panicked, result, logLines>>
    BY DEF SendCommand, askVars, chanVars, gameVars, Obeys, Active
  <1>2. CASE UNCHANGED <<uploads, stopped>>
    BY <1>1, <1>2, SerialMoves DEF Labels, Waiting
  <1>3. CASE ~UNCHANGED <<uploads, stopped>>
    <2>1. /\ kind[r] = "stop" /\ stopped' = stopped \cup {r}
          /\ uploads' = [uploads EXCEPT ![target[r]] = @ \cup {r}]
      BY <1>3 DEF SendCommand, Obeys, gameVars
    <2>2. pc'[r] = "reply" /\ \A q \in ProfRequests \ {r} : pc'[q] = pc[q]
      BY <1>0, <1>1 DEF Goto
    <2>3. \A q \in ProfRequests \ {r} : pc[q] \in {"new", "done"}
      BY <1>1 DEF SerialProf, OneActive, Active
    <2>4. NoReport
      BY <1>1, <2>3 DEF SerialProf, OneReport
    <2>5. target[r] = "server" => Report(r)'
      <3> SUFFICES ASSUME target[r] = "server" PROVE Report(r)'
        OBVIOUS
      <3>1. uploads'["server"] = {r}
        BY <2>1, <2>4, <1>0 DEF NoReport, Targets
      <3> QED
        BY <3>1, <2>4, <1>1 DEF Report, NoReport
    <2>6. target[r] # "server" => NoReport'
      <3> SUFFICES ASSUME target[r] # "server" PROVE NoReport'
        OBVIOUS
      <3>1. uploads'["server"] = uploads["server"]
        BY <2>1, <1>0 DEF Targets
      <3> QED
        BY <3>1, <2>4, <1>1 DEF NoReport
    <2>7. OneActive'
      BY <2>2, <2>3 DEF OneActive, Active
    <2>8. PendingWaits'
      BY <1>1, <2>1, <2>2, <2>3 DEF SerialProf, PendingWaits, Waiting
    <2>9. ClosedAfter'
      BY <1>1, <2>2 DEF SerialProf, ClosedAfter
    <2>10. OneReport'
      BY <2>1, <2>2, <2>5, <2>6, <1>1 DEF OneReport
    <2>11. StoppedWait'
      <3> SUFFICES ASSUME NEW q \in stopped'
                   PROVE  (/\ kind[q] = "stop" /\ pc[q] \in {"reply", "select", "cancel", "done"}
                           /\ target[q] = "server" =>
                              /\ pc[q] \in {"reply", "select"} => Report(q)
                              /\ pc[q] \in {"cancel", "done"} => result[q] = q)'
        BY DEF StoppedWait
      <3>1. CASE q = r
        BY <3>1, <2>1, <2>2, <2>5, <1>1
      <3>2. CASE q # r
        <4>1. q \in stopped /\ q \in ProfRequests /\ pc[q] \in {"new", "done"} /\ pc'[q] = pc[q]
          BY <3>2, <2>1, <2>2, <2>3, <1>0
        <4> QED
          BY <4>1, <1>1 DEF SerialProf, StoppedWait
      <3> QED
        BY <3>1, <3>2
    <2> QED
      BY <1>1, <2>7, <2>8, <2>9, <2>10, <2>11 DEF SerialProf
  <1> QED
    BY <1>2, <1>3

LEMMA SerialLeave ==
  ASSUME ProfTypes, SerialProf, NEW r \in ProfRequests, Receive(r) \/ (Timeout(r) /\ ~mixed')
  PROVE  SerialProf'
  <1>0. /\ pc \in [ProfRequests -> Labels] /\ stopped \subseteq ProfRequests
        /\ kind \in [ProfRequests -> {"start", "stop"}]
        /\ urlChan \in [ProfRequests -> [buffer : Url, closed : BOOLEAN]]
        /\ result \in [ProfRequests -> Url]
    BY DEF ProfTypes, ProfTypeOK, Labels, Url
  <1>1. /\ pc[r] = "select" /\ pc'[r] = "cancel"
        /\ \A q \in ProfRequests \ {r} : pc'[q] = pc[q]
        /\ UNCHANGED <<kind, target, uploads, logLines, pendingURLs, reader, panicked, stopped>>
    BY <1>0 DEF Receive, Timeout, Goto, askVars, gameVars, chanVars
  <1>2. kind[r] = "stop" /\ pendingURLs = r
    BY <1>1 DEF SerialProf, PendingWaits, Waiting
  <1>3. \A q \in ProfRequests \ {r} : pc[q] \in {"new", "done"}
    BY <1>1 DEF SerialProf, OneActive, Active
  <1>4. OneActive'
    BY <1>1, <1>3 DEF OneActive, Active
  <1>5. PendingWaits'
    BY <1>1, <1>2, <1>3, ProfAssumption DEF PendingWaits, Waiting
  <1>6. NoReport \/ Report(r)
    BY <1>3 DEF SerialProf, OneReport
  <1>7. (\A q \in ProfRequests : urlChan'[q].closed = urlChan[q].closed) /\ NoReport'
        /\ (r \in stopped /\ target[r] = "server" => result'[r] = r)
        /\ \A q \in ProfRequests \ {r} : result'[q] = result[q]
    <2>1. CASE Receive(r)
      <3>1. /\ urlChan[r].buffer # ProfNone
            /\ result' = [result EXCEPT ![r] = urlChan[r].buffer]
            /\ urlChan' = [urlChan EXCEPT ![r].buffer = ProfNone]
        BY <2>1, <1>1 DEF Receive, Answer, SerialProf, ClosedAfter
      <3>2. ~NoReport
        BY <3>1 DEF NoReport
      <3>3. /\ uploads["server"] = {} /\ logLines = <<>> /\ reader = ProfNone
            /\ urlChan[r].buffer = r
            /\ \A q \in ProfRequests \ {r} : urlChan[q].buffer = ProfNone
        BY <3>1, <3>2, <1>6 DEF Report
      <3>4. /\ \A q \in ProfRequests : urlChan'[q].closed = urlChan[q].closed
            /\ \A q \in ProfRequests : urlChan'[q].buffer = ProfNone
        BY <3>1, <3>3, <1>0
      <3>5. result'[r] = r /\ \A q \in ProfRequests \ {r} : result'[q] = result[q]
        BY <3>1, <3>3, <1>0
      <3> QED
        BY <3>3, <3>4, <3>5, <1>1 DEF NoReport
    <2>2. CASE Timeout(r) /\ ~mixed'
      <3>1. r \notin OnTheWay /\ UNCHANGED <<urlChan, result>>
        BY <2>2 DEF Timeout, chanVars
      <3>2. ~Report(r)
        <4>1. r \notin uploads["server"] /\ ~(\E i \in DOMAIN logLines : logLines[i] = r)
          BY <3>1 DEF OnTheWay
        <4>2. reader # ProfNone => reader.url # r
          BY <3>1 DEF OnTheWay
        <4>3. urlChan[r].buffer # r
          BY <3>1 DEF OnTheWay
        <4>4. logLines # <<r>>
          <5>1. DOMAIN <<r>> = {1} /\ <<r>>[1] = r
            OBVIOUS
          <5> QED
            BY <4>1, <5>1
        <4>5. [url |-> r, chan |-> r].url = r
          OBVIOUS
        <4>7. reader = [url |-> r, chan |-> r] => reader # ProfNone
          BY ProfAssumption DEF ProfRequests
        <4> QED
          BY <4>1, <4>2, <4>3, <4>4, <4>5, <4>7 DEF Report
      <3>3. ~(r \in stopped /\ target[r] = "server")
        BY <3>2, <1>1 DEF SerialProf, StoppedWait
      <3> QED
        BY <3>1, <3>2, <3>3, <1>6, <1>1 DEF NoReport
    <2> QED
      BY <2>1, <2>2
  <1>8. ClosedAfter'
    BY <1>1, <1>7 DEF SerialProf, ClosedAfter
  <1>9. StoppedWait'
    <2> SUFFICES ASSUME NEW q \in stopped
                 PROVE  (/\ kind[q] = "stop" /\ pc[q] \in {"reply", "select", "cancel", "done"}
                         /\ target[q] = "server" =>
                            /\ pc[q] \in {"reply", "select"} => Report(q)
                            /\ pc[q] \in {"cancel", "done"} => result[q] = q)'
      BY <1>1 DEF StoppedWait
    <2>1. CASE q = r
      BY <2>1, <1>1, <1>2, <1>7
    <2>2. CASE q # r
      <3>1. q \in ProfRequests /\ pc[q] \in {"new", "done"} /\ pc'[q] = pc[q]
        BY <2>2, <1>0, <1>1, <1>3
      <3> QED
        BY <3>1, <2>2, <1>1, <1>7 DEF SerialProf, StoppedWait
    <2> QED
      BY <2>1, <2>2
  <1> QED
    BY <1>1, <1>4, <1>5, <1>7, <1>8, <1>9 DEF SerialProf, OneReport

(* The report goes on, and nothing else moves. *)
LEMMA SerialReport ==
  ASSUME ProfTypes, SerialProf, UNCHANGED <<pc, kind, target, pendingURLs, result>>,
         \A q \in ProfRequests : urlChan'[q].closed = urlChan[q].closed,
         ~panicked', stopped' \subseteq stopped,
         NoReport => NoReport',
         \A r \in ProfRequests : kind[r] = "stop" /\ pc[r] \in {"reply", "select"} /\ Report(r) =>
            Report(r)' \/ (NoReport' /\ r \notin stopped')
  PROVE  SerialProf'
  <1>0. stopped \subseteq ProfRequests
    BY DEF ProfTypes
  <1>1. OneActive' /\ PendingWaits'
    BY Zenon DEF SerialProf, OneActive, PendingWaits, Active
  <1>2. ClosedAfter'
    BY DEF SerialProf, ClosedAfter
  <1>3. OneReport'
    BY DEF SerialProf, OneReport
  <1>4. StoppedWait'
    BY <1>0 DEF SerialProf, StoppedWait
  <1> QED
    BY <1>1, <1>2, <1>3, <1>4 DEF SerialProf

LEMMA SerialLog ==
  ASSUME ProfTypes, SerialProf, NEW t \in Targets,
         ReadLine \/ Deliver \/ Upload(t) \/ Restart(t)
  PROVE  SerialProf'
  <1>0. /\ urlChan \in [ProfRequests -> [buffer : Url, closed : BOOLEAN]]
        /\ uploads \in [Targets -> SUBSET ProfRequests]
        /\ reader = ProfNone \/ reader \in [url : Url, chan : ProfRequests]
    BY DEF ProfTypes, ProfTypeOK, Url
  <1>1. UNCHANGED <<pc, kind, target, pendingURLs, result>>
    BY DEF ReadLine, Deliver, Upload, Restart, askVars, chanVars
  <1>2. ~panicked /\ (NoReport \/ \E r \in ProfRequests : /\ kind[r] = "stop"
                                                          /\ pc[r] \in {"reply", "select"}
                                                          /\ Report(r))
    BY DEF SerialProf, OneReport
  <1>2a. ASSUME NEW r \in ProfRequests, kind[r] = "stop", pc[r] \in {"reply", "select"}
         PROVE  pendingURLs = r /\ ~urlChan[r].closed
    BY <1>2a DEF SerialProf, PendingWaits, ClosedAfter, Waiting
  <1>3. CASE ReadLine
    <2>1. /\ logLines # <<>> /\ logLines' = Tail(logLines)
          /\ reader' = IF pendingURLs = ProfNone THEN ProfNone
                       ELSE [url |-> Head(logLines), chan |-> pendingURLs]
          /\ UNCHANGED <<urlChan, uploads, panicked, stopped>>
      BY <1>3 DEF ReadLine, chanVars
    <2>2. ~NoReport
      BY <2>1 DEF NoReport
    <2>3. ASSUME NEW r \in ProfRequests, kind[r] = "stop", pc[r] \in {"reply", "select"}, Report(r)
          PROVE  Report(r)'
      <3>1. /\ uploads["server"] = {} /\ logLines = <<r>> /\ reader = ProfNone
            /\ \A q \in ProfRequests : urlChan[q].buffer = ProfNone
        BY <2>1, <2>3 DEF Report
      <3>2. Head(<<r>>) = r /\ Tail(<<r>>) = <<>>
        OBVIOUS
      <3>3. pendingURLs = r /\ r # ProfNone
        BY <1>2a, <2>3, ProfAssumption
      <3>4. logLines' = <<>> /\ reader' = [url |-> r, chan |-> r]
        BY <3>1, <3>2, <3>3, <2>1
      <3> QED
        BY <3>1, <3>4, <2>1 DEF Report
    <2> QED
      BY <1>1, <1>2, <2>1, <2>2, <2>3, SerialReport
  <1>4. CASE Deliver
    <2>1. /\ reader # ProfNone /\ reader' = ProfNone /\ panicked' = urlChan[reader.chan].closed
          /\ (urlChan[reader.chan].buffer = ProfNone /\ ~panicked') =>
                urlChan' = [urlChan EXCEPT ![reader.chan].buffer = reader.url]
          /\ UNCHANGED <<uploads, logLines, stopped>>
      BY <1>4 DEF Deliver, gameVars
    <2>2. ~NoReport
      BY <2>1 DEF NoReport
    <2>3. PICK r \in ProfRequests : kind[r] = "stop" /\ pc[r] \in {"reply", "select"} /\ Report(r)
      BY <1>2, <2>2
    <2>4. /\ uploads["server"] = {} /\ logLines = <<>> /\ reader = [url |-> r, chan |-> r]
          /\ \A q \in ProfRequests : urlChan[q].buffer = ProfNone
      BY <2>1, <2>3 DEF Report
    <2>5. ~panicked' /\ urlChan' = [urlChan EXCEPT ![r].buffer = r]
      BY <2>1, <2>3, <2>4, <1>2a
    <2>6. /\ \A q \in ProfRequests : urlChan'[q].closed = urlChan[q].closed
          /\ urlChan'[r].buffer = r
          /\ \A q \in ProfRequests \ {r} : urlChan'[q].buffer = ProfNone
      BY <2>4, <2>5, <1>0
    <2>7. Report(r)'
      BY <2>1, <2>4, <2>6 DEF Report
    <2>8. \A q \in ProfRequests : kind[q] = "stop" /\ pc[q] \in {"reply", "select"} => q = r
      BY <1>2a, <2>3
    <2> QED
      BY <1>1, <2>1, <2>2, <2>5, <2>6, <2>7, <2>8, SerialReport
  <1>5. CASE Upload(t)
    <2>1. PICK x \in uploads[t] :
            /\ uploads' = [uploads EXCEPT ![t] = @ \ {x}]
            /\ logLines' = IF t = "server" THEN Append(logLines, x) ELSE logLines
      BY <1>5 DEF Upload
    <2>2. UNCHANGED <<urlChan, reader, panicked, stopped>>
      BY <1>5 DEF Upload, chanVars
    <2>3. CASE t = "server"
      <3>1. ~NoReport
        BY <2>1, <2>3 DEF NoReport
      <3>2. ASSUME NEW r \in ProfRequests, Report(r) PROVE Report(r)'
        <4>1. /\ uploads["server"] = {r} /\ logLines = <<>> /\ reader = ProfNone
              /\ \A q \in ProfRequests : urlChan[q].buffer = ProfNone
          BY <2>1, <2>3, <3>2 DEF Report
        <4>2. x = r /\ uploads'["server"] = {}
          BY <4>1, <2>1, <2>3, <1>0
        <4>3. Append(<<>>, r) = <<r>>
          OBVIOUS
        <4> QED
          BY <4>1, <4>2, <4>3, <2>1, <2>2, <2>3 DEF Report
      <3> QED
        BY <1>1, <1>2, <2>2, <3>1, <3>2, SerialReport
    <2>4. CASE t # "server"
      <3>1. uploads'["server"] = uploads["server"] /\ logLines' = logLines
        BY <2>1, <2>4, <1>0 DEF Targets
      <3>2. (NoReport => NoReport') /\ \A r \in ProfRequests : Report(r) => Report(r)'
        BY <3>1, <2>2 DEF NoReport, Report
      <3> QED
        BY <1>1, <1>2, <2>2, <3>2, SerialReport
    <2> QED
      BY <2>3, <2>4
  <1>6. CASE Restart(t)
    <2>1. /\ stopped' = stopped \ uploads[t] /\ uploads' = [uploads EXCEPT ![t] = {}]
          /\ UNCHANGED <<urlChan, reader, panicked, logLines>>
      BY <1>6 DEF Restart, chanVars
    <2>2. CASE t = "server"
      <3>1. uploads'["server"] = {}
        BY <2>1, <2>2, <1>0
      <3>2. NoReport => NoReport'
        BY <3>1, <2>1 DEF NoReport
      <3>3. ASSUME NEW r \in ProfRequests, Report(r)
            PROVE  Report(r)' \/ (NoReport' /\ r \notin stopped')
        <4>1. CASE uploads["server"] = {r}
          BY <4>1, <3>1, <3>3, <2>1, <2>2 DEF Report, NoReport
        <4>2. CASE uploads["server"] # {r}
          BY <4>2, <3>1, <3>3, <2>1 DEF Report
        <4> QED
          BY <4>1, <4>2
      <3> QED
        BY <1>1, <1>2, <2>1, <3>2, <3>3, SerialReport
    <2>3. CASE t # "server"
      <3>1. uploads'["server"] = uploads["server"]
        BY <2>1, <2>3, <1>0 DEF Targets
      <3>2. (NoReport => NoReport') /\ \A r \in ProfRequests : Report(r) => Report(r)'
        BY <3>1, <2>1 DEF NoReport, Report
      <3> QED
        BY <1>1, <1>2, <2>1, <3>2, SerialReport
    <2> QED
      BY <2>2, <2>3
  <1> QED
    BY <1>3, <1>4, <1>5, <1>6

LEMMA SerialProfStep ==
  ASSUME ProfTypes, ~mixed => SerialProf, [ProfNext]_profVars, ~mixed'
  PROVE  SerialProf'
  <1>0. ~mixed
    BY DEF ProfNext, Serves, profVars, Ask, WaitForProfilerURL, CancelProfilerURLWait, ReadLine,
       Deliver, LockPool, GetConnection, LockClient, SendCommand, ReadReply, Receive, Timeout,
       Upload, OtherReport, Restart
  <1>1. SerialProf
    BY <1>0
  <1>2. ASSUME NEW r \in ProfRequests, NEW k \in {"start", "stop"}, NEW t \in Targets, Ask(r, k, t)
        PROVE  SerialProf'
    BY <1>1, <1>2, SerialAsk
  <1>3. ASSUME NEW r \in ProfRequests, LockPool(r) \/ LockClient(r) PROVE SerialProf'
    <2>1. PICK l \in {"look", "command"} : Goto(r, l)
      BY <1>3 DEF LockPool, LockClient
    <2>2. pc[r] \in {"pool", "send"} /\ Active(r)
          /\ UNCHANGED <<kind, target, urlChan, pendingURLs, reader, panicked, logLines, uploads,
                         result, stopped>>
      BY <1>3 DEF LockPool, LockClient, Active, askVars, chanVars, gameVars
    <2> QED
      BY <1>1, <2>1, <2>2, SerialMoves DEF Labels, Waiting
  <1>4. ASSUME NEW r \in ProfRequests, GetConnection(r) PROVE SerialProf'
    <2>1. PICK l \in {"send", Leaving(r)} : Goto(r, l)
      BY <1>4 DEF GetConnection
    <2>2. pc[r] = "look" /\ Active(r)
          /\ UNCHANGED <<kind, target, urlChan, pendingURLs, reader, panicked, logLines, uploads,
                         result, stopped>>
      BY <1>4 DEF GetConnection, Active, askVars, chanVars, gameVars
    <2>3. /\ l \in {"send", "cancel", "done"}
          /\ l = "cancel" => kind[r] = "stop"
          /\ kind[r] = "stop" => l # "done"
      BY <2>1 DEF Leaving
    <2> QED
      BY <1>1, <2>1, <2>2, <2>3, SerialMoves DEF Labels, Waiting
  <1>5. ASSUME NEW r \in ProfRequests, ReadReply(r) PROVE SerialProf'
    <2>1. PICK l \in {"select", "done"} : Goto(r, l) /\ (l = "select" <=> kind[r] = "stop")
      BY <1>5 DEF ReadReply
    <2>2. pc[r] = "reply" /\ Active(r)
          /\ UNCHANGED <<kind, target, urlChan, pendingURLs, reader, panicked, logLines, uploads,
                         result, stopped>>
      BY <1>5 DEF ReadReply, Active, askVars, chanVars, gameVars
    <2> QED
      BY <1>1, <2>1, <2>2, SerialMoves DEF Labels, Waiting
  <1>6. ~OtherReport
    BY DEF OtherReport
  <1>7. CASE UNCHANGED profVars
    BY <1>7, <1>1, SerialReport DEF profVars, askVars, chanVars, gameVars, SerialProf, NoReport, Report
  <1> QED
    BY <1>1, <1>2, <1>3, <1>4, <1>5, <1>6, <1>7, SerialWait, SerialCancel, SerialSend, SerialLeave,
       SerialLog, SMTT(30) DEF ProfNext, Serves, Targets

(* SerialProfileFound (spark/service.go, StopProfiler; logmanager.go): with  *)
(* requests that do not overlap and reports that come within the wait, a    *)
(* stop answers with its own profile's report, and no channel is closed     *)
(* under the log's reader, for any number of requests, restarts and failing *)
(* connections.                                                             *)
THEOREM SerialProfileFoundHolds == ProfSpec => []SerialProfileFound
  <1>1. ProfInit => ProfTypes /\ (~mixed => SerialProf)
    BY ProfInitTypes, SerialProfInit
  <1>2. ProfTypes /\ (~mixed => SerialProf) /\ [ProfNext]_profVars
            => ProfTypes' /\ (~mixed' => SerialProf')
    BY ProfTypesStep, SerialProfStep
  <1>3. ProfTypes /\ (~mixed => SerialProf) => SerialProfileFound
    BY DEF ProfTypes, SerialProf, StoppedWait, SerialProfileFound
  <1> QED
    BY <1>1, <1>2, <1>3, PTL DEF ProfSpec

-----------------------------------------------------------------------------
(***************************************************************************)
(* The migrations, for any number of servers, rows and crashes.  That no   *)
(* row is lost is not inductive: a table is dropped because the statement  *)
(* before it has copied its rows, and no jump over a group of statements   *)
(* lands behind the copy.                                                  *)
(***************************************************************************)

ServerCount == Cardinality(SchemaServers)

LEMMA ServerCountNat ==
  ServerCount \in Nat /\ SchemaServers = 1 .. ServerCount
  BY SchemaAssumption, FS_CardinalityType DEF ServerCount

(* Where RunMigrations alters and recreates tables, by number. *)
(* Where RunMigrations alters and recreates tables and migrates names. *)
LEMMA Layout ==
  /\ DOMAIN Program = 1 .. 26 + 2 * ServerCount /\ Len(Program) = 26 + 2 * ServerCount
  /\ Program[1] = Statement("tables", 0, "none")
  /\ \A i \in 1 .. 11 : Program[1 + i] = AlterStatements[i]
  /\ \A i \in 1 .. 6 : /\ Program[12 + i] = RecreateStatements(2)[i]
                      /\ Program[18 + i] = RecreateStatements(3)[i]
  /\ Program[25] = Statement("names", 0, "none")
  /\ \A k \in 1 .. 2 * ServerCount : Program[25 + k] = NameStatement(k)
  /\ Program[26 + 2 * ServerCount] = Statement("index", 0, "none")
  <1>1. \A i \in 1 .. 26 + 2 * ServerCount : Program[i] =
        CASE i = 1 -> Statement("tables", 0, "none")
          [] i \in 2 .. 12 -> AlterStatements[i - 1]
          [] i \in 13 .. 18 -> RecreateStatements(2)[i - 12]
          [] i \in 19 .. 24 -> RecreateStatements(3)[i - 18]
          [] i = 25 -> Statement("names", 0, "none")
          [] i = 26 + 2 * ServerCount -> Statement("index", 0, "none")
          [] OTHER -> NameStatement(i - 25)
    BY Zenon DEF Program, ServerCount
  <1>2. DOMAIN Program = 1 .. 26 + 2 * ServerCount
    BY DEF Program, ServerCount
  <1>2a. Len(Program) = 26 + 2 * ServerCount
    <2>1. Program \in Seq({Program[i] : i \in 1 .. 26 + 2 * ServerCount})
      <3>1. Program \in [1 .. 26 + 2 * ServerCount -> {Program[i] : i \in 1 .. 26 + 2 * ServerCount}]
        BY <1>2, Zenon DEF Program, ServerCount
      <3>2. 26 + 2 * ServerCount \in Nat
        BY ServerCountNat
      <3> QED
        BY <3>1, <3>2
    <2> QED
      BY <2>1, <1>2, ServerCountNat
  <1>3. ASSUME NEW i \in {1} PROVE Program[i] = Statement("tables", 0, "none")
    <2>1. /\ i \in 1 .. 26 + 2 * ServerCount
          /\ i \notin 2 .. 12
          /\ i \notin 13 .. 18
          /\ i \notin 19 .. 24
          /\ i # 25
          /\ i # 26 + 2 * ServerCount
      BY ServerCountNat
    <2> QED
      BY <1>1, <2>1, Zenon
  <1>3a. ASSUME NEW i \in {25} PROVE Program[i] = Statement("names", 0, "none")
    <2>1. /\ i \in 1 .. 26 + 2 * ServerCount
          /\ i # 1
          /\ i \notin 2 .. 12
          /\ i \notin 13 .. 18
          /\ i \notin 19 .. 24
          /\ i # 26 + 2 * ServerCount
      BY ServerCountNat
    <2> QED
      BY <1>1, <2>1, Zenon
  <1>4. ASSUME NEW i \in 2 .. 12 PROVE Program[i] = AlterStatements[i - 1]
    <2>1. /\ i \in 1 .. 26 + 2 * ServerCount
          /\ i # 1
          /\ i \notin 13 .. 18
          /\ i \notin 19 .. 24
          /\ i # 25
          /\ i # 26 + 2 * ServerCount
      BY ServerCountNat
    <2> QED
      BY <1>1, <2>1, Zenon
  <1>5. ASSUME NEW i \in 13 .. 18 PROVE Program[i] = RecreateStatements(2)[i - 12]
    <2>1. /\ i \in 1 .. 26 + 2 * ServerCount
          /\ i # 1
          /\ i \notin 2 .. 12
          /\ i \notin 19 .. 24
          /\ i # 25
          /\ i # 26 + 2 * ServerCount
      BY ServerCountNat
    <2> QED
      BY <1>1, <2>1, Zenon
  <1>6. ASSUME NEW i \in 19 .. 24 PROVE Program[i] = RecreateStatements(3)[i - 18]
    <2>1. /\ i \in 1 .. 26 + 2 * ServerCount
          /\ i # 1
          /\ i \notin 2 .. 12
          /\ i \notin 13 .. 18
          /\ i # 25
          /\ i # 26 + 2 * ServerCount
      BY ServerCountNat
    <2> QED
      BY <1>1, <2>1, Zenon
  <1>7. ASSUME NEW i \in 26 .. 25 + 2 * ServerCount PROVE Program[i] = NameStatement(i - 25)
    <2>1. /\ i \in 1 .. 26 + 2 * ServerCount
          /\ i # 1
          /\ i \notin 2 .. 12
          /\ i \notin 13 .. 18
          /\ i \notin 19 .. 24
          /\ i # 25
          /\ i # 26 + 2 * ServerCount
      BY ServerCountNat
    <2> QED
      BY <1>1, <2>1, Zenon
  <1>8. ASSUME NEW i \in {26 + 2 * ServerCount} PROVE Program[i] = Statement("index", 0, "none")
    <2>1. /\ i \in 1 .. 26 + 2 * ServerCount
          /\ i # 1
          /\ i \notin 2 .. 12
          /\ i \notin 13 .. 18
          /\ i \notin 19 .. 24
          /\ i # 25
      BY ServerCountNat
    <2> QED
      BY <1>1, <2>1, Zenon
  <1>7a. \A k \in 1 .. 2 * ServerCount : Program[25 + k] = NameStatement(k)
    <2> TAKE k \in 1 .. 2 * ServerCount
    <2>1. 25 + k \in 26 .. 25 + 2 * ServerCount /\ (25 + k) - 25 = k
      BY ServerCountNat
    <2> QED
      BY <1>7, <2>1, Zenon
  <1>9. \A i \in 1 .. 11 : Program[1 + i] = AlterStatements[i]
    BY <1>4
  <1>10. \A i \in 1 .. 6 : /\ Program[12 + i] = RecreateStatements(2)[i]
                            /\ Program[18 + i] = RecreateStatements(3)[i]
    BY <1>5, <1>6
  <1> QED
    BY <1>2, <1>2a, <1>3, <1>3a, <1>7a, <1>8, <1>9, <1>10

(* What there is at every number before the names. *)
LEMMA Opening ==
  /\ Program[2].op = "alter" /\ Program[2].v = 1
  /\ Program[3].op = "alter" /\ Program[3].v = 1
  /\ Program[4].op = "record" /\ Program[4].v = 1
  /\ Program[5].op = "alter" /\ Program[5].v = 4
  /\ Program[6].op = "record" /\ Program[6].v = 4
  /\ Program[7].op = "alter" /\ Program[7].v = 5
  /\ Program[8].op = "record" /\ Program[8].v = 5
  /\ Program[9].op = "alter" /\ Program[9].v = 6
  /\ Program[10].op = "record" /\ Program[10].v = 6
  /\ Program[11].op = "alter" /\ Program[11].v = 7
  /\ Program[12].op = "record" /\ Program[12].v = 7
  /\ Program[13].op = "test" /\ Program[13].v = 2
  /\ Program[14].op = "create" /\ Program[14].v = 2
  /\ Program[15].op = "copy" /\ Program[15].v = 2
  /\ Program[16].op = "drop" /\ Program[16].v = 2
  /\ Program[17].op = "rename" /\ Program[17].v = 2
  /\ Program[18].op = "recorded" /\ Program[18].v = 2
  /\ Program[19].op = "test" /\ Program[19].v = 3
  /\ Program[20].op = "create" /\ Program[20].v = 3
  /\ Program[21].op = "copy" /\ Program[21].v = 3
  /\ Program[22].op = "drop" /\ Program[22].v = 3
  /\ Program[23].op = "rename" /\ Program[23].v = 3
  /\ Program[24].op = "recorded" /\ Program[24].v = 3
  <1>1. /\ Program[2] = AlterStatements[1]
        /\ Program[3] = AlterStatements[2]
        /\ Program[4] = AlterStatements[3]
        /\ Program[5] = AlterStatements[4]
        /\ Program[6] = AlterStatements[5]
        /\ Program[7] = AlterStatements[6]
        /\ Program[8] = AlterStatements[7]
        /\ Program[9] = AlterStatements[8]
        /\ Program[10] = AlterStatements[9]
        /\ Program[11] = AlterStatements[10]
        /\ Program[12] = AlterStatements[11]
    <2>1. \A i \in 1 .. 11 : Program[1 + i] = AlterStatements[i]
      BY Layout
    <2> QED
      BY <2>1
  <1>2. /\ Program[13] = RecreateStatements(2)[1]
        /\ Program[14] = RecreateStatements(2)[2]
        /\ Program[15] = RecreateStatements(2)[3]
        /\ Program[16] = RecreateStatements(2)[4]
        /\ Program[17] = RecreateStatements(2)[5]
        /\ Program[18] = RecreateStatements(2)[6]
        /\ Program[19] = RecreateStatements(3)[1]
        /\ Program[20] = RecreateStatements(3)[2]
        /\ Program[21] = RecreateStatements(3)[3]
        /\ Program[22] = RecreateStatements(3)[4]
        /\ Program[23] = RecreateStatements(3)[5]
        /\ Program[24] = RecreateStatements(3)[6]
    <2>1. \A i \in 1 .. 6 : /\ Program[12 + i] = RecreateStatements(2)[i]
                            /\ Program[18 + i] = RecreateStatements(3)[i]
      BY Layout
    <2> QED
      BY <2>1
  <1>3. /\ AlterStatements[1].op = "alter" /\ AlterStatements[1].v = 1
        /\ AlterStatements[2].op = "alter" /\ AlterStatements[2].v = 1
        /\ AlterStatements[3].op = "record" /\ AlterStatements[3].v = 1
        /\ AlterStatements[4].op = "alter" /\ AlterStatements[4].v = 4
        /\ AlterStatements[5].op = "record" /\ AlterStatements[5].v = 4
        /\ AlterStatements[6].op = "alter" /\ AlterStatements[6].v = 5
        /\ AlterStatements[7].op = "record" /\ AlterStatements[7].v = 5
        /\ AlterStatements[8].op = "alter" /\ AlterStatements[8].v = 6
        /\ AlterStatements[9].op = "record" /\ AlterStatements[9].v = 6
        /\ AlterStatements[10].op = "alter" /\ AlterStatements[10].v = 7
        /\ AlterStatements[11].op = "record" /\ AlterStatements[11].v = 7
    BY DEF AlterStatements, Statement
  <1>4. ASSUME NEW v \in {2, 3}
        PROVE  /\ RecreateStatements(v)[1].op = "test" /\ RecreateStatements(v)[1].v = v
               /\ RecreateStatements(v)[2].op = "create" /\ RecreateStatements(v)[2].v = v
               /\ RecreateStatements(v)[3].op = "copy" /\ RecreateStatements(v)[3].v = v
               /\ RecreateStatements(v)[4].op = "drop" /\ RecreateStatements(v)[4].v = v
               /\ RecreateStatements(v)[5].op = "rename" /\ RecreateStatements(v)[5].v = v
               /\ RecreateStatements(v)[6].op = "recorded" /\ RecreateStatements(v)[6].v = v
    BY DEF RecreateStatements, Statement
  <1> QED
    BY <1>1, <1>2, <1>3, <1>4

(* A statement of a recreation follows on the one before it: no jump lands  *)
(* on it.                                                                   *)
LEMMA Groups ==
  ASSUME NEW i \in DOMAIN Program
  PROVE  /\ Program[i].op = "tables" => i = 1
         /\ Program[i].op \in {"alter", "record"} => i \in 2 .. 12
         /\ Program[i].op \in {"test", "create", "copy", "drop", "rename", "recorded"} =>
                i \in 13 .. 24 /\ Program[i].v \in {2, 3}
         /\ Program[i].op \in {"create", "copy", "drop", "rename", "recorded"} =>
                i \in 14 .. 24 /\ Program[i - 1].v = Program[i].v
         /\ Program[i].op = "copy" => Program[i - 1].op = "create"
         /\ Program[i].op = "drop" => Program[i - 1].op = "copy"
         /\ Program[i].op = "rename" => Program[i - 1].op = "drop"
         /\ Program[i].op = "drop" => Program[i + 1].op = "rename" /\ Program[i + 1].v = Program[i].v
         /\ Program[i].op = "names" => i = 25
         /\ Program[i].op = "index" => i = 26 + 2 * ServerCount
         /\ Program[i].op = "sanitize" => Program[i].v \in SchemaServers /\ i = 24 + 2 * Program[i].v
         /\ Program[i].op = "move" => Program[i].v \in SchemaServers /\ i = 25 + 2 * Program[i].v
         /\ i \in 1 .. 25 => Program[i].op \notin {"sanitize", "move", "index"}
  <1>1. CASE i = 1
    <2>1. Program[i] = Statement("tables", 0, "none")
      BY <1>1, Layout
    <2> QED
      BY <1>1, <2>1 DEF Statement
  <1>2. CASE i \in 2 .. 24
    BY <1>2, Opening
  <1>5. CASE i = 25
    <2>1. Program[i] = Statement("names", 0, "none")
      BY <1>5, Layout
    <2> QED
      BY <1>5, <2>1 DEF Statement
  <1>6. CASE i \in 26 .. 25 + 2 * ServerCount
    <2>1. PICK k \in 1 .. 2 * ServerCount : i = 25 + k
      BY <1>6, ServerCountNat
    <2>2. /\ Program[i].op = IF k % 2 = 1 THEN "sanitize" ELSE "move"
          /\ Program[i].v = (k + 1) \div 2
      <3>1. Program[25 + k] = NameStatement(k)
        BY Layout
      <3> QED
        BY <3>1, <2>1 DEF NameStatement, Statement
    <2>3. Program[i].v \in SchemaServers
      BY <2>2, ServerCountNat
    <2>4. k % 2 = 1 => k = 2 * ((k + 1) \div 2) - 1
      OBVIOUS
    <2>5. k % 2 # 1 => k = 2 * ((k + 1) \div 2)
      OBVIOUS
    <2>6. /\ Program[i].op = "sanitize" => i = 24 + 2 * Program[i].v
          /\ Program[i].op = "move" => i = 25 + 2 * Program[i].v
      BY <2>1, <2>2, <2>4, <2>5
    <2>7. Program[i].op \in {"sanitize", "move"} /\ i \notin 1 .. 25
      <3>1. i \notin 1 .. 25
        BY <1>6
      <3>2. Program[i].op \in {"sanitize", "move"}
        BY <2>2, Zenon
      <3> QED
        BY <3>1, <3>2
    <2> QED
      BY <2>3, <2>6, <2>7
  <1>7. CASE i = 26 + 2 * ServerCount
    <2>1. Program[i] = Statement("index", 0, "none")
      BY <1>7, Layout
    <2> QED
      BY <1>7, <2>1, ServerCountNat DEF Statement
  <1>8. i \in 1 .. 26 + 2 * ServerCount
    BY Layout
  <1> QED
    <2>1. i \in 26 .. 25 + 2 * ServerCount \/ i = 26 + 2 * ServerCount \/ i = 1 \/ i \in 2 .. 24 \/ i = 25
      <3>1. ServerCount \in Nat
        BY ServerCountNat
      <3> QED
        BY <1>8, <3>1
    <2> QED
      BY <1>1, <1>2, <1>5, <1>6, <1>7, <2>1

LEMMA Jump ==
  ASSUME stmt \in 2 .. 24
  PROVE  /\ NextGroup \in stmt + 1 .. Len(Program)
         /\ Program[NextGroup].v # V /\ Program[NextGroup - 1].v = V
         /\ NextGroup <= 25
  <1> DEFINE GroupEnds(i) == /\ Program[i].v # V
                        /\ \A k \in stmt + 1 .. i - 1 : Program[k].v = V
  <1>0. Len(Program) \in Nat /\ Len(Program) >= 26 /\ Program[25].v = 0
    BY ServerCountNat, Layout DEF Statement
  <1>0a. \A i \in 13 .. 18 : Program[i].v = 2
    BY Opening
  <1>0b. \A i \in 19 .. 24 : Program[i].v = 3
    BY Opening
  <1>1. \E i \in stmt + 1 .. Len(Program) : GroupEnds(i)
    <2>1. CASE stmt \in 2 .. 4
      <3>1. GroupEnds(5)
        BY <2>1, Opening DEF V
      <3> HIDE DEF GroupEnds
      <3> QED
        BY <3>1, <2>1, <1>0
    <2>2. CASE stmt \in 5 .. 6
      <3>1. GroupEnds(7)
        BY <2>2, Opening DEF V
      <3> HIDE DEF GroupEnds
      <3> QED
        BY <3>1, <2>2, <1>0
    <2>3. CASE stmt \in 7 .. 8
      <3>1. GroupEnds(9)
        BY <2>3, Opening DEF V
      <3> HIDE DEF GroupEnds
      <3> QED
        BY <3>1, <2>3, <1>0
    <2>4. CASE stmt \in 9 .. 10
      <3>1. GroupEnds(11)
        BY <2>4, Opening DEF V
      <3> HIDE DEF GroupEnds
      <3> QED
        BY <3>1, <2>4, <1>0
    <2>5. CASE stmt \in 11 .. 12
      <3>1. GroupEnds(13)
        BY <2>5, Opening DEF V
      <3> HIDE DEF GroupEnds
      <3> QED
        BY <3>1, <2>5, <1>0
    <2>6. CASE stmt \in 13 .. 18
      <3>1. GroupEnds(19)
        BY <2>6, <1>0a, <1>0b DEF V
      <3> HIDE DEF GroupEnds
      <3> QED
        BY <3>1, <2>6, <1>0
    <2>7. CASE stmt \in 19 .. 24
      <3>0. V = 3 /\ Program[25].v # 3
        BY <2>7, <1>0, <1>0b DEF V
      <3>1. GroupEnds(25)
        <4>1. \A k \in stmt + 1 .. 24 : Program[k].v = 3
          <5>1. SUFFICES ASSUME NEW k \in stmt + 1 .. 24 PROVE Program[k].v = 3
            OBVIOUS
          <5>2. k \in 19 .. 24
            BY <2>7
          <5> QED
            BY <5>2, <1>0b, Zenon
        <4>2. 25 - 1 = 24
          OBVIOUS
        <4> QED
          BY <3>0, <4>1, <4>2, Zenon
      <3> HIDE DEF GroupEnds
      <3> QED
        BY <3>1, <2>7, <1>0
    <2> QED
      BY <2>1, <2>2, <2>3, <2>4, <2>5, <2>6, <2>7
  <1>2. NextGroup = CHOOSE i \in stmt + 1 .. Len(Program) : GroupEnds(i)
    BY Zenon DEF NextGroup
  <1>3. NextGroup \in stmt + 1 .. Len(Program) /\ GroupEnds(NextGroup)
    <2> HIDE DEF GroupEnds
    <2> QED
      BY <1>1, <1>2, Zenon
  <1>4. NextGroup - 1 = stmt \/ NextGroup - 1 \in stmt + 1 .. NextGroup - 1
    BY <1>3, <1>0
  <1>5. NextGroup <= 25
    <2>1. V # 0
      BY Opening DEF V
    <2>0. NextGroup \in Nat /\ stmt \in Nat /\ stmt + 1 <= 25
      <3>1. stmt \in Nat /\ stmt + 1 <= 25
        OBVIOUS
      <3>2. NextGroup \in stmt + 1 .. Len(Program)
        BY <1>3
      <3> QED
        BY <3>1, <3>2, <1>0
    <2>2. NextGroup > 25 => 25 \in stmt + 1 .. NextGroup - 1
      BY <2>0
    <2> QED
      BY <2>0, <2>1, <2>2, <1>3, <1>0
  <1> QED
    BY <1>3, <1>4, <1>5 DEF V

(* A boot's statements that move rows, by where they stand. *)
SchemaTypeOK ==
    /\ stmt \in 0 .. Len(Program) + 1
    /\ tables \in [Tables -> {SchemaNone} \cup Constrained]
    /\ older \in [Tables -> SUBSET SchemaRows]

OldThere ==
    \A v \in {2, 3} :
        stmt > 1 => tables[Recreated[v].old] # SchemaNone \/ (At("rename") /\ V = v)

CopyReady == At("copy") => tables[New] = [strict |-> TRUE, rows |-> {}]

KeptInNew == At("drop") \/ At("rename") => Holds(New, older[Old])

RowsInv == SchemaTypeOK /\ RowsKept /\ OldThere /\ CopyReady /\ KeptInNew

LEMMA Names23 ==
  ASSUME NEW v \in {2, 3}
  PROVE  /\ Recreated[v].old \in Tables /\ Recreated[v].new \in Tables
         /\ Recreated[v].old # Recreated[v].new
         /\ Recreated[v].old = IF v = 2 THEN "players" ELSE "backups"
         /\ \A w \in {2, 3} : v # w =>
              /\ Recreated[v].old # Recreated[w].old /\ Recreated[v].old # Recreated[w].new
              /\ Recreated[v].new # Recreated[w].old /\ Recreated[v].new # Recreated[w].new
  BY DEF Recreated, Tables

(* Where the statement at hand is not the landing place of a jump or of a   *)
(* statement of another kind. *)
LEMMA Landing ==
  ASSUME stmt \in DOMAIN Program,
         \/ /\ stmt' = stmt + 1 /\ Program[stmt].op \notin {"create", "copy", "drop"}
         \/ /\ stmt \in 2 .. 24 /\ stmt' = NextGroup
  PROVE  ~At("copy")' /\ ~At("drop")' /\ ~At("rename")'
  <1>1. ASSUME At("copy")' \/ At("drop")' \/ At("rename")' PROVE FALSE
    <2>1. stmt' \in DOMAIN Program /\ Program[stmt'].op \in {"copy", "drop", "rename"}
      BY <1>1 DEF At
    <2>2. /\ Program[stmt' - 1].op \in {"create", "copy", "drop"}
          /\ Program[stmt' - 1].v = Program[stmt'].v
      BY <2>1, Groups
    <2>3. stmt \in Int /\ Len(Program) \in Nat
      BY Layout, ServerCountNat
    <2>4. CASE stmt' = stmt + 1 /\ Program[stmt].op \notin {"create", "copy", "drop"}
      BY <2>4, <2>2, <2>3
    <2>5. CASE stmt \in 2 .. 24 /\ stmt' = NextGroup
      BY <2>5, <2>2, Jump
    <2> QED
      BY <2>4, <2>5
  <1> QED
    BY <1>1

(* A statement that leaves the rows alone. *)
LEMMA RowsAlone ==
  ASSUME RowsInv, UNCHANGED <<tables, older>>, stmt' \in 0 .. Len(Program) + 1,
         ~At("rename"), stmt' > 1 => stmt > 1,
         ~At("copy")', ~At("drop")', ~At("rename")'
  PROVE  RowsInv'
  <1>1. SchemaTypeOK'
    BY DEF RowsInv, SchemaTypeOK
  <1>2. RowsKept'
    BY Zenon DEF RowsInv, RowsKept, Holds
  <1>3. OldThere'
    BY DEF RowsInv, OldThere
  <1>4. CopyReady' /\ KeptInNew'
    BY DEF CopyReady, KeptInNew
  <1> QED
    BY <1>1, <1>2, <1>3, <1>4 DEF RowsInv

(* The statement at hand of a recreation. *)
LEMMA AtRecreation ==
  ASSUME stmt \in DOMAIN Program,
         Program[stmt].op \in {"test", "create", "copy", "drop", "rename", "recorded"}
  PROVE  /\ V \in {2, 3} /\ stmt \in 13 .. 24 /\ Old = Recreated[V].old /\ New = Recreated[V].new
         /\ Old \in Tables /\ New \in Tables /\ Old # New
         /\ \A v \in {2, 3} : v # V =>
              /\ Recreated[v].old # Old /\ Recreated[v].old # New
              /\ Recreated[v].new # Old /\ Recreated[v].new # New
  BY Groups, Names23, Zenon DEF V, Old, New

LEMMA InitRows == SchemaInit => RowsInv
  <1> SUFFICES ASSUME SchemaInit PROVE RowsInv
    OBVIOUS
  <1>1. Len(Program) \in Nat
    BY Layout, ServerCountNat
  <1>2. tables \in [Tables -> {SchemaNone} \cup Constrained]
    <2>1. CASE OldDatabase
      <3>1. PICK dup \in BOOLEAN : tables = [t \in Tables |->
                CASE t = "players" -> [strict |-> version >= 2, rows |-> Rows(dup)]
                  [] t = "backups" -> [strict |-> version >= 3, rows |-> Rows(FALSE)]
                  [] OTHER -> SchemaNone]
        BY <2>1 DEF OldDatabase
      <3>2. \A b \in BOOLEAN : Rows(b) \subseteq SchemaRows
        BY DEF Rows, SchemaRows
      <3>3. [strict |-> version >= 2, rows |-> Rows(dup)] \in Constrained
            /\ [strict |-> version >= 3, rows |-> Rows(FALSE)] \in Constrained
        <4>1. \A b \in BOOLEAN, r \in SUBSET SchemaRows : [strict |-> b, rows |-> r] \in Constrained
          BY DEF Constrained
        <4>2. (version >= 2) \in BOOLEAN /\ (version >= 3) \in BOOLEAN
          BY <2>1, SchemaAssumption DEF OldDatabase
        <4> QED
          BY <4>1, <4>2, <3>2
      <3> DEFINE p == [strict |-> version >= 2, rows |-> Rows(dup)]
                 b == [strict |-> version >= 3, rows |-> Rows(FALSE)]
      <3>4. /\ DOMAIN tables = Tables /\ tables = [t \in Tables |-> tables[t]]
            /\ tables["players"] = p /\ tables["backups"] = b
            /\ tables["players_new"] = SchemaNone /\ tables["backups_new"] = SchemaNone
        BY <3>1 DEF Tables
      <3> HIDE DEF p, b
      <3>5. p \in Constrained /\ b \in Constrained
        BY <3>3 DEF p, b
      <3> QED
        BY <3>4, <3>5 DEF Tables
    <2>2. CASE FreshDatabase
      BY <2>2 DEF FreshDatabase
    <2> QED
      BY <2>1, <2>2 DEF SchemaInit
  <1>3. older = [t \in Tables |-> IF tables[t] = SchemaNone THEN {} ELSE tables[t].rows]
    BY DEF SchemaInit
  <1>4. \A t \in Tables : tables[t] # SchemaNone => tables[t].rows \subseteq SchemaRows
    BY <1>2 DEF Constrained
  <1>5. older \in [Tables -> SUBSET SchemaRows]
    BY <1>3, <1>4
  <1>6. RowsKept
    <2> SUFFICES ASSUME NEW v \in {2, 3}
                 PROVE  \/ older[Recreated[v].old] = {}
                        \/ Holds(Recreated[v].old, older[Recreated[v].old])
      BY Zenon DEF RowsKept
    <2> QED
      BY <1>3, Names23 DEF Holds
  <1>7. stmt = 0
    BY DEF SchemaInit
  <1>8. ~At("copy") /\ ~At("drop") /\ ~At("rename")
    BY <1>7, Layout DEF At
  <1> QED
    BY <1>1, <1>2, <1>5, <1>6, <1>7, <1>8
    DEF RowsInv, SchemaTypeOK, OldThere, CopyReady, KeptInNew

LEMMA CreateTablesRows == RowsInv /\ CreateTables => RowsInv'
  <1> SUFFICES ASSUME RowsInv, CreateTables PROVE RowsInv'
    OBVIOUS
  <1>1. stmt = 1 /\ stmt' = 2 /\ stmt \in DOMAIN Program /\ Program[stmt].op = "tables"
        /\ 2 \in 0 .. Len(Program) + 1
    <2>1. stmt \in DOMAIN Program /\ Program[stmt].op = "tables" /\ stmt' = stmt + 1
      BY DEF CreateTables, At, Onward
    <2>2. stmt = 1
      BY <2>1, Groups
    <2>3. Len(Program) = 26 + 2 * ServerCount /\ ServerCount \in Nat
      BY Layout, ServerCountNat
    <2> QED
      BY <2>1, <2>2, <2>3
  <1>2. older' = older
    BY DEF CreateTables
  <1>3. tables' = [t \in Tables |->
            IF tables[t] # SchemaNone \/ t \notin {"players", "backups"} THEN tables[t]
            ELSE [strict |-> t = "backups", rows |-> {}]]
    BY DEF CreateTables
  <1>4. SchemaTypeOK'
    <2>1. \A b \in BOOLEAN : [strict |-> b, rows |-> {}] \in Constrained
      BY DEF Constrained
    <2>2. \A t \in Tables : tables[t] \in {SchemaNone} \cup Constrained
      BY DEF RowsInv, SchemaTypeOK
    <2>3. \A t \in Tables : tables'[t] \in {SchemaNone} \cup Constrained
      BY <1>3, <2>1, <2>2
    <2>4. tables' \in [Tables -> {SchemaNone} \cup Constrained]
      BY <1>3, <2>3
    <2> QED
      BY <2>4, <1>1, <1>2 DEF RowsInv, SchemaTypeOK
  <1>5. \A t \in Tables : tables[t] # SchemaNone => tables'[t] = tables[t]
    BY <1>3
  <1>6. RowsKept'
    <2> SUFFICES ASSUME NEW v \in {2, 3}
                 PROVE  (\/ older[Recreated[v].old] = {}
                         \/ Holds(Recreated[v].old, older[Recreated[v].old])
                         \/ Holds(Recreated[v].new, older[Recreated[v].old]))'
      BY Zenon DEF RowsKept
    <2>1. \/ older[Recreated[v].old] = {}
          \/ Holds(Recreated[v].old, older[Recreated[v].old])
          \/ Holds(Recreated[v].new, older[Recreated[v].old])
      BY Zenon DEF RowsInv, RowsKept
    <2> QED
      BY <2>1, <1>2, <1>5, Names23, Zenon DEF Holds
  <1>7. OldThere'
    <2> SUFFICES ASSUME NEW v \in {2, 3} PROVE tables'[Recreated[v].old] # SchemaNone
      BY DEF OldThere
    <2>1. [strict |-> Recreated[v].old = "backups", rows |-> {}] # SchemaNone
      <3>1. (Recreated[v].old = "backups") \in BOOLEAN /\ {} \in SUBSET SchemaRows
        OBVIOUS
      <3>2. [strict |-> Recreated[v].old = "backups", rows |-> {}] \in Constrained
        BY <3>1 DEF Constrained
      <3> QED
        BY <3>2, SchemaAssumption
    <2>2. Recreated[v].old \in Tables /\ Recreated[v].old \in {"players", "backups"}
      BY Names23
    <2> QED
      BY <2>1, <2>2, <1>3
  <1>8. ~At("copy")' /\ ~At("drop")' /\ ~At("rename")'
    BY <1>1, Opening DEF At
  <1> QED
    BY <1>4, <1>6, <1>7, <1>8 DEF RowsInv, CopyReady, KeptInNew

LEMMA CreateNewRows == RowsInv /\ CreateNew => RowsInv'
  <1> SUFFICES ASSUME RowsInv, CreateNew PROVE RowsInv'
    OBVIOUS
  <1>1. stmt \in DOMAIN Program /\ Program[stmt].op = "create" /\ older' = older
    BY DEF CreateNew, At
  <1>2. /\ V \in {2, 3} /\ stmt \in 13 .. 24 /\ Old = Recreated[V].old /\ New = Recreated[V].new
        /\ Old \in Tables /\ New \in Tables /\ Old # New
    BY <1>1, AtRecreation
  <1>2a. \A v \in {2, 3} : v # V =>
              /\ Recreated[v].old # Old /\ Recreated[v].old # New
              /\ Recreated[v].new # Old /\ Recreated[v].new # New
    BY <1>1, AtRecreation
  <1>3. ~At("rename")
    BY <1>1 DEF At
  <1>4. stmt + 1 \in 0 .. Len(Program) + 1 /\ NextGroup \in 0 .. Len(Program) + 1
    <2>1. Len(Program) = 26 + 2 * ServerCount /\ ServerCount \in Nat
      BY Layout, ServerCountNat
    <2>2. NextGroup \in stmt + 1 .. Len(Program)
      BY <1>2, Jump
    <2>3. stmt \in Int /\ stmt + 1 \in 0 .. Len(Program) + 1
      BY <1>2, <2>1
    <2> QED
      BY <1>2, <2>1, <2>2, <2>3
  <1>5. CASE tables[New] # SchemaNone
    <2>1. stmt' = NextGroup /\ UNCHANGED <<tables, older>>
      BY <1>5 DEF CreateNew
    <2>2. ~At("copy")' /\ ~At("drop")' /\ ~At("rename")'
      BY <2>1, <1>1, <1>2, Landing
    <2> QED
      BY <2>1, <2>2, <1>2, <1>3, <1>4, RowsAlone
  <1>6. CASE tables[New] = SchemaNone
    <2> DEFINE y == [strict |-> TRUE, rows |-> {}]
    <2>1. stmt' = stmt + 1 /\ tables' = [tables EXCEPT ![New] = y]
      BY <1>6 DEF CreateNew, Onward
    <2>2. y \in Constrained
      BY DEF Constrained
    <2>2a. tables \in [Tables -> {SchemaNone} \cup Constrained] /\ older \in [Tables -> SUBSET SchemaRows]
      BY DEF RowsInv, SchemaTypeOK
    <2> HIDE DEF y
    <2>3. SchemaTypeOK'
      BY <2>1, <2>2, <2>2a, <1>1, <1>4 DEF SchemaTypeOK
    <2>4. \A t \in Tables \ {New} : tables'[t] = tables[t]
      BY <2>1, <2>2a
    <2>4a. tables'[New] = y
      BY <2>1, <2>2a, <1>2
    <2>5. RowsKept'
      <3> SUFFICES ASSUME NEW v \in {2, 3}
                   PROVE  (\/ older[Recreated[v].old] = {}
                           \/ Holds(Recreated[v].old, older[Recreated[v].old])
                           \/ Holds(Recreated[v].new, older[Recreated[v].old]))'
        BY Zenon DEF RowsKept
      <3>1. \/ older[Recreated[v].old] = {}
            \/ Holds(Recreated[v].old, older[Recreated[v].old])
            \/ Holds(Recreated[v].new, older[Recreated[v].old])
        BY Zenon DEF RowsInv, RowsKept
      <3>2. Recreated[v].old # New /\ (v # V => Recreated[v].new # New)
        BY <1>2, <1>2a
      <3>3. Holds(Recreated[v].new, older[Recreated[v].old]) => v # V
        BY <1>2, <1>6 DEF Holds
      <3> QED
        BY <3>1, <3>2, <3>3, <2>4, <1>1, Names23 DEF Holds
    <2>6. OldThere'
      <3> SUFFICES ASSUME NEW v \in {2, 3} PROVE tables'[Recreated[v].old] # SchemaNone
        BY DEF OldThere
      <3>1. tables[Recreated[v].old] # SchemaNone
        BY <1>2, <1>3 DEF RowsInv, OldThere
      <3>2. Recreated[v].old # New
        BY <1>2, <1>2a
      <3> QED
        BY <3>1, <3>2, <2>4, Names23
    <2>7. CopyReady'
      <3> SUFFICES ASSUME At("copy")' PROVE tables'[New'] = y
        BY DEF CopyReady, y
      <3>1. Program[stmt'].v = Program[stmt' - 1].v /\ stmt' - 1 = stmt
        <4>1. stmt' \in DOMAIN Program /\ Program[stmt'].op = "copy"
          BY DEF At
        <4> QED
          BY <4>1, Groups, <2>1, <1>2
      <3>2. New' = New
        BY <3>1 DEF New, V
      <3> QED
        BY <3>2, <2>4a
    <2>8. KeptInNew'
      <3>1. ASSUME At("drop")' \/ At("rename")' PROVE FALSE
        <4>1. stmt' \in DOMAIN Program /\ Program[stmt'].op \in {"drop", "rename"}
          BY <3>1 DEF At
        <4>2. Program[stmt' - 1].op \in {"copy", "drop"} /\ stmt' - 1 = stmt
          BY <4>1, Groups, <2>1, <1>2
        <4> QED
          BY <4>2, <1>1
      <3> QED
        BY <3>1 DEF KeptInNew
    <2> QED
      BY <2>3, <2>5, <2>6, <2>7, <2>8 DEF RowsInv
  <1> QED
    BY <1>5, <1>6

LEMMA CopyDataRows == RowsInv /\ CopyData => RowsInv'
  <1> SUFFICES ASSUME RowsInv, CopyData PROVE RowsInv'
    OBVIOUS
  <1>1. stmt \in DOMAIN Program /\ Program[stmt].op = "copy" /\ older' = older /\ At("copy")
    BY DEF CopyData, At
  <1>2. /\ V \in {2, 3} /\ stmt \in 13 .. 24 /\ Old = Recreated[V].old /\ New = Recreated[V].new
        /\ Old \in Tables /\ New \in Tables /\ Old # New
    BY <1>1, AtRecreation
  <1>2a. \A v \in {2, 3} : v # V =>
              /\ Recreated[v].old # Old /\ Recreated[v].old # New
              /\ Recreated[v].new # Old /\ Recreated[v].new # New
    BY <1>1, AtRecreation
  <1>3. ~At("rename")
    BY <1>1 DEF At
  <1>4. stmt + 1 \in 0 .. Len(Program) + 1 /\ NextGroup \in 0 .. Len(Program) + 1
    <2>1. Len(Program) = 26 + 2 * ServerCount /\ ServerCount \in Nat
      BY Layout, ServerCountNat
    <2>2. NextGroup \in stmt + 1 .. Len(Program)
      BY <1>2, Jump
    <2> QED
      BY <1>2, <2>1, <2>2
  <1>5. tables[New] = [strict |-> TRUE, rows |-> {}]
    BY <1>1 DEF RowsInv, CopyReady
  <1>6. tables \in [Tables -> {SchemaNone} \cup Constrained] /\ older \in [Tables -> SUBSET SchemaRows]
    BY DEF RowsInv, SchemaTypeOK
  <1>7. \A v \in {2, 3} : tables[Recreated[v].old] # SchemaNone
    BY <1>2, <1>3 DEF RowsInv, OldThere
  <1>8. older[Old] = {} \/ Holds(Old, older[Old])
    <2>1. \/ older[Old] = {} \/ Holds(Old, older[Old]) \/ Holds(New, older[Old])
      BY <1>2, Zenon DEF RowsInv, RowsKept
    <2>2. Holds(New, older[Old]) => older[Old] = {}
      BY <1>5 DEF Holds
    <2> QED
      BY <2>1, <2>2
  <1>9. tables[Old] \in Constrained /\ tables[Old].rows \in SUBSET SchemaRows
        /\ older[Old] \subseteq tables[Old].rows
    <2>1. tables[Old] \in Constrained
      BY <1>2, <1>6, <1>7
    <2>2. tables[Old].rows \in SUBSET SchemaRows
      BY <2>1 DEF Constrained
    <2> QED
      BY <2>1, <2>2, <1>8 DEF Holds
  <1> DEFINE y == [strict |-> TRUE, rows |-> tables[Old].rows]
  <1>10. (\/ stmt' = stmt + 1 /\ tables' = [tables EXCEPT ![New] = y]
          \/ stmt' = NextGroup /\ tables' = [tables EXCEPT ![New] = SchemaNone])
    <2>1. CASE Copies(tables[Old].rows)
      BY <2>1 DEF CopyData, Onward
    <2>2. CASE ~Copies(tables[Old].rows)
      BY <2>2 DEF CopyData
    <2> QED
      BY <2>1, <2>2
  <1>11. y \in Constrained /\ y.rows = tables[Old].rows /\ y # SchemaNone
    <2>1. \A r \in SUBSET SchemaRows : [strict |-> TRUE, rows |-> r] \in Constrained
      BY DEF Constrained
    <2>2. y \in Constrained
      BY <2>1, <1>9
    <2> QED
      BY <2>2, SchemaAssumption
  <1> HIDE DEF y
  <1>12. SchemaTypeOK'
    BY <1>10, <1>11, <1>6, <1>1, <1>4 DEF SchemaTypeOK
  <1>13. \A t \in Tables \ {New} : tables'[t] = tables[t]
    BY <1>10, <1>6
  <1>14. RowsKept'
    <2> SUFFICES ASSUME NEW v \in {2, 3}
                 PROVE  (\/ older[Recreated[v].old] = {}
                         \/ Holds(Recreated[v].old, older[Recreated[v].old])
                         \/ Holds(Recreated[v].new, older[Recreated[v].old]))'
      BY Zenon DEF RowsKept
    <2>1. \/ older[Recreated[v].old] = {}
          \/ Holds(Recreated[v].old, older[Recreated[v].old])
          \/ v # V /\ Holds(Recreated[v].new, older[Recreated[v].old])
      BY <1>8, <1>2, Zenon DEF RowsInv, RowsKept
    <2>2. Recreated[v].old # New /\ (v # V => Recreated[v].new # New)
      BY <1>2, <1>2a
    <2> QED
      BY <2>1, <2>2, <1>13, <1>1, Names23 DEF Holds
  <1>15. OldThere'
    <2> SUFFICES ASSUME NEW v \in {2, 3} PROVE tables'[Recreated[v].old] # SchemaNone
      BY DEF OldThere
    <2>1. Recreated[v].old # New
      BY <1>2, <1>2a
    <2> QED
      BY <2>1, <1>7, <1>13, Names23
  <1>16. CASE stmt' = NextGroup
    <2>1. ~At("copy")' /\ ~At("drop")' /\ ~At("rename")'
      BY <1>16, <1>1, <1>2, Landing
    <2> QED
      BY <2>1, <1>12, <1>14, <1>15 DEF RowsInv, CopyReady, KeptInNew
  <1>17. CASE stmt' = stmt + 1 /\ tables' = [tables EXCEPT ![New] = y]
    <2>1. ASSUME NEW o \in {"copy", "rename"}, At(o)' PROVE FALSE
      <3>1. stmt' \in DOMAIN Program /\ Program[stmt'].op = o
        BY <2>1 DEF At
      <3>2. Program[stmt' - 1].op \in {"create", "drop"} /\ stmt' - 1 = stmt
        BY <3>1, <2>1, Groups, <1>17, <1>2
      <3> QED
        BY <3>2, <1>1
    <2>2. ASSUME At("drop")' PROVE Holds(New, older[Old])'
      <3>1. stmt' \in DOMAIN Program /\ Program[stmt'].op = "drop"
        BY <2>2 DEF At
      <3>2. Program[stmt'].v = Program[stmt' - 1].v /\ stmt' - 1 = stmt
        BY <3>1, Groups, <1>17, <1>2
      <3>3. New' = New /\ Old' = Old
        BY <3>2 DEF New, Old, V
      <3>4. tables'[New] = y
        BY <1>17, <1>6, <1>2
      <3>5. y # SchemaNone /\ older[Old] \subseteq y.rows
        BY <1>9, <1>11
      <3> QED
        BY <3>3, <3>4, <3>5, <1>1, Zenon DEF Holds
    <2> QED
      BY <2>1, <2>2, <1>12, <1>14, <1>15 DEF RowsInv, CopyReady, KeptInNew
  <1> QED
    BY <1>10, <1>16, <1>17

LEMMA DropOldRows == RowsInv /\ DropOld => RowsInv'
  <1> SUFFICES ASSUME RowsInv, DropOld PROVE RowsInv'
    OBVIOUS
  <1>1. stmt \in DOMAIN Program /\ Program[stmt].op = "drop" /\ older' = older /\ At("drop")
        /\ stmt' = stmt + 1 /\ tables' = [tables EXCEPT ![Old] = SchemaNone]
    BY DEF DropOld, At, Onward
  <1>2. /\ V \in {2, 3} /\ stmt \in 13 .. 24 /\ Old = Recreated[V].old /\ New = Recreated[V].new
        /\ Old \in Tables /\ New \in Tables /\ Old # New
    BY <1>1, AtRecreation
  <1>2a. \A v \in {2, 3} : v # V =>
              /\ Recreated[v].old # Old /\ Recreated[v].old # New
              /\ Recreated[v].new # Old /\ Recreated[v].new # New
    BY <1>1, AtRecreation
  <1>3. ~At("rename")
    BY <1>1 DEF At
  <1>4. stmt' \in DOMAIN Program /\ stmt' \in 0 .. Len(Program) + 1
        /\ Program[stmt'].op = "rename" /\ Program[stmt'].v = V
    <2>1. Len(Program) = 26 + 2 * ServerCount /\ ServerCount \in Nat
          /\ DOMAIN Program = 1 .. 26 + 2 * ServerCount
      BY Layout, ServerCountNat
    <2>2. Program[stmt + 1].op = "rename" /\ Program[stmt + 1].v = Program[stmt].v
      BY <1>1, Groups
    <2> QED
      BY <2>1, <2>2, <1>1, <1>2 DEF V
  <1>4a. V' = V /\ New' = New /\ Old' = Old
    BY <1>4, Zenon DEF New, Old, V
  <1>5. Holds(New, older[Old])
    BY <1>1 DEF RowsInv, KeptInNew
  <1>6. tables \in [Tables -> {SchemaNone} \cup Constrained] /\ older \in [Tables -> SUBSET SchemaRows]
    BY DEF RowsInv, SchemaTypeOK
  <1>7. \A t \in Tables \ {Old} : tables'[t] = tables[t]
    BY <1>1, <1>6
  <1>8. SchemaTypeOK'
    BY <1>1, <1>4, <1>6 DEF SchemaTypeOK
  <1>9. KeptInNew' /\ CopyReady'
    <2>1. Holds(New, older[Old])'
      BY <1>5, <1>4a, <1>7, <1>1, <1>2 DEF Holds
    <2> QED
      BY <2>1, <1>4 DEF KeptInNew, CopyReady, At
  <1>10. RowsKept'
    <2> SUFFICES ASSUME NEW v \in {2, 3}
                 PROVE  (\/ older[Recreated[v].old] = {}
                         \/ Holds(Recreated[v].old, older[Recreated[v].old])
                         \/ Holds(Recreated[v].new, older[Recreated[v].old]))'
      BY Zenon DEF RowsKept
    <2>1. \/ older[Recreated[v].old] = {}
          \/ Holds(Recreated[v].old, older[Recreated[v].old])
          \/ Holds(Recreated[v].new, older[Recreated[v].old])
      BY Zenon DEF RowsInv, RowsKept
    <2>2. CASE v = V
      BY <2>2, <1>5, <1>7, <1>2, <1>1 DEF Holds
    <2>3. CASE v # V
      BY <2>3, <2>1, <1>2a, <1>7, <1>1, Names23 DEF Holds
    <2> QED
      BY <2>2, <2>3
  <1>11. OldThere'
    <2> SUFFICES ASSUME NEW v \in {2, 3}
                 PROVE  tables'[Recreated[v].old] # SchemaNone \/ (At("rename")' /\ V' = v)
      BY DEF OldThere
    <2>1. At("rename")' /\ V' = V
      BY <1>4, <1>4a DEF At
    <2>2. CASE v # V
      <3>1. tables[Recreated[v].old] # SchemaNone
        BY <1>2, <1>3 DEF RowsInv, OldThere
      <3> QED
        BY <3>1, <2>2, <1>2a, <1>7, Names23
    <2> QED
      BY <2>1, <2>2
  <1> QED
    BY <1>8, <1>9, <1>10, <1>11 DEF RowsInv

LEMMA RenameNewRows == RowsInv /\ RenameNew => RowsInv'
  <1> SUFFICES ASSUME RowsInv, RenameNew PROVE RowsInv'
    OBVIOUS
  <1>1. stmt \in DOMAIN Program /\ Program[stmt].op = "rename" /\ older' = older /\ At("rename")
        /\ stmt' = stmt + 1 /\ tables' = [tables EXCEPT ![Old] = tables[New], ![New] = SchemaNone]
    BY DEF RenameNew, At, Onward
  <1>2. /\ V \in {2, 3} /\ stmt \in 13 .. 24 /\ Old = Recreated[V].old /\ New = Recreated[V].new
        /\ Old \in Tables /\ New \in Tables /\ Old # New
    BY <1>1, AtRecreation
  <1>2a. \A v \in {2, 3} : v # V =>
              /\ Recreated[v].old # Old /\ Recreated[v].old # New
              /\ Recreated[v].new # Old /\ Recreated[v].new # New
    BY <1>1, AtRecreation
  <1>4. stmt' \in 0 .. Len(Program) + 1
    <2>1. Len(Program) = 26 + 2 * ServerCount /\ ServerCount \in Nat
      BY Layout, ServerCountNat
    <2> QED
      BY <2>1, <1>1, <1>2
  <1>5. Holds(New, older[Old])
    BY <1>1 DEF RowsInv, KeptInNew
  <1>6. tables \in [Tables -> {SchemaNone} \cup Constrained] /\ older \in [Tables -> SUBSET SchemaRows]
    BY DEF RowsInv, SchemaTypeOK
  <1>7. (\A t \in Tables \ {Old, New} : tables'[t] = tables[t]) /\ tables'[Old] = tables[New]
    BY <1>1, <1>2, <1>6
  <1>8. SchemaTypeOK'
    <2>1. tables' \in [Tables -> {SchemaNone} \cup Constrained]
      BY <1>1, <1>2, <1>6
    <2> QED
      BY <2>1, <1>1, <1>4, <1>6 DEF SchemaTypeOK
  <1>9. ~At("copy")' /\ ~At("drop")' /\ ~At("rename")'
    BY <1>1, Landing
  <1>10. RowsKept'
    <2> SUFFICES ASSUME NEW v \in {2, 3}
                 PROVE  (\/ older[Recreated[v].old] = {}
                         \/ Holds(Recreated[v].old, older[Recreated[v].old])
                         \/ Holds(Recreated[v].new, older[Recreated[v].old]))'
      BY Zenon DEF RowsKept
    <2>1. \/ older[Recreated[v].old] = {}
          \/ Holds(Recreated[v].old, older[Recreated[v].old])
          \/ Holds(Recreated[v].new, older[Recreated[v].old])
      BY Zenon DEF RowsInv, RowsKept
    <2>2. CASE v = V
      BY <2>2, <1>5, <1>7, <1>2, <1>1 DEF Holds
    <2>3. CASE v # V
      BY <2>3, <2>1, <1>2a, <1>7, <1>1, Names23 DEF Holds
    <2> QED
      BY <2>2, <2>3
  <1>11. OldThere'
    <2> SUFFICES ASSUME NEW v \in {2, 3} PROVE tables'[Recreated[v].old] # SchemaNone
      BY DEF OldThere
    <2>2. CASE v # V
      <3>1. tables[Recreated[v].old] # SchemaNone
        BY <1>2, <2>2 DEF RowsInv, OldThere
      <3> QED
        BY <3>1, <2>2, <1>2a, <1>7, Names23
    <2>3. CASE v = V
      BY <2>3, <1>2, <1>5, <1>7 DEF Holds
    <2> QED
      BY <2>2, <2>3
  <1> QED
    BY <1>8, <1>9, <1>10, <1>11 DEF RowsInv, CopyReady, KeptInNew

(* Every other statement, the boot and the crash leave the rows alone. *)
LEMMA RowsStep == RowsInv /\ [SchemaNext]_schemaVars => RowsInv'
  <1> SUFFICES ASSUME RowsInv, [SchemaNext]_schemaVars PROVE RowsInv'
    OBVIOUS
  <1>0. Len(Program) = 26 + 2 * ServerCount /\ ServerCount \in Nat
        /\ DOMAIN Program = 1 .. 26 + 2 * ServerCount
    BY Layout, ServerCountNat
  <1>0a. \A i \in DOMAIN Program : i \notin 1 .. 25 => i > 1
    BY <1>0
  <1>1. stmt \in 0 .. Len(Program) + 1
    BY DEF RowsInv, SchemaTypeOK
  <1>2. ASSUME stmt \in DOMAIN Program, UNCHANGED <<tables, older>>,
               \/ /\ stmt' = stmt + 1
                  /\ Program[stmt].op \notin {"create", "copy", "drop", "rename"}
               \/ /\ stmt \in 2 .. 24 /\ stmt' = NextGroup
                  /\ Program[stmt].op \notin {"create", "copy", "drop", "rename"},
               stmt > 1
        PROVE  RowsInv'
    <2>1. ~At("rename")
      BY <1>2 DEF At
    <2>2. ~At("copy")' /\ ~At("drop")' /\ ~At("rename")'
      BY <1>2, Landing
    <2>3. stmt' \in 0 .. Len(Program) + 1
      <3>1. CASE stmt' = stmt + 1
        BY <3>1, <1>2, <1>0
      <3>2. CASE stmt \in 2 .. 24 /\ stmt' = NextGroup
        <4>1. NextGroup \in stmt + 1 .. Len(Program)
          BY <3>2, Jump
        <4> QED
          BY <4>1, <3>2, <1>0
      <3> QED
        BY <1>2, <3>1, <3>2
    <2> QED
      BY <2>1, <2>2, <2>3, <1>2, RowsAlone
  <1>3. ASSUME stmt' \in {0, 1, Len(Program) + 1}, UNCHANGED <<tables, older>>,
               (stmt > 1 /\ ~At("rename")) \/ stmt' \in {0, 1}
        PROVE  RowsInv'
    <2>1. ~At("copy")' /\ ~At("drop")' /\ ~At("rename")'
      <3>1. Program[1].op = "tables"
        BY Layout DEF Statement
      <3>2. Len(Program) + 1 \notin DOMAIN Program /\ 0 \notin DOMAIN Program
        <4>1. DOMAIN Program = 1 .. 26 + 2 * ServerCount
              /\ Len(Program) = 26 + 2 * ServerCount
          BY Layout
        <4>2. ServerCount \in Nat
          BY ServerCountNat
        <4> QED
          BY <4>1, <4>2
      <3>3. \A o \in {"copy", "drop", "rename"} :
                ~(stmt' \in DOMAIN Program /\ Program[stmt'].op = o)
        BY <1>3, <3>1, <3>2
      <3> QED
        BY <3>3 DEF At
    <2>2. stmt' \in 0 .. Len(Program) + 1
      BY <1>3, <1>0
    <2>3. SchemaTypeOK'
      BY <1>3, <2>2 DEF RowsInv, SchemaTypeOK
    <2>4. RowsKept'
      BY <1>3, Zenon DEF RowsInv, RowsKept, Holds
    <2>5. OldThere'
      <3>1. CASE stmt' \in {0, 1}
        BY <3>1 DEF OldThere
      <3>2. CASE stmt > 1 /\ ~At("rename")
        BY <3>2, <1>3 DEF RowsInv, OldThere
      <3> QED
        BY <3>1, <3>2, <1>3
    <2> QED
      BY <2>1, <2>3, <2>4, <2>5 DEF RowsInv, CopyReady, KeptInNew
  <1>4. \A o : At(o) => stmt \in DOMAIN Program /\ Program[stmt].op = o
    BY DEF At
  <1>5. CASE CreateTables
    BY <1>5, CreateTablesRows
  <1>6. CASE Alter
    <2>1. Program[stmt].op = "alter" /\ stmt \in 2 .. 12 /\ stmt \in DOMAIN Program
      BY <1>6, <1>4, Groups DEF Alter
    <2>2. (stmt' = stmt + 1 \/ stmt' = NextGroup) /\ UNCHANGED <<tables, older>>
      BY <1>6 DEF Alter, Onward
    <2> QED
      BY <2>1, <2>2, <1>2
  <1>7. CASE Record
    <2>1. Program[stmt].op = "record" /\ stmt \in 2 .. 12 /\ stmt \in DOMAIN Program
      BY <1>7, <1>4, Groups DEF Record
    <2>2. stmt' = stmt + 1 /\ UNCHANGED <<tables, older>>
      BY <1>7 DEF Record, Onward
    <2> QED
      BY <2>1, <2>2, <1>2
  <1>8. CASE Test
    <2>1. Program[stmt].op = "test" /\ stmt \in 13 .. 24 /\ stmt \in DOMAIN Program
      BY <1>8, <1>4, Groups DEF Test
    <2>2. (stmt' = stmt + 1 \/ stmt' = NextGroup) /\ UNCHANGED <<tables, older>>
      BY <1>8 DEF Test, Onward
    <2> QED
      BY <2>1, <2>2, <1>2
  <1>9. CASE CreateNew
    BY <1>9, CreateNewRows
  <1>10. CASE CopyData
    BY <1>10, CopyDataRows
  <1>11. CASE DropOld
    BY <1>11, DropOldRows
  <1>12. CASE RenameNew
    BY <1>12, RenameNewRows
  <1>13. CASE RecordRecreated
    <2>1. Program[stmt].op = "recorded" /\ stmt \in 13 .. 24 /\ stmt \in DOMAIN Program
      BY <1>13, <1>4, Groups DEF RecordRecreated
    <2>2. stmt' = stmt + 1 /\ UNCHANGED <<tables, older>>
      BY <1>13 DEF RecordRecreated, Onward
    <2> QED
      BY <2>1, <2>2, <1>2
  <1>14. CASE Names
    <2>1. Program[stmt].op = "names" /\ stmt = 25 /\ stmt \in DOMAIN Program
      BY <1>14, <1>4, Groups DEF Names
    <2>2. (stmt' = stmt + 1 \/ stmt' = Len(Program) + 1) /\ UNCHANGED <<tables, older>>
      BY <1>14 DEF Names, dbVars
    <2>3. ~At("rename")
      BY <2>1 DEF At
    <2> QED
      BY <2>1, <2>2, <2>3, <1>2, <1>3
  <1>15. CASE SanitizeRow
    <2>1. Program[stmt].op = "sanitize" /\ stmt > 1 /\ stmt \in DOMAIN Program
      <3>1. stmt \in DOMAIN Program /\ Program[stmt].op = "sanitize"
        BY <1>15, <1>4 DEF SanitizeRow
      <3>2. stmt \notin 1 .. 25
        BY <3>1, Groups
      <3> QED
        BY <3>1, <3>2, <1>0, <1>0a
    <2>2. stmt' = stmt + 1 /\ UNCHANGED <<tables, older>>
      BY <1>15 DEF SanitizeRow, Onward, dbVars
    <2> QED
      BY <2>1, <2>2, <1>2
  <1>16. CASE MoveDirectory
    <2>1. Program[stmt].op = "move" /\ stmt > 1 /\ stmt \in DOMAIN Program
      <3>1. stmt \in DOMAIN Program /\ Program[stmt].op = "move"
        BY <1>16, <1>4 DEF MoveDirectory
      <3>2. stmt \notin 1 .. 25
        BY <3>1, Groups
      <3> QED
        BY <3>1, <3>2, <1>0, <1>0a
    <2>2. stmt' = stmt + 1 /\ UNCHANGED <<tables, older>>
      BY <1>16 DEF MoveDirectory, Onward, dbVars
    <2> QED
      BY <2>1, <2>2, <1>2
  <1>17. CASE Index
    <2>1. Program[stmt].op = "index" /\ stmt > 1 /\ stmt \in DOMAIN Program
      <3>1. stmt \in DOMAIN Program /\ Program[stmt].op = "index"
        BY <1>17, <1>4 DEF Index
      <3>2. stmt = 26 + 2 * ServerCount
        BY <3>1, Groups
      <3> QED
        BY <3>1, <3>2, <1>0, <1>0a
    <2>2. stmt' = stmt + 1 /\ UNCHANGED <<tables, older>>
      BY <1>17 DEF Index, Onward, dbVars
    <2> QED
      BY <2>1, <2>2, <1>2
  <1>18. CASE Boot
    BY <1>18, <1>3 DEF Boot, dbVars
  <1>19. CASE SchemaCrash
    BY <1>19, <1>3 DEF SchemaCrash, dbVars
  <1>20. CASE UNCHANGED schemaVars
    <2>1. UNCHANGED <<tables, older, stmt>>
      BY <1>20 DEF schemaVars, dbVars, memVars
    <2> QED
      BY <2>1, Zenon DEF RowsInv, SchemaTypeOK, RowsKept, Holds, OldThere, CopyReady, KeptInNew,
         At, V, Old, New
  <1> QED
    BY <1>5, <1>6, <1>7, <1>8, <1>9, <1>10, <1>11, <1>12, <1>13, <1>14, <1>15, <1>16, <1>17,
       <1>18, <1>19, <1>20 DEF SchemaNext

(* What migrateSanitizedNames has done by the statement at hand, while no   *)
(* boot has been cut short: the servers before it have their new names, and *)
(* their files are where these say or found the place taken.  Moving one    *)
(* server's files never takes away another's place.                         *)
Sanitized(s) == sanitized[s] = Sanitize[name[s]]

Moved(s) ==
    directory[s] = Sanitize[name[s]]
        \/ \E q \in SchemaServers \ {s} : directory[q] = Sanitize[name[s]]

NamesTypeOK ==
    /\ name \in [SchemaServers -> ServerNames \cup {SchemaNone}]
    /\ DOMAIN sanitized = SchemaServers /\ DOMAIN directory = SchemaServers
    /\ \A s \in SchemaServers : name[s] # SchemaNone =>
            directory[s] \in {name[s], Sanitize[name[s]]}
    /\ crashes \in Nat /\ stmt \in 0 .. Len(Program) + 1

NamesProgress ==
    crashes = 0 =>
        /\ stmt <= 25 => \A s \in SchemaServers : sanitized[s] = SchemaNone
        /\ stmt \in 26 .. Len(Program) =>
               migrating = {s \in SchemaServers : name[s] # SchemaNone}
        /\ stmt > 25 => \A s \in SchemaServers : name[s] # SchemaNone =>
               /\ stmt > 24 + 2 * s => Sanitized(s)
               /\ stmt > 25 + 2 * s => Moved(s)

NamesInv == NamesTypeOK /\ NamesProgress

LEMMA InitNames == SchemaInit => NamesInv
  <1> SUFFICES ASSUME SchemaInit PROVE NamesInv
    OBVIOUS
  <1>1. Len(Program) \in Nat /\ stmt = 0 /\ crashes = 0
        /\ sanitized = [s \in SchemaServers |-> SchemaNone]
    BY Layout, ServerCountNat DEF SchemaInit
  <1>2. CASE OldDatabase
    <2>1. name \in [SchemaServers -> ServerNames] /\ directory = name
      BY <1>2 DEF OldDatabase
    <2> QED
      BY <1>1, <2>1 DEF NamesInv, NamesTypeOK, NamesProgress
  <1>3. CASE FreshDatabase
    <2>1. name = [s \in SchemaServers |-> SchemaNone] /\ directory = [s \in SchemaServers |-> SchemaNone]
      BY <1>3 DEF FreshDatabase
    <2> QED
      BY <1>1, <2>1 DEF NamesInv, NamesTypeOK, NamesProgress
  <1> QED
    BY <1>2, <1>3 DEF SchemaInit

(* The statements before migrateSanitizedNames, and those behind. *)
LEMMA NamesAlone ==
  ASSUME NamesInv, UNCHANGED <<name, sanitized, directory, crashes>>,
         \/ stmt' \in 0 .. 25
         \/ /\ stmt' = Len(Program) + 1 /\ stmt = Len(Program)
         \/ UNCHANGED <<stmt, migrating>>,
         crashes = 0 => (stmt' <= 25 => stmt <= 25)
  PROVE  NamesInv'
  <1>0. Len(Program) = 26 + 2 * ServerCount /\ ServerCount \in Nat /\ SchemaServers = 1 .. ServerCount
    BY Layout, ServerCountNat
  <1>0a. stmt \in 0 .. Len(Program) + 1
    BY DEF NamesInv, NamesTypeOK
  <1>0b. stmt' \in 0 .. Len(Program) + 1
    <2>1. Len(Program) \in Nat /\ Len(Program) >= 26
      BY <1>0
    <2>2. CASE stmt' \in 0 .. 25
      BY <2>1, <2>2
    <2>3. CASE stmt' = Len(Program) + 1
      BY <2>1, <2>3
    <2>4. CASE UNCHANGED stmt
      BY <2>4, <1>0a
    <2> QED
      BY <2>2, <2>3, <2>4
  <1>1. NamesTypeOK'
    BY <1>0b DEF NamesInv, NamesTypeOK
  <1>2. CASE stmt' \in 0 .. 25
    <2>1. stmt' <= 25 /\ ~(stmt' > 25) /\ stmt' \notin 26 .. Len(Program)
      BY <1>2
    <2>2. NamesProgress'
      BY <2>1 DEF NamesInv, NamesProgress
    <2> QED
      BY <1>1, <2>2 DEF NamesInv
  <1>3. CASE stmt' = Len(Program) + 1 /\ stmt = Len(Program)
    <2>1. ASSUME crashes = 0, NEW s \in SchemaServers, name[s] # SchemaNone
          PROVE  Sanitized(s) /\ Moved(s)
      <3>1. stmt > 24 + 2 * s /\ stmt > 25 + 2 * s /\ stmt > 25
        BY <1>3, <1>0
      <3> QED
        BY <3>1, <2>1 DEF NamesInv, NamesProgress
    <2>2. \A s \in SchemaServers : Sanitized(s)' = Sanitized(s) /\ Moved(s)' = Moved(s)
      BY DEF Sanitized, Moved
    <2>3. stmt' \notin 26 .. Len(Program) /\ ~(stmt' <= 25)
      BY <1>3, <1>0
    <2>4. NamesProgress'
      BY <2>1, <2>2, <2>3 DEF NamesProgress
    <2> QED
      BY <1>1, <2>4 DEF NamesInv
  <1>4. CASE UNCHANGED <<stmt, migrating>>
    <2>1. NamesProgress'
      BY <1>4, Zenon DEF NamesInv, NamesProgress, Sanitized, Moved
    <2> QED
      BY <1>1, <2>1 DEF NamesInv
  <1> QED
    BY <1>2, <1>3, <1>4

LEMMA NamesNames == NamesInv /\ Names => NamesInv'
  <1> SUFFICES ASSUME NamesInv, Names PROVE NamesInv'
    OBVIOUS
  <1>0. Len(Program) = 26 + 2 * ServerCount /\ ServerCount \in Nat /\ SchemaServers = 1 .. ServerCount
    BY Layout, ServerCountNat
  <1>1. stmt = 25 /\ UNCHANGED <<name, sanitized, directory, crashes>> /\ migrating' = Unsanitized
        /\ stmt' = IF Unsanitized = {} THEN Len(Program) + 1 ELSE stmt + 1
    BY Groups DEF Names, At, rowVars
  <1>2. NamesTypeOK'
    BY <1>0, <1>1 DEF NamesInv, NamesTypeOK
  <1>3. crashes = 0 => Unsanitized = {s \in SchemaServers : name[s] # SchemaNone}
    BY <1>1 DEF NamesInv, NamesProgress, Unsanitized
  <1>4. NamesProgress'
    <2>1. stmt' \in {26, Len(Program) + 1} /\ stmt' > 25
      BY <1>0, <1>1
    <2>2. CASE Unsanitized = {}
      <3>1. crashes = 0 => \A s \in SchemaServers : name[s] = SchemaNone
        BY <2>2, <1>3
      <3>2. stmt' \notin 26 .. Len(Program)
        BY <2>2, <1>0, <1>1
      <3> QED
        BY <3>1, <3>2, <2>1, <1>1 DEF NamesProgress
    <2>3. CASE Unsanitized # {}
      <3>1. \A s \in SchemaServers : ~(stmt' > 24 + 2 * s) /\ ~(stmt' > 25 + 2 * s)
        BY <2>3, <1>0, <1>1
      <3> QED
        BY <3>1, <2>1, <1>1, <1>3 DEF NamesProgress
    <2> QED
      BY <2>2, <2>3
  <1> QED
    BY <1>2, <1>4 DEF NamesInv

LEMMA SanitizeNames == NamesInv /\ SanitizeRow => NamesInv'
  <1> SUFFICES ASSUME NamesInv, SanitizeRow PROVE NamesInv'
    OBVIOUS
  <1>0. Len(Program) = 26 + 2 * ServerCount /\ ServerCount \in Nat /\ SchemaServers = 1 .. ServerCount
    BY Layout, ServerCountNat
  <1>1. /\ V \in SchemaServers /\ stmt = 24 + 2 * V /\ stmt' = stmt + 1
        /\ UNCHANGED <<name, directory, crashes, migrating>>
        /\ sanitized' = IF V \in migrating THEN [sanitized EXCEPT ![V] = Sanitize[name[V]]]
                        ELSE sanitized
    BY Groups DEF SanitizeRow, At, Onward, V
  <1>2. stmt \in 26 .. Len(Program) /\ stmt' \in 27 .. Len(Program)
    BY <1>0, <1>1
  <1>3. NamesTypeOK'
    <2>1. DOMAIN sanitized' = SchemaServers
      BY <1>1 DEF NamesInv, NamesTypeOK
    <2>2. stmt' \in 0 .. Len(Program) + 1
      BY <1>2, <1>0
    <2> QED
      BY <2>1, <2>2, <1>1, Zenon DEF NamesInv, NamesTypeOK
  <1>4. NamesProgress'
    <2> SUFFICES ASSUME crashes = 0 PROVE NamesProgress'
      BY <1>1 DEF NamesProgress
    <2>1. migrating = {s \in SchemaServers : name[s] # SchemaNone}
      BY <1>2 DEF NamesInv, NamesProgress
    <2>2. ~(stmt' <= 25)
      BY <1>2
    <2>3. ASSUME NEW s \in SchemaServers, name[s] # SchemaNone
          PROVE  /\ stmt' > 24 + 2 * s => Sanitized(s)'
                 /\ stmt' > 25 + 2 * s => Moved(s)'
      <3>1. CASE s = V
        <4>1. sanitized'[s] = Sanitize[name[s]]
          BY <3>1, <2>1, <2>3, <1>1 DEF NamesInv, NamesTypeOK
        <4>2. ~(stmt' > 25 + 2 * s)
          BY <3>1, <1>1, <1>0
        <4> QED
          BY <4>1, <4>2, <1>1 DEF Sanitized
      <3>2. CASE s # V
        <4>1. sanitized'[s] = sanitized[s]
          BY <3>2, <1>1 DEF NamesInv, NamesTypeOK
        <4>2. /\ stmt' > 24 + 2 * s => stmt > 24 + 2 * s
              /\ stmt' > 25 + 2 * s => stmt > 25 + 2 * s
          BY <3>2, <1>1, <1>0
        <4>3. stmt > 25
          BY <1>2
        <4>4. /\ stmt > 24 + 2 * s => Sanitized(s)
              /\ stmt > 25 + 2 * s => Moved(s)
          BY <4>3, <2>3 DEF NamesInv, NamesProgress
        <4> QED
          BY <4>1, <4>2, <4>4, <1>1 DEF Sanitized, Moved
      <3> QED
        BY <3>1, <3>2
    <2> QED
      BY <2>1, <2>2, <2>3, <1>1 DEF NamesProgress
  <1> QED
    BY <1>3, <1>4 DEF NamesInv

LEMMA MoveNames == NamesInv /\ MoveDirectory => NamesInv'
  <1> SUFFICES ASSUME NamesInv, MoveDirectory PROVE NamesInv'
    OBVIOUS
  <1>0. Len(Program) = 26 + 2 * ServerCount /\ ServerCount \in Nat /\ SchemaServers = 1 .. ServerCount
    BY Layout, ServerCountNat
  <1>1. /\ V \in SchemaServers /\ stmt = 25 + 2 * V /\ stmt' = stmt + 1
        /\ UNCHANGED <<name, sanitized, crashes, migrating>>
        /\ directory' =
             IF V \in migrating /\ Taken(name[V]) /\ ~Taken(Sanitize[name[V]])
             THEN [s \in SchemaServers |->
                      IF directory[s] = name[V] THEN Sanitize[name[V]] ELSE directory[s]]
             ELSE directory
    BY Groups DEF MoveDirectory, At, Onward, V
  <1>1a. PICK p \in SchemaServers : p = V
    BY <1>1
  <1>2. stmt \in 27 .. Len(Program) /\ stmt' \in 28 .. Len(Program)
    BY <1>0, <1>1
  <1>2a. \A s \in SchemaServers : name[s] # SchemaNone =>
            name[s] \in ServerNames /\ Sanitize[Sanitize[name[s]]] = Sanitize[name[s]]
    BY SchemaAssumption DEF NamesInv, NamesTypeOK
  <1> DEFINE old == name[V]
             new == Sanitize[name[V]]
  (* Nothing that is where a sanitized name says is moved. *)
  <1>3. ASSUME NEW s \in SchemaServers, NEW q \in SchemaServers, name[s] # SchemaNone,
               directory[q] = Sanitize[name[s]]
        PROVE  directory'[q] = Sanitize[name[s]]
    <2>1. CASE V \in migrating /\ Taken(old) /\ ~Taken(new) /\ directory[q] = old
      <3>1. old = Sanitize[name[s]] /\ new = Sanitize[name[s]]
        BY <2>1, <1>3, <1>2a
      <3>2. Taken(new)
        BY <3>1, <1>3 DEF Taken
      <3> QED
        BY <3>2, <2>1
    <2>2. CASE ~(V \in migrating /\ Taken(old) /\ ~Taken(new) /\ directory[q] = old)
      BY <2>2, <1>1, <1>3, Zenon
    <2> QED
      BY <2>1, <2>2
  <1>4. \A s \in SchemaServers : name[s] # SchemaNone /\ Moved(s) => Moved(s)'
    BY <1>3, <1>1, Zenon DEF Moved
  <1>5. ASSUME NEW s \in SchemaServers, name[s] # SchemaNone
        PROVE  directory'[s] \in {name[s], Sanitize[name[s]]}
    <2>1. directory[s] \in {name[s], Sanitize[name[s]]}
      BY <1>5 DEF NamesInv, NamesTypeOK
    <2>2. CASE directory[s] = Sanitize[name[s]]
      BY <2>2, <1>3, <1>5
    <2>3. CASE directory[s] = name[s]
      BY <2>3, <1>1, Zenon
    <2> QED
      BY <2>1, <2>2, <2>3
  <1>6. NamesTypeOK'
    <2>1. DOMAIN directory' = SchemaServers
      BY <1>1 DEF NamesInv, NamesTypeOK
    <2>2. stmt' \in 0 .. Len(Program) + 1
      BY <1>2, <1>0
    <2> QED
      BY <1>5, <2>1, <2>2, <1>1 DEF NamesInv, NamesTypeOK
  <1>7. p \in migrating /\ name[p] # SchemaNone => Moved(p)'
    <2> SUFFICES ASSUME p \in migrating, name[p] # SchemaNone PROVE Moved(p)'
      OBVIOUS
    <2>1. directory[p] \in {old, new}
      BY <1>1, <1>1a DEF NamesInv, NamesTypeOK
    <2>2. CASE Taken(new)
      <3>1. Moved(p)
        BY <2>2, <1>1a DEF Taken, Moved
      <3> QED
        BY <3>1, <1>4, <1>1, <1>1a
    <2>3. CASE ~Taken(new)
      <3>1. directory[p] = old /\ Taken(old)
        BY <2>1, <2>3, <1>1, <1>1a DEF Taken
      <3>2. directory'[p] = new
        BY <3>1, <2>3, <1>1, <1>1a
      <3> QED
        BY <3>2, <1>1, <1>1a DEF Moved
    <2> QED
      BY <2>2, <2>3
  <1>8. NamesProgress'
    <2> SUFFICES ASSUME crashes = 0 PROVE NamesProgress'
      BY <1>1 DEF NamesProgress
    <2>1. migrating = {s \in SchemaServers : name[s] # SchemaNone}
      BY <1>2, <1>0 DEF NamesInv, NamesProgress
    <2>2. ~(stmt' <= 25)
      BY <1>2
    <2>3. ASSUME NEW s \in SchemaServers, name[s] # SchemaNone
          PROVE  /\ stmt' > 24 + 2 * s => Sanitized(s)'
                 /\ stmt' > 25 + 2 * s => Moved(s)'
      <3>1. stmt > 25
        BY <1>2
      <3>2. /\ stmt > 24 + 2 * s => Sanitized(s)
            /\ stmt > 25 + 2 * s => Moved(s)
        BY <3>1, <2>3 DEF NamesInv, NamesProgress
      <3>3. stmt' > 24 + 2 * s => stmt > 24 + 2 * s
        BY <1>1, <1>0
      <3>4. Sanitized(s)' = Sanitized(s)
        BY <1>1 DEF Sanitized
      <3>5. CASE s = p
        BY <3>5, <3>2, <3>3, <3>4, <1>7, <2>1, <2>3
      <3>6. CASE s # p
        <4>1. stmt' > 25 + 2 * s => stmt > 25 + 2 * s
          BY <3>6, <1>1, <1>1a, <1>0
        <4> QED
          BY <4>1, <3>2, <3>3, <3>4, <1>4, <2>3
      <3> QED
        BY <3>5, <3>6
    <2> QED
      BY <2>1, <2>2, <2>3, <1>1 DEF NamesProgress
  <1> QED
    BY <1>6, <1>8 DEF NamesInv

LEMMA NamesStep == NamesInv /\ [SchemaNext]_schemaVars => NamesInv'
  <1> SUFFICES ASSUME NamesInv, [SchemaNext]_schemaVars PROVE NamesInv'
    OBVIOUS
  <1>0. Len(Program) = 26 + 2 * ServerCount /\ ServerCount \in Nat
        /\ DOMAIN Program = 1 .. 26 + 2 * ServerCount
    BY Layout, ServerCountNat
  <1>1. \A o : At(o) => stmt \in DOMAIN Program /\ Program[stmt].op = o
    BY DEF At
  <1>2. ASSUME stmt \in 1 .. 24, stmt' = stmt + 1 \/ (stmt \in 2 .. 24 /\ stmt' = NextGroup),
               UNCHANGED <<name, sanitized, directory, crashes>>
        PROVE  NamesInv'
    <2>1. stmt' \in 0 .. 25
      <3>1. CASE stmt' = stmt + 1
        BY <3>1, <1>2
      <3>2. CASE stmt \in 2 .. 24 /\ stmt' = NextGroup
        <4>1. NextGroup \in stmt + 1 .. Len(Program) /\ NextGroup <= 25
          BY <3>2, Jump
        <4> QED
          BY <4>1, <3>2, <1>0
      <3> QED
        BY <1>2, <3>1, <3>2
    <2> QED
      BY <2>1, <1>2, NamesAlone
  <1>3. CASE CreateTables \/ Alter \/ Record \/ Test \/ CreateNew \/ CopyData \/ DropOld
             \/ RenameNew \/ RecordRecreated
    <2>1. stmt \in DOMAIN Program /\ Program[stmt].op \in {"tables", "alter", "record", "test",
              "create", "copy", "drop", "rename", "recorded"}
      BY <1>1, <1>3 DEF CreateTables, Alter, Record, Test, CreateNew, CopyData, DropOld,
         RenameNew, RecordRecreated
    <2>2. stmt \in 1 .. 24
      BY <2>1, Groups
    <2>3. UNCHANGED <<name, sanitized, directory, crashes>>
      BY <1>3 DEF CreateTables, Alter, Record, Test, CreateNew, CopyData, DropOld,
         RenameNew, RecordRecreated, rowVars
    <2>4. stmt' = stmt + 1 \/ (Program[stmt].op # "tables" /\ stmt' = NextGroup)
      BY <1>3, <1>1 DEF CreateTables, Alter, Record, Test, CreateNew, CopyData, DropOld,
         RenameNew, RecordRecreated, Onward
    <2>5. Program[stmt].op # "tables" => stmt \in 2 .. 24
      BY <2>2, Layout DEF Statement
    <2> QED
      BY <2>2, <2>3, <2>4, <2>5, <1>2
  <1>4. CASE Names
    BY <1>4, NamesNames
  <1>5. CASE SanitizeRow
    BY <1>5, SanitizeNames
  <1>6. CASE MoveDirectory
    BY <1>6, MoveNames
  <1>7. CASE Index
    <2>1. stmt = Len(Program)
      BY <1>7, <1>1, <1>0, Groups DEF Index
    <2>2. stmt' = Len(Program) + 1 /\ UNCHANGED <<name, sanitized, directory, crashes>>
      BY <1>7, <2>1 DEF Index, Onward
    <2>3. ~(stmt' <= 25)
      BY <2>2, <1>0
    <2> QED
      BY <2>1, <2>2, <2>3, NamesAlone
  <1>8. CASE Boot
    <2>1. stmt = 0 /\ stmt' = 1 /\ UNCHANGED <<name, sanitized, directory, crashes>>
      BY <1>8 DEF Boot, rowVars
    <2> QED
      BY <2>1, NamesAlone
  <1>9. CASE SchemaCrash
    <2>1. stmt' = 0 /\ UNCHANGED <<name, sanitized, directory>> /\ crashes' = crashes + 1
      BY <1>9 DEF SchemaCrash, rowVars
    <2>2. crashes \in Nat
      BY DEF NamesInv, NamesTypeOK
    <2>3. crashes' \in Nat /\ crashes' # 0 /\ stmt' \in 0 .. Len(Program) + 1
      BY <2>1, <2>2, <1>0
    <2> QED
      BY <2>1, <2>3 DEF NamesInv, NamesTypeOK, NamesProgress
  <1>10. CASE UNCHANGED schemaVars
    <2>1. UNCHANGED <<name, sanitized, directory, crashes, stmt, migrating>>
      BY <1>10 DEF schemaVars, rowVars, memVars
    <2> QED
      BY <2>1, NamesAlone
  <1> QED
    BY <1>3, <1>4, <1>5, <1>6, <1>7, <1>8, <1>9, <1>10 DEF SchemaNext

LEMMA SchemaInitInv == SchemaInit => RowsInv /\ NamesInv
  BY InitRows, InitNames

LEMMA SchemaInvKeeps == RowsInv /\ NamesInv => SchemaKeepsData
  <1> SUFFICES ASSUME RowsInv, NamesInv PROVE SchemaKeepsData
    OBVIOUS
  <1>1. DirectoriesFollow
    <2> SUFFICES ASSUME Finished, crashes = 0, NEW s \in SchemaServers, name[s] # SchemaNone
                 PROVE  Sanitized(s) /\ Moved(s)
      BY DEF DirectoriesFollow, Sanitized, Moved
    <2>1. stmt > 25 /\ stmt > 24 + 2 * s /\ stmt > 25 + 2 * s
      <3>1. Len(Program) = 26 + 2 * ServerCount /\ ServerCount \in Nat /\ s \in 1 .. ServerCount
        BY Layout, ServerCountNat
      <3>2. stmt = 27 + 2 * ServerCount
        BY <3>1 DEF Finished
      <3> QED
        BY <3>1, <3>2
    <2> QED
      BY <2>1 DEF NamesInv, NamesProgress
  <1> QED
    BY <1>1 DEF RowsInv, SchemaKeepsData

(* SchemaKeepsData (db/db.go, RunMigrations): however often the manager goes *)
(* down between two statements, the rows an older build left are in their   *)
(* table or in the one that replaces it; and a boot that was not cut short   *)
(* leaves every server's files under its sanitized name or finds the place   *)
(* taken.                                                                    *)
THEOREM SchemaKeepsDataHolds == SchemaSpec => []SchemaKeepsData
  <1>1. SchemaInit => RowsInv /\ NamesInv
    BY SchemaInitInv
  <1>2. (RowsInv /\ NamesInv) /\ [SchemaNext]_schemaVars => (RowsInv /\ NamesInv)'
    BY RowsStep, NamesStep
  <1>3. RowsInv /\ NamesInv => SchemaKeepsData
    BY SchemaInvKeeps
  <1> QED
    BY <1>1, <1>2, <1>3, PTL DEF SchemaSpec

=============================================================================
