------------------------------ MODULE DemiAuth ------------------------------
(***************************************************************************)
(* The login plugin of the proxy (PlayerConnection, BypassList,            *)
(* AdminCommand): a player is sent to the login server, types a password   *)
(* there and is brought to the hub; a timer kicks who waits too long.  The *)
(* maps are kept by uuid, a kick holds on to one session of the player.    *)
(***************************************************************************)
EXTENDS Naturals, Sequences, FiniteSets

CONSTANTS
    AuthPlayers,   \* uuids
    AuthConfigs,   \* configurations config.toml may hold
    MaxSessions,   \* bound: connections of a player to the proxy
    MaxKicks,      \* bound: kicks ever scheduled
    AuthNone

ASSUME AuthAssumption ==
    /\ AuthConfigs # {} /\ MaxSessions \in Nat /\ MaxKicks \in Nat
    /\ AuthNone \notin 1 .. MaxKicks

VARIABLES
    at,              \* getCurrentServer: "off" the proxy, "proxy" without a server yet
    heading,         \* where a connection is being made to, or AuthNone
    session,
    node,            \* players with bypassNode
    granting,        \* players modifyUser is adding it to
    bypassList,
    playerAttempts,
    kicks,           \* every kick task made: its player and his session
    live,            \* those that have neither run nor been cancelled
    scheduledKicks,
    transfers,       \* transferToHub tasks: player and session
    configVar,
    strayed,         \* history: players who left the login server with a kick
                     \* waiting, other than to the hub
    misfired         \* history: players a kick hit when not at the login server

authVars == <<at, heading, session, node, granting, bypassList, playerAttempts, kicks,
              live, scheduledKicks, transfers, configVar, strayed, misfired>>

Servers == {"login", "hub", "other"}

Hers(p) == {k \in live : kicks[k] = [player |-> p, session |-> session[p]]}

(* The session of p ends; nothing listens to DisconnectEvent. *)
Ends(p, running) ==
    /\ at' = [at EXCEPT ![p] = "off"]
    /\ heading' = [heading EXCEPT ![p] = AuthNone]
    /\ strayed' = IF Hers(p) \ running # {} THEN strayed \cup {p} ELSE strayed

(* onBypassPlayerConnectToLoginServer: where a connection to s goes. *)
Admitted(p, s) ==
    IF s # "login" \/ p \notin node THEN s
    ELSE CASE configVar.exit = "auto" -> "hub"
           [] configVar.exit = "deny-entry" -> AuthNone
           [] OTHER -> s

(* onPlayerJoin.  Pinging the login server fails when it is down, and     *)
(* throws past the handler when the proxy does not know it.               *)
MustLogin(p) ==
    configVar.enabled /\ (~configVar.oneTimeLogin \/ p \notin node \cup bypassList)

Join(p, login) ==
    /\ at[p] = "off" /\ session[p] < MaxSessions
    /\ session' = [session EXCEPT ![p] = @ + 1]
    /\ \E s \in IF ~MustLogin(p) \/ login = "unknown" THEN Servers
                ELSE IF login = "up" THEN {"login"} ELSE {AuthNone} :
           LET to == IF s = AuthNone THEN s ELSE Admitted(p, s) IN
           /\ at' = [at EXCEPT ![p] = IF to = AuthNone THEN "off" ELSE "proxy"]
           /\ heading' = [heading EXCEPT ![p] = to]
    /\ UNCHANGED <<node, granting, bypassList, playerAttempts, kicks, live,
                   scheduledKicks, transfers, configVar, strayed, misfired>>

Connect(p, s) ==
    /\ at[p] \in Servers \ {s} /\ heading[p] = AuthNone
    /\ heading' = [heading EXCEPT ![p] =
            IF Admitted(p, s) = at[p] THEN AuthNone ELSE Admitted(p, s)]
    /\ UNCHANGED <<at, session, node, granting, bypassList, playerAttempts, kicks, live,
                   scheduledKicks, transfers, configVar, strayed, misfired>>

(* Mutant: a kick that is scheduled already is taken for this one. *)
ScheduleKickOnce(p) ==
    IF scheduledKicks[p] # AuthNone THEN UNCHANGED <<kicks, live, scheduledKicks>>
    ELSE /\ kicks' = Append(kicks, [player |-> p, session |-> session[p]])
         /\ live' = live \cup {Len(kicks')}
         /\ scheduledKicks' = [scheduledKicks EXCEPT ![p] = Len(kicks')]

ScheduleKick(p) ==
    /\ kicks' = Append(kicks, [player |-> p, session |-> session[p]])
    /\ live' = live \cup {Len(kicks')}
    /\ scheduledKicks' = [scheduledKicks EXCEPT ![p] = Len(kicks')]

CancelKick(p) ==
    /\ live' = live \ {scheduledKicks[p]}
    /\ scheduledKicks' = [scheduledKicks EXCEPT ![p] = AuthNone]
    /\ UNCHANGED kicks

(* onPlayerJoinLoginServer and onPlayerLeaveLoginServer. *)
ServerConnected(p) ==
    LET from == at[p]  to == heading[p] IN
    /\ to # AuthNone
    /\ at' = [at EXCEPT ![p] = to]
    /\ heading' = [heading EXCEPT ![p] = AuthNone]
    /\ \/ to = "login" /\ p \notin node /\ Len(kicks) < MaxKicks /\ ScheduleKick(p)
       \/ to = "hub" /\ from = "login" /\ CancelKick(p)
       \/ /\ ~(to = "login" /\ p \notin node) /\ ~(to = "hub" /\ from = "login")
          /\ UNCHANGED <<kicks, live, scheduledKicks>>
    /\ strayed' = IF from = "login" /\ to # "hub" /\ Hers(p) # {}
                  THEN strayed \cup {p} ELSE strayed
    /\ UNCHANGED <<session, node, granting, bypassList, playerAttempts, transfers,
                   configVar, misfired>>

(* A connection fails: the player stays where he is, or goes. *)
Refused(p) ==
    /\ heading[p] # AuthNone
    /\ heading' = [heading EXCEPT ![p] = AuthNone]
    /\ at' = [at EXCEPT ![p] = IF @ = "proxy" THEN "off" ELSE @]
    /\ UNCHANGED <<session, node, granting, bypassList, playerAttempts, kicks, live,
                   scheduledKicks, transfers, configVar, strayed, misfired>>

(* onPlayerRedirect: a player the login server loses is disconnected. *)
LoginLost(p) ==
    /\ at[p] = "login" /\ Ends(p, {})
    /\ UNCHANGED <<session, node, granting, bypassList, playerAttempts, kicks, live,
                   scheduledKicks, transfers, configVar, misfired>>

Quit(p) ==
    /\ at[p] # "off" /\ Ends(p, {})
    /\ UNCHANGED <<session, node, granting, bypassList, playerAttempts, kicks, live,
                   scheduledKicks, transfers, configVar, misfired>>

(* onPlayerChat at the login server. *)
Prompted(p) == at[p] = "login" /\ configVar.enabled /\ p \notin node

RightPassword(p) ==
    /\ Prompted(p)
    /\ granting' = IF configVar.oneTimeLogin /\ configVar.grants
                   THEN granting \cup {p} ELSE granting
    /\ transfers' = transfers \cup {[player |-> p, session |-> session[p]]}
    /\ playerAttempts' = [playerAttempts EXCEPT ![p] = 0]
    /\ UNCHANGED <<at, heading, session, node, bypassList, kicks, live, scheduledKicks,
                   configVar, strayed, misfired>>

WrongPassword(p) ==
    /\ Prompted(p)
    /\ IF playerAttempts[p] + 1 >= 3
       THEN /\ Ends(p, {})
            /\ playerAttempts' = [playerAttempts EXCEPT ![p] = 0]
       ELSE /\ playerAttempts' = [playerAttempts EXCEPT ![p] = @ + 1]
            /\ UNCHANGED <<at, heading, strayed>>
    /\ UNCHANGED <<session, node, granting, bypassList, kicks, live, scheduledKicks,
                   transfers, configVar, misfired>>

Granted(p) ==
    /\ p \in granting
    /\ granting' = granting \ {p} /\ node' = node \cup {p}
    /\ UNCHANGED <<at, heading, session, bypassList, playerAttempts, kicks, live,
                   scheduledKicks, transfers, configVar, strayed, misfired>>

(* The proxy may not know the hub, another plugin may refuse the way there. *)
TransferToHub(t) ==
    /\ transfers' = transfers \ {t}
    /\ \/ /\ session[t.player] = t.session /\ at[t.player] \in {"login", "other"}
          /\ heading[t.player] = AuthNone
          /\ heading' = [heading EXCEPT ![t.player] = "hub"]
       \/ UNCHANGED heading
    /\ UNCHANGED <<at, session, node, granting, bypassList, playerAttempts, kicks, live,
                   scheduledKicks, configVar, strayed, misfired>>

(* A kick runs.  It takes whatever entry its player has by then. *)
Kick(k) ==
    LET p == kicks[k].player
        hits == kicks[k].session = session[p] /\ at[p] # "off" IN
    /\ live' = live \ {k}
    /\ scheduledKicks' = [scheduledKicks EXCEPT ![p] = AuthNone]
    /\ IF hits THEN Ends(p, {k}) ELSE UNCHANGED <<at, heading, strayed>>
    /\ misfired' = IF hits /\ at[p] # "login" THEN misfired \cup {p} ELSE misfired
    /\ UNCHANGED <<session, node, granting, bypassList, playerAttempts, kicks, transfers,
                   configVar>>

(* AdminCommand: reload, toggle, add and remove. *)
Administer ==
    /\ \/ configVar' \in AuthConfigs /\ UNCHANGED bypassList
       \/ configVar' = [configVar EXCEPT !.enabled = ~@] /\ UNCHANGED bypassList
       \/ /\ \E p \in AuthPlayers : bypassList' \in {bypassList \cup {p}, bypassList \ {p}}
          /\ UNCHANGED configVar
    /\ UNCHANGED <<at, heading, session, node, granting, playerAttempts, kicks, live,
                   scheduledKicks, transfers, strayed, misfired>>

AuthInit ==
    /\ at = [p \in AuthPlayers |-> "off"] /\ heading = [p \in AuthPlayers |-> AuthNone]
    /\ session = [p \in AuthPlayers |-> 0]
    /\ node \in SUBSET AuthPlayers /\ granting = {}
    /\ bypassList = {} /\ playerAttempts = [p \in AuthPlayers |-> 0]
    /\ kicks = <<>> /\ live = {} /\ scheduledKicks = [p \in AuthPlayers |-> AuthNone]
    /\ transfers = {} /\ configVar \in AuthConfigs
    /\ strayed = {} /\ misfired = {}

AuthNext ==
    \/ \E p \in AuthPlayers :
        \/ \E login \in {"up", "down", "unknown"} : Join(p, login)
        \/ \E s \in Servers : Connect(p, s)
        \/ ServerConnected(p) \/ Refused(p) \/ LoginLost(p) \/ Quit(p)
        \/ RightPassword(p) \/ WrongPassword(p) \/ Granted(p)
    \/ \E t \in transfers : TransferToHub(t)
    \/ \E k \in live : Kick(k)
    \/ Administer

AuthSpec == AuthInit /\ [][AuthNext]_authVars

-----------------------------------------------------------------------------
(* Properties *)

AuthTypeOK ==
    /\ at \in [AuthPlayers -> Servers \cup {"off", "proxy"}]
    /\ heading \in [AuthPlayers -> Servers \cup {AuthNone}]
    /\ session \in [AuthPlayers -> 0 .. MaxSessions]
    /\ playerAttempts \in [AuthPlayers -> 0 .. 2]
    /\ live \subseteq DOMAIN kicks
    /\ scheduledKicks \in [AuthPlayers -> DOMAIN kicks \cup {AuthNone}]
    /\ node \cup granting \cup bypassList \cup strayed \cup misfired \subseteq AuthPlayers

(* Who waits at the login server for a password has a kick of his session  *)
(* coming, whatever he did in sessions before.                              *)
LoginIsTimed ==
    \A p \in AuthPlayers : at[p] = "login" /\ p \notin node => Hers(p) # {}

(* A kick hits a player who waits at the login server, whom it is meant     *)
(* for, unless he once quit or left for a server that is not the hub with   *)
(* a kick waiting: the code then loses the entry it would cancel.           *)
KicksHitWaiting == misfired \subseteq strayed

(* The plugin's maps and timers, under every order of its events. *)
AuthInv == AuthTypeOK /\ LoginIsTimed /\ KicksHitWaiting

=============================================================================
