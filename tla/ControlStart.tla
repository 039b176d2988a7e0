---------------------------- MODULE ControlStart ----------------------------
(***************************************************************************)
(* Clients that find no server start one, and servers that compete for the *)
(* control socket.  Clients take turns by the startup lock; a server holds *)
(* the lifetime lock from before its socket exists until after it is gone. *)
(* A process that dies leaves its socket behind, and no lock.              *)
(***************************************************************************)
EXTENDS Integers, FiniteSets

CONSTANTS
    Client,
    Server,       \* processes that may become servers
    Nothing, Stale,    \* no lock owner, socket or server; a socket left behind earlier
    MaxDeaths     \* bound: servers that die or are stopped

ASSUME Processes ==
    /\ Client \cap Server = {} /\ {Nothing, Stale} \cap (Client \cup Server) = {}
    /\ MaxDeaths \in Nat

VARIABLES
    caller,    \* what each client is at, and the server it has started
    server,    \* what each server is at
    startup,   \* the client that holds the startup lock
    lifetime,  \* the server that holds the lifetime lock
    socket,    \* whose socket is at the path
    deaths
startVars == <<caller, server, startup, lifetime, socket, deaths>>

StartInit ==
    /\ caller = [c \in Client |-> [stage |-> "probing", started |-> Nothing]]
    /\ server = [s \in Server |-> "new"]
    /\ startup = Nothing /\ lifetime = Nothing /\ socket \in {Nothing, Stale} /\ deaths = 0

Listening(s) == s \in Server /\ server[s] \in {"bound", "serving"}
Reachable == Listening(socket)

-----------------------------------------------------------------------------
(* Clients.                                                                *)

Step(c, stage) == caller' = [caller EXCEPT ![c].stage = stage]
(* The startup lock is given up however the call ends.                     *)
End(c, stage) ==
    /\ Step(c, stage)
    /\ startup' = IF startup = c THEN Nothing ELSE startup
(* Only an absent socket or a refused connection lets a client go on.      *)
Probe(c, absent) ==
    /\ IF Reachable THEN End(c, "ready") ELSE Step(c, absent) /\ UNCHANGED startup
    /\ UNCHANGED <<server, lifetime, socket, deaths>>

FirstProbe(c) == caller[c].stage = "probing" /\ Probe(c, "locking")
LockStartup(c) ==
    /\ caller[c].stage = "locking" /\ startup = Nothing
    /\ Step(c, "locked")
    /\ startup' = c
    /\ UNCHANGED <<server, lifetime, socket, deaths>>
(* Mutated form: what was found before the wait for the lock is trusted.   *)
SecondProbeSkipped(c) ==
    /\ caller[c].stage = "locked" /\ Step(c, "starting")
    /\ UNCHANGED <<server, startup, lifetime, socket, deaths>>
SecondProbe(c) == caller[c].stage = "locked" /\ Probe(c, "starting")
StartServer(c) ==
    /\ caller[c].stage = "starting"
    /\ \E s \in Server :
        /\ server[s] = "new"
        /\ server' = [server EXCEPT ![s] = "launched"]
        /\ caller' = [caller EXCEPT ![c] = [stage |-> "waiting", started |-> s]]
    /\ UNCHANGED <<startup, lifetime, socket, deaths>>
WaitReady(c) == caller[c].stage = "waiting" /\ Reachable /\ Probe(c, "waiting")

(* The caller's time is up, it dies, or a connection that was accepted is  *)
(* not answered.                                                           *)
GiveUp(c) ==
    /\ caller[c].stage \notin {"ready", "failed"}
    /\ End(c, "failed")
    /\ UNCHANGED <<server, lifetime, socket, deaths>>

-----------------------------------------------------------------------------
(* Servers.                                                                *)

Goes(s, stage) == server' = [server EXCEPT ![s] = stage]
Unlocked(s) == lifetime' = IF lifetime = s THEN Nothing ELSE lifetime
(* Someone else may also start a server.                                   *)
LaunchOther(s) ==
    /\ server[s] = "new" /\ Goes(s, "launched")
    /\ \A t \in Server : server[t] # "new" => \E c \in Client : caller[c].started = t
    /\ UNCHANGED <<caller, startup, lifetime, socket, deaths>>
LockLifetime(s) ==
    /\ server[s] = "launched"
    /\ IF lifetime = Nothing THEN lifetime' = s /\ Goes(s, "owner")
                             ELSE UNCHANGED lifetime /\ Goes(s, "exited")
    /\ UNCHANGED <<caller, startup, socket, deaths>>

(* Mutated form: a socket that refuses connections is left alone.          *)
ReclaimNone(s) ==
    /\ server[s] = "owner"
    /\ IF socket = Nothing THEN Goes(s, "cleared") /\ UNCHANGED lifetime
                           ELSE Goes(s, "exited") /\ Unlocked(s)
    /\ UNCHANGED <<caller, startup, socket, deaths>>
(* A socket that answers is respected; one that refuses is removed, in     *)
(* steps of its own.                                                       *)
Reclaim(s) ==
    /\ server[s] = "owner"
    /\ CASE socket = Nothing -> Goes(s, "cleared") /\ UNCHANGED lifetime
         [] Reachable -> Goes(s, "exited") /\ Unlocked(s)
         [] OTHER -> Goes(s, "removing") /\ UNCHANGED lifetime
    /\ UNCHANGED <<caller, startup, socket, deaths>>
RemoveStale(s) ==
    /\ server[s] = "removing"
    /\ socket' = Nothing /\ Goes(s, "cleared")
    /\ UNCHANGED <<caller, startup, lifetime, deaths>>
Bind(s) ==
    /\ server[s] = "cleared"
    /\ IF socket = Nothing THEN socket' = s /\ Goes(s, "bound") /\ UNCHANGED lifetime
                           ELSE UNCHANGED socket /\ Goes(s, "exited") /\ Unlocked(s)
    /\ UNCHANGED <<caller, startup, deaths>>
Serve(s) ==
    /\ server[s] = "bound" /\ Goes(s, "serving")
    /\ UNCHANGED <<caller, startup, lifetime, socket, deaths>>

(* A server that stops closes its listener, sees whether the socket is     *)
(* still its own, removes it, and only then unlocks.                       *)
Stop(s) ==
    /\ server[s] = "serving" /\ deaths < MaxDeaths
    /\ deaths' = deaths + 1 /\ Goes(s, "closed")
    /\ UNCHANGED <<caller, startup, lifetime, socket>>
CheckOwn(s) ==
    /\ server[s] = "closed"
    /\ Goes(s, IF socket = s THEN "leaving" ELSE "unlinked")
    /\ UNCHANGED <<caller, startup, lifetime, socket, deaths>>
(* Mutated form: the lock is given up before the socket is removed.        *)
UnlinkUnlocked(s) ==
    \/ /\ server[s] = "leaving" /\ lifetime = s
       /\ lifetime' = Nothing
       /\ UNCHANGED <<caller, server, startup, socket, deaths>>
    \/ /\ server[s] = "leaving" /\ lifetime # s
       /\ socket' = Nothing /\ Goes(s, "unlinked")
       /\ UNCHANGED <<caller, startup, lifetime, deaths>>
Unlink(s) ==
    /\ server[s] = "leaving"
    /\ socket' = Nothing /\ Goes(s, "unlinked")
    /\ UNCHANGED <<caller, startup, lifetime, deaths>>
Unlock(s) ==
    /\ server[s] = "unlinked"
    /\ Unlocked(s) /\ Goes(s, "exited")
    /\ UNCHANGED <<caller, startup, socket, deaths>>
Die(s) ==
    /\ server[s] \notin {"new", "exited"} /\ deaths < MaxDeaths
    /\ deaths' = deaths + 1 /\ Goes(s, "exited") /\ Unlocked(s)
    /\ UNCHANGED <<caller, startup, socket>>

ClientStep(c) == FirstProbe(c) \/ LockStartup(c) \/ SecondProbe(c) \/ StartServer(c) \/ WaitReady(c)
ServerStep(s) ==
    \/ LockLifetime(s) \/ Reclaim(s) \/ RemoveStale(s) \/ Bind(s) \/ Serve(s)
    \/ CheckOwn(s) \/ Unlink(s) \/ Unlock(s)
StartNext ==
    \/ \E c \in Client : ClientStep(c) \/ GiveUp(c)
    \/ \E s \in Server : ServerStep(s) \/ LaunchOther(s) \/ Stop(s) \/ Die(s)
StartSpec == StartInit /\ [][StartNext]_startVars
StartFairness ==
    /\ \A c \in Client : WF_startVars(ClientStep(c))
    /\ \A s \in Server : WF_startVars(ServerStep(s))

-----------------------------------------------------------------------------
(* A server that listens can be reached: nobody removes or replaces its    *)
(* socket, neither one that takes it for stale nor one that is leaving     *)
(* (control_socket.go, reclaimControlSocket and Close).                    *)
SocketKept == \A s \in Server : Listening(s) => socket = s

(* Clients that find no server together start one: two servers are started *)
(* for clients only if a client gave up or a server ended meanwhile, no    *)
(* matter who else starts one (control_start.go, EnsureControl).           *)
StartedOnce == \A c, d \in Client :
    c # d /\ caller[c].started # Nothing /\ caller[d].started # Nothing =>
        deaths > 0 \/ \E e \in Client : caller[e].stage = "failed"

(* Whoever needs a server gets to it, past a socket left behind, another's *)
(* start and another's server, unless it gives up or a server ends.        *)
ServerReached == \A c \in Client :
    caller[c].stage = "probing" ~> (caller[c].stage \in {"ready", "failed"} \/ deaths > 0)
=============================================================================
